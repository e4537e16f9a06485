------------------------- MODULE SectionAssemblerProofs -------------------------
(***************************************************************************)
(* What TsSectionAssembler hands out, for every size of packet, lengths of *)
(* sections, packing and loss shorter than the counter's cycle.            *)
(***************************************************************************)
EXTENDS SectionAssembler, SequenceTheorems, Induction

-----------------------------------------------------------------------------
(* The loop of try_complete.                                               *)

(* Nothing to skip and nothing to hand out: too little of a section, or of *)
(* noise.                                                                  *)
Stays(q, says) ==
    q = <<>> \/ LET total == Total(q, says)
                IN  total \notin {Filler, TooLong} /\ ~Whole(q, total)

Finished(p, says) == Stays(p.rest, says)

LEMMA FinishedStays ==
    ASSUME NEW says, NEW p, Finished(p, says)
    PROVE  Turn(p, says) = p
BY DEF Finished, Stays, Turn

(* What every turn keeps and shortens holds at the end of the loop, and    *)
(* then there is nothing left to skip or to hand out.                      *)
LEMMA CompletedLoop ==
    ASSUME NEW says, NEW q \in Seq(Cell), NEW J,
           [out |-> <<>>, rest |-> q] \in J,
           \A p \in J : /\ p.rest \in Seq(Cell)
                        /\ ~Finished(p, says) => /\ Turn(p, says) \in J
                                           /\ Len(Turn(p, says).rest) < Len(p.rest)
    PROVE  Completed(q, says) \in J /\ Finished(Completed(q, says), says)
<1> DEFINE n == Len(q)
           e == [out |-> <<>>, rest |-> q]
           m == Turns(q, says)
           inv == [i \in 0 .. n |-> {p \in J : Finished(p, says) \/ Len(p.rest) <= n - i}]
           step == [x \in (1 .. n) \X J |-> Turn(x[2], says)]
<1>1. n \in Nat /\ e.rest = q /\ e \in inv[0]
  OBVIOUS
<1> HIDE DEF e
<1>2. \A i \in 1 .. n : \A p \in inv[i - 1] : step[<<i, p>>] = Turn(p, says)
  <2> SUFFICES ASSUME NEW i \in 1 .. n, NEW p \in inv[i - 1] PROVE step[<<i, p>>] = Turn(p, says)
    OBVIOUS
  <2>1. i - 1 \in 0 .. n
    BY <1>1
  <2>2. <<i, p>> \in (1 .. n) \X J
    BY <2>1
  <2> QED BY <2>2
<1>3. \A i \in 1 .. n : \A p \in inv[i - 1] : Turn(p, says) \in inv[i]
  <2> SUFFICES ASSUME NEW i \in 1 .. n, NEW p \in inv[i - 1] PROVE Turn(p, says) \in inv[i]
    OBVIOUS
  <2>1. i - 1 \in 0 .. n /\ i \in 0 .. n
    BY <1>1
  <2>2. p \in J /\ (Finished(p, says) \/ Len(p.rest) <= n - (i - 1))
    BY <2>1
  <2>3. CASE Finished(p, says)
    BY <2>1, <2>2, <2>3, FinishedStays
  <2>4. CASE ~Finished(p, says)
    <3>1. Turn(p, says) \in J /\ Len(Turn(p, says).rest) < Len(p.rest) /\ Len(p.rest) <= n - (i - 1)
      BY <2>2, <2>4
    <3>2. Len(p.rest) \in Nat /\ Len(Turn(p, says).rest) \in Nat
      BY <2>2, <3>1, LenProperties
    <3>3. Len(Turn(p, says).rest) <= n - i
      BY <1>1, <2>1, <3>1, <3>2
    <3> QED BY <2>1, <3>1, <3>3
  <2> QED BY <2>3, <2>4
<1> HIDE DEF n, m
<1>4. PICK h : /\ h = [i \in 0 .. n |-> IF i = 0 THEN e ELSE step[<<i, h[i - 1]>>]]
               /\ \A i \in 0 .. n : h[i] \in inv[i]
  <2> HIDE DEF step, inv
  <2>1. \A i \in 1 .. n : \A p \in inv[i - 1] : step[<<i, p>>] \in inv[i]
    BY <1>2, <1>3
  <2>2. Keeps(step, n, inv)
    BY <2>1 DEF Keeps
  <2>3. \E h : IsRun(h, n, e, step) /\ Within(h, n, inv)
    BY <1>1, <2>2, Iteration
  <2> QED BY <2>3 DEF IsRun, Within
<1> HIDE DEF step
<1>5. h = [i \in 0 .. n |-> IF i = 0 THEN e ELSE Turn(h[i - 1], says)]
  <2>1. \A i \in 0 .. n : i # 0 => i \in 1 .. n /\ i - 1 \in 0 .. n
    BY <1>1
  <2> HIDE DEF inv
  <2>2. \A i \in 0 .. n : (IF i = 0 THEN e ELSE step[<<i, h[i - 1]>>])
                            = IF i = 0 THEN e ELSE Turn(h[i - 1], says)
    BY <1>2, <1>4, <2>1
  <2> QED BY <1>4, <2>2
<1>6. m = [i \in 0 .. n |-> IF i = 0 THEN e ELSE Turn(m[i - 1], says)]
  <2> DEFINE F(f) == f = [i \in 0 .. n |-> IF i = 0 THEN e ELSE Turn(f[i - 1], says)]
  <2>1. m = CHOOSE f : F(f)
    BY DEF Turns, e, m, n
  <2>2. \E f : F(f)
    BY <1>5
  <2> HIDE DEF F
  <2>3. F(m)
    BY <2>1, <2>2
  <2> QED BY <2>3 DEF F
<1>7. \A i \in 0 .. n : m[i] \in inv[i]
  <2> DEFINE S == {i \in Nat : i <= n => m[i] \in inv[i]}
  <2>1. 0 \in S
    <3> HIDE DEF inv
    <3>1. m[0] = e
      BY <1>1, <1>6
    <3> QED BY <1>1, <3>1
  <2>2. ASSUME NEW i \in Nat, i \in S PROVE i + 1 \in S
    <3> SUFFICES ASSUME i + 1 <= n PROVE m[i + 1] \in inv[i + 1]
      OBVIOUS
    <3> HIDE DEF inv
    <3>1. i + 1 \in 1 .. n /\ (i + 1) - 1 = i /\ m[i] \in inv[i]
      BY <1>1, <2>2
    <3>2. m[i + 1] = Turn(m[i], says)
      BY <1>1, <1>6, <3>1
    <3> QED BY <1>3, <3>1, <3>2
  <2>3. Nat \subseteq S
    <3> HIDE DEF S
    <3> QED BY <2>1, <2>2, Induct
  <2> HIDE DEF inv
  <2> QED BY <1>1, <2>3
<1>8. m[n] \in J /\ (Finished(m[n], says) \/ Len(m[n].rest) <= 0)
  BY <1>1, <1>7
<1>9. Len(m[n].rest) <= 0 => m[n].rest = <<>>
  BY <1>8, LenProperties, EmptySeq
<1>10. m[n].rest = <<>> => Finished(m[n], says)
  BY DEF Finished, Stays
<1> QED BY <1>8, <1>9, <1>10 DEF Completed, m, n

-----------------------------------------------------------------------------
(* Pieces of sections.                                                     *)

CellAt(id, len, i) == [id |-> id, i |-> i, len |-> len]
Cells(id, len, from, n) == [k \in 1 .. n |-> CellAt(id, len, from + k)]
Stuffing(n) == [k \in 1 .. n |-> Stuff]
IsSection(x) == x # <<>> /\ Headed(x) /\ Len(x) = x[1].len
Handed(x) == IF x = <<>> THEN <<>> ELSE <<x>>

LEMMA TakeDrop ==
    ASSUME NEW s \in Seq(Cell), NEW n \in Nat
    PROVE  /\ Take(s, n) \in Seq(Cell) /\ Drop(s, n) \in Seq(Cell)
           /\ n <= Len(s) => /\ Len(Take(s, n)) = n /\ Len(Drop(s, n)) = Len(s) - n
                             /\ \A k \in 1 .. n : Take(s, n)[k] = s[k]
                             /\ \A k \in 1 .. Len(s) - n : Drop(s, n)[k] = s[n + k]
           /\ n >= Len(s) => Take(s, n) = s /\ Drop(s, n) = <<>>
<1>1. Len(s) \in Nat /\ \A k \in 1 .. Len(s) : s[k] \in Cell
  BY LenProperties, ElementOfSeq
<1>2. CASE n <= Len(s)
  <2>1. Take(s, n) = SubSeq(s, 1, n) /\ Drop(s, n) = SubSeq(s, n + 1, Len(s))
    BY <1>1, <1>2 DEF Take, Drop
  <2>2. /\ SubSeq(s, 1, n) \in Seq(Cell)
        /\ Len(SubSeq(s, 1, n)) = IF 1 <= n THEN n - 1 + 1 ELSE 0
        /\ \A k \in 1 .. n - 1 + 1 : SubSeq(s, 1, n)[k] = s[1 + k - 1]
    BY <1>1, <1>2, SubSeqProperties
  <2>3. /\ SubSeq(s, n + 1, Len(s)) \in Seq(Cell)
        /\ Len(SubSeq(s, n + 1, Len(s))) = IF n + 1 <= Len(s) THEN Len(s) - (n + 1) + 1 ELSE 0
        /\ \A k \in 1 .. Len(s) - (n + 1) + 1 : SubSeq(s, n + 1, Len(s))[k] = s[n + 1 + k - 1]
    BY <1>1, <1>2, SubSeqProperties
  <2>4. n = Len(s) => SubSeq(s, 1, n) = s /\ SubSeq(s, n + 1, Len(s)) = <<>>
    BY <1>1, SubSeqFull, SubSeqEmpty
  <2> QED BY <1>1, <1>2, <2>1, <2>2, <2>3, <2>4
<1>3. CASE n > Len(s)
  <2>1. Take(s, n) = SubSeq(s, 1, Len(s)) /\ Drop(s, n) = SubSeq(s, n + 1, Len(s))
    BY <1>1, <1>3 DEF Take, Drop
  <2>2. SubSeq(s, 1, Len(s)) = s
    BY SubSeqFull
  <2>3. SubSeq(s, n + 1, Len(s)) = <<>>
    BY <1>1, <1>3, SubSeqEmpty
  <2>4. <<>> \in Seq(Cell)
    BY EmptySeq
  <2>5. Take(s, n) = s /\ Drop(s, n) = <<>>
    BY <2>1, <2>2, <2>3
  <2>6. ~(n <= Len(s))
    BY <1>1, <1>3
  <2> QED BY <2>4, <2>5, <2>6
<1> QED BY <1>1, <1>2, <1>3

Groups(s, t, u) == (s \o t) \o u = s \o (t \o u)
Regrouped(s, t, u, v) == ((s \o t) \o u) \o v = s \o (t \o (u \o v))

LEMMA ConcatGroups ==
    ASSUME NEW S, NEW s \in Seq(S), NEW t \in Seq(S), NEW u \in Seq(S)
    PROVE  Groups(s, t, u)
BY ConcatAssociative DEF Groups

LEMMA ConcatFour ==
    ASSUME NEW S, NEW s \in Seq(S), NEW t \in Seq(S), NEW u \in Seq(S), NEW v \in Seq(S)
    PROVE  Regrouped(s, t, u, v)
<1> DEFINE a == s \o t
           b == u \o v
<1>1. a \in Seq(S) /\ b \in Seq(S)
  BY ConcatProperties
<1> HIDE DEF a, b
<1>2. Groups(a, u, v) /\ Groups(s, t, b)
  BY <1>1, ConcatGroups
<1>3. (a \o u) \o v = a \o (u \o v)
  BY <1>2 DEF Groups
<1>4. (s \o t) \o b = s \o (t \o b)
  BY <1>2 DEF Groups
<1> QED BY <1>3, <1>4 DEF Regrouped, a, b

LEMMA SplitConcat ==
    ASSUME NEW x \in Seq(Cell), NEW y \in Seq(Cell)
    PROVE  Take(x \o y, Len(x)) = x /\ Drop(x \o y, Len(x)) = y
<1> DEFINE s == x \o y
<1>1. /\ s \in Seq(Cell) /\ Len(s) = Len(x) + Len(y)
      /\ \A k \in 1 .. Len(x) + Len(y) : s[k] = IF k <= Len(x) THEN x[k] ELSE y[k - Len(x)]
  BY ConcatProperties
<1>2. Len(x) \in Nat /\ Len(y) \in Nat
  BY LenProperties
<1> HIDE DEF s
<1>3. /\ Take(s, Len(x)) \in Seq(Cell) /\ Drop(s, Len(x)) \in Seq(Cell)
      /\ Len(Take(s, Len(x))) = Len(x) /\ Len(Drop(s, Len(x))) = Len(y)
      /\ \A k \in 1 .. Len(x) : Take(s, Len(x))[k] = s[k]
      /\ \A k \in 1 .. Len(y) : Drop(s, Len(x))[k] = s[Len(x) + k]
  <2>1. Len(x) <= Len(s) /\ Len(s) - Len(x) = Len(y)
    BY <1>1, <1>2
  <2> DEFINE n == Len(x)
  <2>2. /\ Take(s, n) \in Seq(Cell) /\ Drop(s, n) \in Seq(Cell)
        /\ n <= Len(s) => /\ Len(Take(s, n)) = n /\ Len(Drop(s, n)) = Len(s) - n
                          /\ \A k \in 1 .. n : Take(s, n)[k] = s[k]
                          /\ \A k \in 1 .. Len(s) - n : Drop(s, n)[k] = s[n + k]
    <3>1. n \in Nat /\ s \in Seq(Cell)
      BY <1>1, <1>2
    <3> HIDE DEF n
    <3> QED BY <3>1, TakeDrop
  <2> QED BY <2>1, <2>2
<1>4. \A k \in 1 .. Len(x) : Take(s, Len(x))[k] = x[k]
  BY <1>1, <1>2, <1>3
<1>5. \A k \in 1 .. Len(y) : Drop(s, Len(x))[k] = y[k]
  <2> SUFFICES ASSUME NEW k \in 1 .. Len(y) PROVE Drop(s, Len(x))[k] = y[k]
    OBVIOUS
  <2>1. Len(x) + k \in 1 .. Len(x) + Len(y) /\ ~(Len(x) + k <= Len(x)) /\ (Len(x) + k) - Len(x) = k
    BY <1>2
  <2> QED BY <1>1, <1>3, <2>1
<1>6. Take(s, Len(x)) = x
  BY <1>3, <1>4, SeqEqual
<1>7. Drop(s, Len(x)) = y
  BY <1>3, <1>5, SeqEqual
<1> QED BY <1>6, <1>7 DEF s

LEMMA FirstOf ==
    ASSUME NEW x \in Seq(Cell), x # <<>>, NEW y \in Seq(Cell)
    PROVE  /\ x \o y # <<>> /\ (x \o y)[1] = x[1] /\ Len(x) \in Nat \ {0}
           /\ x \o y \in Seq(Cell) /\ Len(x \o y) = Len(x) + Len(y)
<1>1. Len(x) \in Nat \ {0} /\ Len(y) \in Nat
  BY LenProperties, EmptySeq
<1>2. /\ x \o y \in Seq(Cell) /\ Len(x \o y) = Len(x) + Len(y)
      /\ (x \o y)[1] = x[1]
  BY <1>1, ConcatProperties
<1> QED BY <1>1, <1>2, EmptySeq

LEMMA SecondOf ==
    ASSUME NEW x \in Seq(Cell), x # <<>>, NEW y \in Seq(Cell)
    PROVE  Len(x) # 1 => (x \o y)[2] = x[2]
<1>1. Len(x) \in Nat \ {0} /\ Len(y) \in Nat
  BY LenProperties, EmptySeq
<1> DEFINE q == x \o y
<1>2. /\ q \in Seq(Cell) /\ Len(q) = Len(x) + Len(y)
      /\ \A k \in 1 .. Len(x) + Len(y) : q[k] = IF k <= Len(x) THEN x[k] ELSE y[k - Len(x)]
  BY ConcatProperties
<1> HIDE DEF q
<1> DEFINE n == Len(x)
           m == Len(y)
<1>3. n \in Nat \ {0} /\ m \in Nat
  BY <1>1
<1>4. \A k \in 1 .. n + m : q[k] = IF k <= n THEN x[k] ELSE y[k - n]
  BY <1>2
<1> HIDE DEF n, m
<1>5. n # 1 => 2 \in 1 .. n + m /\ 2 <= n
  BY <1>3
<1>6. n # 1 => q[2] = x[2]
  BY <1>4, <1>5
<1> QED BY <1>6 DEF q, n

(* A section at the front is handed out, and only it.                      *)
HandsFirst(o, says, x, y) ==
    LET p == [out |-> o, rest |-> x \o y]
    IN  /\ ~Finished(p, says) /\ Turn(p, says) = [out |-> Append(o, x), rest |-> y]
        /\ Len(y) < Len(x \o y)

LEMMA TurnOnSection ==
    ASSUME NEW says, NEW x \in Seq(Cell), IsSection(x), NEW y \in Seq(Cell), NEW o
    PROVE  HandsFirst(o, says, x, y)
<1> DEFINE q == x \o y
<1>1. /\ q # <<>> /\ q[1] = x[1] /\ Len(x) \in Nat \ {0} /\ q \in Seq(Cell)
      /\ Len(q) = Len(x) + Len(y) /\ Len(y) \in Nat
  BY FirstOf, LenProperties DEF IsSection
<1>2. q[1].i = 1 /\ q[1].len = Len(x) /\ q[1] # Stuff
  BY <1>1 DEF IsSection, Headed, Stuff
<1>3. Take(q, Len(x)) = x /\ Drop(q, Len(x)) = y
  BY SplitConcat
<1>4. Len(x) # 1 => q[2] = x[2]
  BY SecondOf DEF IsSection
<1> HIDE DEF q
<1>5. Headed(q)
  BY <1>1, <1>2, <1>4 DEF IsSection, Headed
<1>6. Total(q, says) = Len(x)
  BY <1>2, <1>5 DEF Total
<1>7. Whole(q, Len(x)) /\ Len(x) \notin {Filler, TooLong}
  BY <1>1 DEF Whole, Filler, TooLong
<1>8. Turn([out |-> o, rest |-> q], says) = [out |-> Append(o, x), rest |-> y]
  BY <1>1, <1>3, <1>6, <1>7 DEF Turn
<1>9. ~Finished([out |-> o, rest |-> q], says)
  BY <1>1, <1>6, <1>7 DEF Finished, Stays
<1>10. Len(y) < Len(q)
  BY <1>1
<1> QED BY <1>8, <1>9, <1>10 DEF q, HandsFirst

(* Up to two sections, and something that is none: the sections are handed *)
(* out in order, and of the rest the stuffing is skipped.                  *)
LEMMA Sections ==
    ASSUME NEW says, NEW x \in Seq(Cell), x = <<>> \/ IsSection(x),
           NEW y \in Seq(Cell), y = <<>> \/ IsSection(y),
           NEW tails, NEW t \in tails, tails \subseteq Seq(Cell),
           \A s \in tails : Stays(s, says) \/ (s # <<>> /\ s[1] = Stuff /\ Tail(s) \in tails)
    PROVE  \E s \in tails :
              /\ Completed(x \o (y \o t), says) = [out |-> Handed(x) \o Handed(y), rest |-> s]
              /\ Stays(s, says)
<1> DEFINE a == [out |-> <<>>, rest |-> x \o (y \o t)]
           b == [out |-> Handed(x), rest |-> y \o t]
           c(s) == [out |-> Handed(x) \o Handed(y), rest |-> s]
           J == {a, b} \cup {c(s) : s \in tails}
<1>1. /\ t \in Seq(Cell) /\ y \o t \in Seq(Cell) /\ x \o (y \o t) \in Seq(Cell)
  BY ConcatProperties
<1>2. Handed(x) \in Seq(Seq(Cell)) /\ Handed(y) \in Seq(Seq(Cell))
  BY DEF Handed
<1>3. x = <<>> => a = b
  BY <1>1, ConcatEmptySeq DEF Handed
<1>4. y = <<>> => b = c(t)
  <2>1. y = <<>> => y \o t = t
    BY <1>1, ConcatEmptySeq
  <2>2. y = <<>> => Handed(x) \o Handed(y) = Handed(x)
    BY <1>2, ConcatEmptySeq DEF Handed
  <2> QED BY <2>1, <2>2
<1>5. x # <<>> => ~Finished(a, says) /\ Turn(a, says) = b /\ Len(b.rest) < Len(a.rest)
  <2> SUFFICES ASSUME IsSection(x) PROVE ~Finished(a, says) /\ Turn(a, says) = b /\ Len(b.rest) < Len(a.rest)
    OBVIOUS
  <2>1. Append(<<>>, x) = Handed(x)
    BY DEF Handed, IsSection
  <2>2. HandsFirst(<<>>, says, x, y \o t)
    BY <1>1, TurnOnSection
  <2> QED BY <2>1, <2>2 DEF HandsFirst
<1>6. y # <<>> => ~Finished(b, says) /\ Turn(b, says) = c(t) /\ Len(c(t).rest) < Len(b.rest)
  <2> SUFFICES ASSUME IsSection(y)
               PROVE  ~Finished(b, says) /\ Turn(b, says) = c(t) /\ Len(c(t).rest) < Len(b.rest)
    OBVIOUS
  <2>1. Append(Handed(x), y) = Handed(x) \o Handed(y)
    <3>1. Handed(y) = <<y>>
      BY DEF Handed, IsSection
    <3> QED BY <1>2, <3>1, AppendIsConcat
  <2>2. HandsFirst(Handed(x), says, y, t)
    BY <1>1, TurnOnSection
  <2> QED BY <2>1, <2>2 DEF HandsFirst
<1>7. \A s \in tails : ~Finished(c(s), says) =>
         Turn(c(s), says) \in J /\ Len(Turn(c(s), says).rest) < Len(c(s).rest)
  <2> SUFFICES ASSUME NEW s \in tails, ~Finished(c(s), says)
               PROVE  Turn(c(s), says) \in J /\ Len(Turn(c(s), says).rest) < Len(c(s).rest)
    OBVIOUS
  <2>1. s # <<>> /\ s[1] = Stuff /\ Tail(s) \in tails /\ s \in Seq(Cell)
    BY DEF Finished
  <2>2. Turn(c(s), says) = c(Tail(s))
    BY <2>1 DEF Turn, Total
  <2>3. Len(Tail(s)) < Len(s)
    <3> DEFINE u == Tail(s)
    <3>1. Len(u) = Len(s) - 1 /\ Len(s) \in Nat
      BY <2>1, HeadTailProperties, LenProperties
    <3> HIDE DEF u, c, J
    <3>2. Len(u) < Len(s)
      BY <3>1
    <3> QED BY <3>2 DEF u
  <2>4. c(Tail(s)) \in J
    BY <2>1
  <2>5. c(Tail(s)).rest = Tail(s) /\ c(s).rest = s
    OBVIOUS
  <2> HIDE DEF c, J
  <2> QED BY <2>2, <2>3, <2>4, <2>5
<1>8. Completed(x \o (y \o t), says) \in J /\ Finished(Completed(x \o (y \o t), says), says)
  <2>1. a \in J /\ b \in J /\ c(t) \in J
    OBVIOUS
  <2>2. \A p \in J : p.rest \in Seq(Cell)
    <3>1. a.rest \in Seq(Cell) /\ b.rest \in Seq(Cell)
      BY <1>1
    <3>2. ASSUME NEW s \in tails PROVE c(s).rest \in Seq(Cell)
      <4>1. c(s).rest = s
        OBVIOUS
      <4>2. s \in Seq(Cell)
        OBVIOUS
      <4> HIDE DEF c
      <4> QED BY <4>1, <4>2
    <3> HIDE DEF a, b, c
    <3> QED BY <3>1, <3>2
  <2>3. \A p \in J : ~Finished(p, says) => Turn(p, says) \in J /\ Len(Turn(p, says).rest) < Len(p.rest)
    <3> SUFFICES ASSUME NEW p \in J, ~Finished(p, says)
                 PROVE  Turn(p, says) \in J /\ Len(Turn(p, says).rest) < Len(p.rest)
      OBVIOUS
    <3>1. p = a \/ p = b \/ \E s \in tails : p = c(s)
      OBVIOUS
    <3> HIDE DEF a, b, c, J
    <3> QED BY <1>3, <1>4, <1>5, <1>6, <1>7, <2>1, <3>1
  <2> HIDE DEF J
  <2> QED BY <1>1, <2>1, <2>2, <2>3, CompletedLoop
<1>9. \A s \in tails : Finished(c(s), says) => Stays(s, says)
  BY DEF Finished
<1> DEFINE d == Completed(x \o (y \o t), says)
<1>10. \E s \in tails : d = c(s)
  <2>1. d = a \/ d = b \/ \E s \in tails : d = c(s)
    BY <1>8
  <2> HIDE DEF a, b, c, d, J
  <2> QED BY <1>3, <1>4, <1>5, <1>6, <1>8, <2>1 DEF d
<1> HIDE DEF c
<1>11. PICK s \in tails : d = c(s) /\ Stays(s, says)
  BY <1>8, <1>9, <1>10
<1> QED BY <1>11 DEF c

IsCells(c, id, len, from, n) ==
    /\ c \in Seq(Cell) /\ Len(c) = n /\ (c = <<>> <=> n = 0)
    /\ \A k \in 1 .. n : c[k] = CellAt(id, len, from + k)

LEMMA CellsAre ==
    ASSUME NEW id \in 0 .. MaxSections, NEW len \in Nat, NEW from \in Nat, NEW n \in Nat
    PROVE  IsCells(Cells(id, len, from, n), id, len, from, n)
<1> DEFINE c == Cells(id, len, from, n)
<1>1. \A k \in 1 .. n : CellAt(id, len, from + k) \in Cell
  BY DEF Cell, CellAt
<1>2. c \in [1 .. n -> Cell]
  BY <1>1 DEF Cells
<1>3. c \in Seq(Cell) /\ Len(c) = n
  BY <1>2
<1>4. \A k \in 1 .. n : c[k] = CellAt(id, len, from + k)
  BY DEF Cells
<1> HIDE DEF c
<1>5. c = <<>> <=> n = 0
  BY <1>3, EmptySeq
<1> QED BY <1>3, <1>4, <1>5 DEF c, IsCells

LEMMA CellsTyped ==
    ASSUME NEW id \in 0 .. MaxSections, NEW len \in Nat, NEW from \in Nat, NEW n \in Nat
    PROVE  /\ Cells(id, len, from, n) \in Seq(Cell) /\ Len(Cells(id, len, from, n)) = n
           /\ Cells(id, len, from, n) = <<>> <=> n = 0
<1> DEFINE c == Cells(id, len, from, n)
<1>1. IsCells(c, id, len, from, n)
  BY CellsAre
<1> HIDE DEF c
<1>2. c \in Seq(Cell) /\ Len(c) = n /\ (c = <<>> <=> n = 0)
  BY <1>1 DEF IsCells
<1> QED BY <1>2 DEF c

LEMMA StuffingIs ==
    ASSUME NEW n \in Nat
    PROVE  /\ Stuffing(n) \in Seq(Cell) /\ Len(Stuffing(n)) = n
           /\ \A k \in 1 .. n : Stuffing(n)[k] = Stuff
<1>1. Stuff \in Cell
  BY AssemblerAssumption DEF AssemblerAssumption, Stuff, Cell
<1>2. Stuffing(n) \in [1 .. n -> Cell]
  BY <1>1 DEF Stuffing
<1>3. \A k \in 1 .. n : Stuffing(n)[k] = Stuff
  BY DEF Stuffing
<1> QED BY <1>2, <1>3

LEMMA StuffingTail ==
    ASSUME NEW n \in Nat, n # 0
    PROVE  Tail(Stuffing(n)) = Stuffing(n - 1)
<1> DEFINE s == Stuffing(n)
           t == Stuffing(n - 1)
<1>1. s \in Seq(Cell) /\ Len(s) = n /\ \A k \in 1 .. n : s[k] = Stuff
  BY StuffingIs
<1>2. t \in Seq(Cell) /\ Len(t) = n - 1 /\ \A k \in 1 .. n - 1 : t[k] = Stuff
  BY StuffingIs
<1> HIDE DEF s, t
<1>3. s # <<>>
  BY <1>1
<1> DEFINE u == Tail(s)
<1>4. u \in Seq(Cell) /\ Len(u) = Len(s) - 1 /\ \A k \in 1 .. Len(u) : u[k] = s[k + 1]
  BY <1>1, <1>3, HeadTailProperties
<1> HIDE DEF u
<1>5. \A k \in 1 .. Len(u) : u[k] = t[k]
  BY <1>1, <1>2, <1>4
<1>6. u = t
  BY <1>1, <1>2, <1>4, <1>5, SeqEqual
<1> QED BY <1>6 DEF s, t, u

LEMMA JoinCells ==
    ASSUME NEW id \in 0 .. MaxSections, NEW len \in Nat, NEW from \in Nat,
           NEW nm \in Nat, NEW n \in 0 .. nm
    PROVE  Cells(id, len, from, n) \o Cells(id, len, from + n, nm - n) = Cells(id, len, from, nm)
<1> DEFINE f == from + n
           m == nm - n
           s == Cells(id, len, from, n)
           t == Cells(id, len, f, m)
           u == Cells(id, len, from, nm)
           w == s \o t
<1>0. n \in Nat /\ f \in Nat /\ m \in Nat /\ f = from + n /\ nm = n + m
  OBVIOUS
<1> HIDE DEF f, m
<1>1. IsCells(s, id, len, from, n) /\ IsCells(t, id, len, f, m) /\ IsCells(u, id, len, from, nm)
  BY <1>0, CellsAre
<1> HIDE DEF s, t, u
<1>2. /\ s \in Seq(Cell) /\ Len(s) = n /\ t \in Seq(Cell) /\ Len(t) = m
      /\ u \in Seq(Cell) /\ Len(u) = nm
  BY <1>1 DEF IsCells
<1>3. /\ \A k \in 1 .. n : s[k] = CellAt(id, len, from + k)
      /\ \A k \in 1 .. m : t[k] = CellAt(id, len, f + k)
      /\ \A k \in 1 .. nm : u[k] = CellAt(id, len, from + k)
  BY <1>1 DEF IsCells
<1>4. /\ w \in Seq(Cell) /\ Len(w) = Len(s) + Len(t)
      /\ \A k \in 1 .. Len(s) + Len(t) : w[k] = IF k <= Len(s) THEN s[k] ELSE t[k - Len(s)]
  BY <1>0, <1>2, ConcatProperties
<1> HIDE DEF w
<1>5. ASSUME NEW k \in 1 .. nm PROVE w[k] = u[k]
  <2>1. CASE k <= n
    BY <1>0, <1>2, <1>3, <1>4, <2>1
  <2>2. CASE k > n
    <3>1. k - n \in 1 .. m /\ f + (k - n) = from + k
      BY <1>0, <2>2
    <3>2. t[k - n] = CellAt(id, len, from + k)
      BY <1>3, <3>1
    <3> QED BY <1>0, <1>2, <1>3, <1>4, <2>2, <3>2
  <2> QED BY <1>0, <2>1, <2>2
<1>6. w = u
  <2>1. Len(w) = Len(u) /\ \A k \in 1 .. Len(w) : w[k] = u[k]
    BY <1>0, <1>2, <1>3, <1>4, <1>5
  <2> QED BY <1>2, <1>4, <2>1, SeqEqual
<1> QED BY <1>6 DEF s, t, u, w, f, m

(* Up to two sections and stuffing.                                        *)
LEMMA SectionsAndStuffing ==
    ASSUME NEW says, NEW x \in Seq(Cell), x = <<>> \/ IsSection(x),
           NEW y \in Seq(Cell), y = <<>> \/ IsSection(y), NEW n \in Nat
    PROVE  Completed(x \o (y \o Stuffing(n)), says)
             = [out |-> Handed(x) \o Handed(y), rest |-> <<>>]
<1> DEFINE tails == {Stuffing(k) : k \in 0 .. n}
<1>1. ASSUME NEW k \in 0 .. n
      PROVE  /\ Stuffing(k) \in Seq(Cell)
             /\ Stuffing(k) # <<>> => Stuffing(k)[1] = Stuff /\ Tail(Stuffing(k)) \in tails
  <2>1. /\ Stuffing(k) \in Seq(Cell) /\ Len(Stuffing(k)) = k
        /\ \A j \in 1 .. k : Stuffing(k)[j] = Stuff
    BY StuffingIs
  <2>2. Stuffing(k) # <<>> => k \in Nat /\ k # 0
    BY <2>1, EmptySeq
  <2>3. Stuffing(k) # <<>> => Stuffing(k)[1] = Stuff
    BY <2>1, <2>2
  <2>4. Stuffing(k) # <<>> => Tail(Stuffing(k)) = Stuffing(k - 1) /\ k - 1 \in 0 .. n
    BY <2>2, StuffingTail
  <2> QED BY <2>1, <2>3, <2>4
<1>2. Stuffing(n) \in tails /\ tails \subseteq Seq(Cell)
  BY <1>1
<1>3. \A s \in tails : s # <<>> => s[1] = Stuff /\ Tail(s) \in tails
  BY <1>1
<1> HIDE DEF tails
<1>4. \A s \in tails : Stays(s, says) <=> s = <<>>
  BY <1>3 DEF Stays, Total
<1>5. \A s \in tails : Stays(s, says) \/ (s # <<>> /\ s[1] = Stuff /\ Tail(s) \in tails)
  BY <1>3, <1>4
<1>6. PICK s \in tails :
        /\ Completed(x \o (y \o Stuffing(n)), says)
             = [out |-> Handed(x) \o Handed(y), rest |-> s]
        /\ Stays(s, says)
  BY <1>2, <1>5, Sections
<1> QED BY <1>4, <1>6

(* Up to two sections and the beginning of another.                        *)
LEMMA SectionsAndMore ==
    ASSUME NEW says, NEW x \in Seq(Cell), x = <<>> \/ IsSection(x),
           NEW y \in Seq(Cell), y = <<>> \/ IsSection(y),
           NEW t \in Seq(Cell), Stays(t, says)
    PROVE  Completed(x \o (y \o t), says) = [out |-> Handed(x) \o Handed(y), rest |-> t]
<1> DEFINE tails == {t}
<1>1. \A s \in tails : Stays(s, says) \/ (s # <<>> /\ s[1] = Stuff /\ Tail(s) \in tails)
  OBVIOUS
<1>2. t \in tails /\ tails \subseteq Seq(Cell) /\ \A s \in tails : s = t
  OBVIOUS
<1> HIDE DEF tails
<1>3. PICK s \in tails :
        /\ Completed(x \o (y \o t), says) = [out |-> Handed(x) \o Handed(y), rest |-> s]
        /\ Stays(s, says)
  BY <1>1, <1>2, Sections
<1> QED BY <1>2, <1>3

-----------------------------------------------------------------------------
(* What the sender packs.                                                  *)

LEMMA SectionIs ==
    ASSUME NEW id \in 1 .. MaxSections, NEW len \in Nat \ {0}
    PROVE  /\ Section(id, len) = Cells(id, len, 0, len)
           /\ Section(id, len) \in Seq(Cell) /\ IsSection(Section(id, len))
           /\ Len(Section(id, len)) = len /\ Section(id, len)[1].id = id
           /\ Genuine(Section(id, len)) /\ IdsOf(Section(id, len)) = {id}
<1> DEFINE s == Section(id, len)
<1>1. s = Cells(id, len, 0, len)
  BY DEF Section, Cells, CellAt
<1>2. IsCells(Cells(id, len, 0, len), id, len, 0, len)
  BY CellsAre, AssemblerAssumption DEF AssemblerAssumption
<1>3. s \in Seq(Cell) /\ Len(s) = len /\ s # <<>>
  BY <1>1, <1>2 DEF IsCells
<1>4. DOMAIN s = 1 .. len /\ \A k \in 1 .. len : s[k] = [id |-> id, i |-> k, len |-> len]
  BY DEF Section
<1> HIDE DEF s
<1>5. s[1] = [id |-> id, i |-> 1, len |-> len] /\ 1 \in 1 .. len
  BY <1>4
<1>6. Headed(s) /\ s[1].len = len
  <2>1. len # 1 => s[2] = [s[1] EXCEPT !.i = 2]
    BY <1>4, <1>5
  <2>2. s[1].i = 1 /\ s[1].len = len
    BY <1>5
  <2>3. Headed(s)
    BY <1>3, <2>1, <2>2 DEF Headed
  <2> QED BY <2>2, <2>3
<1>7. Genuine(s) /\ IsSection(s) /\ s[1].id = id
  BY <1>3, <1>4, <1>5, <1>6 DEF Genuine, IsSection
<1>8. IdsOf(s) = {id}
  <2>1. \A k \in 1 .. len : s[k].id = id
    BY <1>4
  <2> QED BY <1>4, <1>5, <2>1 DEF IdsOf
<1> QED BY <1>1, <1>3, <1>7, <1>8 DEF s

(* Something h that leaves room for r cells, then n cells: they all fit, or*)
(* the first r of them do.                                                 *)
PackedAs(h, id, len, from, n, r) ==
    LET c == h \o Cells(id, len, from, n)
    IN  /\ n <= r => /\ Padded(Take(c, Room)) = c \o Stuffing(r - n)
                     /\ Drop(c, Room) = <<>>
        /\ n > r => /\ Padded(Take(c, Room)) = h \o Cells(id, len, from, r)
                    /\ Drop(c, Room) = Cells(id, len, from + r, n - r)

LEMMA Packed ==
    ASSUME NEW h \in Seq(Cell), NEW id \in 0 .. MaxSections,
           NEW len \in Nat, NEW from \in Nat, NEW n \in Nat,
           NEW r \in Nat, Len(h) + r = Room
    PROVE  PackedAs(h, id, len, from, n, r)
<1> DEFINE d == Cells(id, len, from, n)
           c == h \o d
<1>1. Room \in Nat /\ Len(h) \in Nat
  BY AssemblerAssumption, LenProperties DEF AssemblerAssumption
<1>2. d \in Seq(Cell) /\ Len(d) = n
  BY CellsTyped
<1>3. c \in Seq(Cell) /\ Len(c) = Len(h) + n
  <2> HIDE DEF d
  <2> QED BY <1>2, ConcatProperties
<1> HIDE DEF c, d
<1>4. ASSUME n <= r
      PROVE  Padded(Take(c, Room)) = c \o Stuffing(r - n) /\ Drop(c, Room) = <<>>
  <2>1. Len(c) <= Room /\ Room - Len(c) = r - n
    BY <1>1, <1>3, <1>4
  <2>2. Take(c, Room) = c /\ Drop(c, Room) = <<>>
    <3>1. Room >= Len(c)
      BY <1>1, <1>3, <2>1
    <3> QED BY <1>1, <1>3, <3>1, TakeDrop
  <2> QED BY <2>1, <2>2 DEF Padded, Stuffing
<1>5. ASSUME n > r
      PROVE  /\ Padded(Take(c, Room)) = h \o Cells(id, len, from, r)
             /\ Drop(c, Room) = Cells(id, len, from + r, n - r)
  <2> DEFINE f == from + r
             m == n - r
             d1 == Cells(id, len, from, r)
             d2 == Cells(id, len, f, m)
             g == h \o d1
  <2>1. f \in Nat /\ f = from + r /\ m \in Nat /\ n = r + m
    BY <1>5
  <2> HIDE DEF f, m
  <2>2. d1 \in Seq(Cell) /\ Len(d1) = r
    <3> HIDE <1>5
    <3>1. Cells(id, len, from, r) \in Seq(Cell)
      BY CellsTyped
    <3>2. Len(Cells(id, len, from, r)) = r
      BY CellsTyped
    <3> QED BY <3>1, <3>2
  <2>3. d2 \in Seq(Cell)
    BY <2>1, CellsTyped
  <2>4. d1 \o d2 = d
    <3>1. r \in 0 .. n
      BY <2>1
    <3> QED BY <3>1, JoinCells DEF d, f, m
  <2> HIDE DEF d1, d2
  <2>5. g \in Seq(Cell) /\ Len(g) = Room
    <3>1. Len(h) + r = Room
      BY <1>1
    <3> QED BY <2>2, <3>1, ConcatProperties
  <2>6. g \o d2 = c
    <3>1. h \in Seq(Cell) /\ d1 \in Seq(Cell) /\ d2 \in Seq(Cell)
      BY <2>2, <2>3
    <3>2. Groups(h, d1, d2)
      BY <3>1, ConcatGroups
    <3> QED BY <2>4, <3>2 DEF c, Groups
  <2> HIDE DEF g
  <2>7. Take(c, Room) = g /\ Drop(c, Room) = d2
    BY <2>3, <2>5, <2>6, SplitConcat
  <2>8. Padded(g) = g
    <3>1. Room - Len(g) = 0
      BY <1>1, <2>5
    <3>2. [k \in 1 .. 0 |-> Stuff] = <<>>
      OBVIOUS
    <3>3. Padded(g) = g \o <<>>
      BY <3>1, <3>2 DEF Padded
    <3> QED BY <2>5, <3>3, ConcatEmptySeq
  <2> QED BY <2>7, <2>8 DEF g, d1, d2, f, m
<1> QED BY <1>4, <1>5 DEF c, d, PackedAs

-----------------------------------------------------------------------------
(* The inductive invariant.                                                *)

(* A section cut in two: what has been sent of it, and what has not.       *)
Early(id, len, f) == Cells(id, len, 0, f)
Late(id, len, f)  == Cells(id, len, f, len - f)

(* The sender has begun a section and not ended it, or has nothing left.   *)
SenderInv ==
    \/ pend = <<>>
    \/ /\ sent # 0
       /\ \E len \in Lens : \E f \in 1 .. len - 1 : pend = Late(sent, len, f)

(* The counters of both ends differ by what was lost, modulo their cycle.  *)
CounterInv ==
    IF last_cc = None THEN ~partial_valid
                      ELSE cc \in {last_cc + 1 + lost, last_cc + 1 + lost - CcMod}

(* In step: the assembler holds what was sent of the section under way.    *)
HoldsStart ==
    \/ partial = <<>> /\ pend = <<>>
    \/ \E len \in Lens : \E f \in 1 .. len - 1 :
          partial = Early(sent, len, f) /\ pend = Late(sent, len, f)

(* Behind: it holds the beginning of a section that lost a packet, and too *)
(* little of it for the rest of that same section to complete it.          *)
HoldsHarmed ==
    \/ partial = <<>>
    \/ \E id \in 1 .. sent : \E len \in Lens : \E f \in 1 .. len - 1 :
          /\ partial = Early(id, len, f) /\ id \in harmed
          /\ id = sent => f + Len(pend) < len

PartialInv ==
    /\ lost = 0 /\ partial_valid => HoldsStart
    /\ lost # 0 /\ partial_valid => HoldsHarmed
    /\ pend # <<>> /\ ~(lost = 0 /\ partial_valid) => sent \in harmed

(* The ids handed out, 0 for noise: in order and all below the given one.  *)
Rising(g, top) ==
    /\ \A a \in DOMAIN g : g[a] \in 0 .. top - 1
    /\ \A a, b \in DOMAIN g : a < b /\ g[b] # 0 => g[a] < g[b]

GotInv ==
    /\ Rising(got, sent + 1)
    /\ lost = 0 /\ partial_valid /\ pend # <<>> => Rising(got, sent)
    /\ \A id \in 1 .. sent :
          id \in harmed \/ id \in Range(got) \/ (id = sent /\ pend # <<>>)

AssemblerInv == TypeOK /\ SenderInv /\ CounterInv /\ PartialInv /\ GotInv

-----------------------------------------------------------------------------
(* The packets the sender may send, by what they carry.                    *)

IsWhole(x, id) == \E len \in Lens : x = Section(id, len)

(* More of the section under way, or its end and stuffing.                 *)
Continues(pkt) ==
    /\ pkt.pusi = FALSE /\ pkt.begun = sent /\ pend # <<>>
    /\ \A len \in Lens : \A f \in 1 .. len - 1 : pend = Late(sent, len, f) =>
         \/ pkt.left = <<>> /\ \E n \in Nat : pkt.load = pend \o Stuffing(n)
         \/ \E r \in 1 .. len - f - 1 :
              pkt.load = Cells(sent, len, f, r) /\ pkt.left = Late(sent, len, f + r)

(* The end of the section under way, a section x or none, and a section    *)
(* that ends in this packet or not.                                        *)
StartsWith(pkt, x) ==
    /\ pkt.pusi = TRUE /\ pkt.ptr = Len(pend) /\ Len(pend) < Room
    /\ pkt.begun \in 1 .. MaxSections
    /\ \/ x = <<>> /\ pkt.begun = sent + 1
       \/ IsWhole(x, sent + 1) /\ pkt.begun = sent + 2
    /\ \/ /\ pkt.left = <<>>
          /\ \E y \in Seq(Cell) : \E n \in Nat :
                /\ IsWhole(y, pkt.begun)
                /\ pkt.load = pend \o (x \o (y \o Stuffing(n)))
       \/ \E len \in Lens : \E f \in 1 .. len - 1 :
             /\ pkt.load = pend \o (x \o Early(pkt.begun, len, f))
             /\ pkt.left = Late(pkt.begun, len, f)

LEMMA ContinuingPacket ==
    ASSUME TypeOK, pend # <<>>
    PROVE  Continues(Packet(FALSE, 0, sent, pend))
<1> DEFINE pkt == Packet(FALSE, 0, sent, pend)
<1> SUFFICES Continues(pkt)
  OBVIOUS
<1>1. pkt.pusi = FALSE /\ pkt.begun = sent /\ pkt.load = Padded(Take(pend, Room))
      /\ pkt.left = Drop(pend, Room)
  BY DEF Packet
<1> HIDE DEF pkt
<1> SUFFICES ASSUME NEW len \in Lens, NEW f \in 1 .. len - 1, pend = Late(sent, len, f)
             PROVE  \/ pkt.left = <<>> /\ \E n \in Nat : pkt.load = pend \o Stuffing(n)
                    \/ \E r \in 1 .. len - f - 1 :
                         pkt.load = Cells(sent, len, f, r) /\ pkt.left = Late(sent, len, f + r)
  BY <1>1 DEF Continues
<1>3. len \in Nat /\ f \in Nat /\ len - f \in Nat /\ Room \in Nat /\ Room # 0
  BY AssemblerAssumption DEF AssemblerAssumption
<1>4. pend \in Seq(Cell) /\ sent \in 0 .. MaxSections
  BY DEF TypeOK
<1> DEFINE n == len - f
<1>5. pend = Cells(sent, len, f, n)
  BY DEF Late
<1>7. n \in Nat /\ (n <= Room \/ n > Room)
  BY <1>3
<1> HIDE DEF n
<1>8. /\ n <= Room => /\ Padded(Take(pend, Room)) = pend \o Stuffing(Room - n)
                      /\ Drop(pend, Room) = <<>>
      /\ n > Room => /\ Padded(Take(pend, Room)) = Cells(sent, len, f, Room)
                     /\ Drop(pend, Room) = Cells(sent, len, f + Room, n - Room)
  <2>1. <<>> \in Seq(Cell) /\ Len(<<>>) + Room = Room
    BY <1>3, EmptySeq
  <2>2. PackedAs(<<>>, sent, len, f, n, Room)
    BY <1>3, <1>4, <1>7, <2>1, Packed
  <2>3. <<>> \o pend = pend /\ <<>> \o Cells(sent, len, f, Room) = Cells(sent, len, f, Room)
    <3>1. Cells(sent, len, f, Room) \in Seq(Cell)
      BY <1>3, <1>4, CellsTyped
    <3> QED BY <1>4, <3>1, ConcatEmptySeq
  <2> QED BY <1>5, <2>2, <2>3 DEF PackedAs
<1>9. CASE n <= Room
  <2> DEFINE k == Room - n
  <2>1. k \in Nat
    BY <1>3, <1>7, <1>9
  <2>2. pkt.load = pend \o Stuffing(k) /\ pkt.left = <<>>
    BY <1>1, <1>8, <1>9
  <2> HIDE DEF k
  <2> QED BY <2>1, <2>2
<1>10. CASE n > Room
  <2>1. Room \in 1 .. len - f - 1 /\ n - Room = len - (f + Room)
    BY <1>3, <1>7, <1>10 DEF n
  <2>2. pkt.load = Cells(sent, len, f, Room) /\ pkt.left = Late(sent, len, f + Room)
    BY <1>1, <1>8, <1>10, <2>1 DEF Late
  <2> QED BY <2>1, <2>2
<1> QED BY <1>7, <1>9, <1>10

LEMMA StartingPacket ==
    ASSUME TypeOK, NEW x \in Seq(Cell), NEW begun \in 1 .. MaxSections, NEW len \in Lens,
           \/ x = <<>> /\ begun = sent + 1
           \/ IsWhole(x, sent + 1) /\ begun = sent + 2,
           Len(pend \o x) < Room
    PROVE  StartsWith(Packet(TRUE, Len(pend), begun, (pend \o x) \o Section(begun, len)), x)
<1> DEFINE h == pend \o x
           y == Section(begun, len)
           pkt == Packet(TRUE, Len(pend), begun, h \o y)
           r == Room - Len(h)
<1> SUFFICES StartsWith(pkt, x)
  OBVIOUS
<1>1. pend \in Seq(Cell)
  BY DEF TypeOK
<1>2. h \in Seq(Cell) /\ Len(h) \in Nat
  BY <1>1, ConcatProperties, LenProperties
<1>3. len \in Nat \ {0} /\ Room \in Nat /\ 0 \in Nat /\ begun \in 0 .. MaxSections
  BY AssemblerAssumption DEF AssemblerAssumption
<1>4. pkt.pusi = TRUE /\ pkt.ptr = Len(pend) /\ pkt.begun = begun
      /\ pkt.load = Padded(Take(h \o y, Room)) /\ pkt.left = Drop(h \o y, Room)
  BY DEF Packet
<1> HIDE DEF pkt
<1>x. /\ pkt.pusi = TRUE /\ pkt.ptr = Len(pend) /\ Len(pend) < Room
      /\ pkt.begun \in 1 .. MaxSections
      /\ \/ x = <<>> /\ pkt.begun = sent + 1
         \/ IsWhole(x, sent + 1) /\ pkt.begun = sent + 2
  <2>1. Len(pend) \in Nat /\ Len(x) \in Nat /\ Len(pend \o x) = Len(pend) + Len(x)
    BY <1>1, ConcatProperties, LenProperties
  <2>2. Len(pend) < Room
    BY <1>3, <2>1
  <2> QED BY <1>4, <2>2
<1>5. y = Cells(begun, len, 0, len) /\ y \in Seq(Cell)
  BY <1>3, SectionIs
<1> HIDE DEF pkt, h
<1>6. r \in Nat /\ Len(h) + r = Room /\ r # 0
  BY <1>2, <1>3 DEF h
<1> HIDE DEF r, y
<1>7. /\ len <= r => /\ Padded(Take(h \o y, Room)) = (h \o y) \o Stuffing(r - len)
                     /\ Drop(h \o y, Room) = <<>>
      /\ len > r => /\ Padded(Take(h \o y, Room)) = h \o Cells(begun, len, 0, r)
                    /\ Drop(h \o y, Room) = Cells(begun, len, 0 + r, len - r)
  <2>1. PackedAs(h, begun, len, 0, len, r)
    BY <1>2, <1>3, <1>6, Packed
  <2> QED BY <1>5, <2>1 DEF PackedAs
<1>8. CASE len <= r
  <2> DEFINE z == Stuffing(r - len)
  <2>1. r - len \in Nat /\ z \in Seq(Cell)
    BY <1>3, <1>6, <1>8, StuffingIs
  <2>2. pkt.load = (h \o y) \o z /\ pkt.left = <<>>
    BY <1>4, <1>5, <1>7, <1>8
  <2>3. (h \o y) \o z = pend \o (x \o (y \o z))
    <3> HIDE DEF z
    <3>1. z \in Seq(Cell)
      BY <2>1
    <3>2. y \in Seq(Cell) /\ pend \in Seq(Cell)
      BY <1>1, <1>5
    <3>3. Regrouped(pend, x, y, z)
      BY <3>1, <3>2, ConcatFour
    <3> QED BY <3>3 DEF h, Regrouped
  <2>4. IsWhole(y, begun)
    BY DEF IsWhole, y
  <2>5. \E yy \in Seq(Cell) : \E n \in Nat :
           IsWhole(yy, pkt.begun) /\ pkt.load = pend \o (x \o (yy \o Stuffing(n)))
    <3> DEFINE n == r - len
    <3>1. n \in Nat /\ pkt.load = pend \o (x \o (y \o Stuffing(n)))
      BY <2>1, <2>2, <2>3
    <3> HIDE DEF n
    <3> QED BY <1>4, <1>5, <2>4, <3>1
  <2> QED BY <1>x, <2>2, <2>5 DEF StartsWith
<1>9. CASE len > r
  <2>1. r \in 1 .. len - 1 /\ 0 + r = r
    BY <1>3, <1>6, <1>9
  <2> DEFINE z == Early(begun, len, r)
  <2>2. z = Cells(begun, len, 0, r) /\ z \in Seq(Cell)
    BY <1>3, <1>6, CellsTyped DEF Early
  <2>3. pkt.load = h \o z /\ pkt.left = Late(begun, len, r)
    BY <1>4, <1>5, <1>7, <1>9, <2>1, <2>2 DEF Late
  <2>4. h \o z = pend \o (x \o z)
    <3>1. pend \in Seq(Cell) /\ z \in Seq(Cell)
      BY <1>1, <2>2
    <3> HIDE DEF z
    <3>2. Groups(pend, x, z)
      BY <3>1, ConcatGroups
    <3> QED BY <3>2 DEF h, Groups
  <2>5. pkt.load = pend \o (x \o Early(pkt.begun, len, r)) /\ pkt.left = Late(pkt.begun, len, r)
    BY <1>4, <2>3, <2>4
  <2> QED BY <1>x, <2>1, <2>5 DEF StartsWith
<1> QED BY <1>3, <1>6, <1>8, <1>9

LEMMA PacketsAre ==
    ASSUME TypeOK, NEW pkt \in Packets
    PROVE  Continues(pkt) \/ \E x \in Seq(Cell) : StartsWith(pkt, x)
<1>1. pend \in Seq(Cell) /\ Len(pend) \in Nat /\ sent \in 0 .. MaxSections
  BY LenProperties DEF TypeOK
<1>2. Room \in Nat /\ MaxSections \in Nat /\ Lens \subseteq Nat \ {0}
  BY AssemblerAssumption DEF AssemblerAssumption
<1>3. CASE pend # <<>> /\ pkt = Packet(FALSE, 0, sent, pend)
  BY <1>3, ContinuingPacket
<1>4. ASSUME NEW a \in Lens, Len(pend) < Room, sent < MaxSections,
             pkt = Starting(1, Section(sent + 1, a))
      PROVE  \E x \in Seq(Cell) : StartsWith(pkt, x)
  <2>1. <<>> \in Seq(Cell) /\ pend \o <<>> = pend
    BY <1>1, ConcatEmptySeq, EmptySeq
  <2> DEFINE begun == sent + 1
  <2>2. begun \in 1 .. MaxSections /\ begun = sent + 1
    BY <1>1, <1>2, <1>4
  <2>3. pkt = Packet(TRUE, Len(pend), begun, (pend \o <<>>) \o Section(begun, a))
    BY <1>4, <2>1 DEF Starting
  <2>4. Len(pend \o <<>>) < Room
    BY <1>4, <2>1
  <2> HIDE DEF begun
  <2>5. StartsWith(pkt, <<>>)
    BY <2>1, <2>2, <2>3, <2>4, StartingPacket
  <2> QED BY <2>1, <2>5
<1>5. ASSUME NEW a \in Lens, NEW b \in Lens, Len(pend) + a < Room, sent + 1 < MaxSections,
             pkt = Starting(2, Section(sent + 1, a) \o Section(sent + 2, b))
      PROVE  \E x \in Seq(Cell) : StartsWith(pkt, x)
  <2> DEFINE begun == sent + 2
             first == sent + 1
             x == Section(first, a)
             y == Section(begun, b)
  <2>1. /\ begun \in 1 .. MaxSections /\ begun = sent + 2 /\ first \in 1 .. MaxSections
        /\ a \in Nat \ {0} /\ b \in Nat \ {0}
    BY <1>1, <1>2, <1>5
  <2> HIDE DEF begun, first
  <2>2. x \in Seq(Cell) /\ Len(x) = a /\ y \in Seq(Cell)
    BY <2>1, SectionIs
  <2>3. IsWhole(x, sent + 1)
    BY DEF IsWhole, first
  <2>4. pkt = Packet(TRUE, Len(pend), begun, pend \o (x \o y))
    BY <1>5 DEF Starting, begun, first
  <2> HIDE DEF x
  <2>5. Len(pend \o x) < Room
    <3>1. Len(pend \o x) = Len(pend) + Len(x)
      BY <1>1, <2>2, ConcatProperties
    <3> QED BY <1>5, <2>2, <3>1
  <2>6. pkt = Packet(TRUE, Len(pend), begun, (pend \o x) \o Section(begun, b))
    <3>1. pend \in Seq(Cell) /\ x \in Seq(Cell) /\ y \in Seq(Cell)
      BY <1>1, <2>2
    <3> HIDE DEF y
    <3>2. Groups(pend, x, y)
      BY <3>1, ConcatGroups
    <3> QED BY <2>4, <3>2 DEF y, Groups
  <2>7. StartsWith(pkt, x)
    BY <2>1, <2>2, <2>3, <2>5, <2>6, StartingPacket
  <2> QED BY <2>2, <2>7
<1>6. \/ pend # <<>> /\ pkt = Packet(FALSE, 0, sent, pend)
      \/ \E a \in {l \in Lens : Len(pend) < Room /\ sent < MaxSections} :
            pkt = Starting(1, Section(sent + 1, a))
      \/ \E a \in {l \in Lens : Len(pend) + l < Room /\ sent + 1 < MaxSections} :
            \E b \in Lens : pkt = Starting(2, Section(sent + 1, a) \o Section(sent + 2, b))
  <2> DEFINE A == IF pend = <<>> THEN {} ELSE {Packet(FALSE, 0, sent, pend)}
             B == {Starting(1, Section(sent + 1, a)) :
                     a \in {l \in Lens : Len(pend) < Room /\ sent < MaxSections}}
             C == {Starting(2, Section(sent + 1, a) \o Section(sent + 2, b)) :
                     a \in {l \in Lens : Len(pend) + l < Room /\ sent + 1 < MaxSections},
                     b \in Lens}
  <2>1. Packets = A \cup B \cup C
    BY DEF Packets
  <2>2. pkt \in A => pend # <<>> /\ pkt = Packet(FALSE, 0, sent, pend)
    OBVIOUS
  <2>3. pkt \in B => \E a \in {l \in Lens : Len(pend) < Room /\ sent < MaxSections} :
                       pkt = Starting(1, Section(sent + 1, a))
    OBVIOUS
  <2>4. pkt \in C => \E a \in {l \in Lens : Len(pend) + l < Room /\ sent + 1 < MaxSections} :
                       \E b \in Lens :
                         pkt = Starting(2, Section(sent + 1, a) \o Section(sent + 2, b))
    OBVIOUS
  <2> HIDE DEF A, B, C
  <2> QED BY <2>1, <2>2, <2>3, <2>4
<1> QED BY <1>3, <1>4, <1>5, <1>6

-----------------------------------------------------------------------------
(* The counters.                                                           *)

LEMMA NextCcIs ==
    ASSUME NEW c \in 0 .. CcMod - 1
    PROVE  NextCc(c) = IF c = CcMod - 1 THEN 0 ELSE c + 1
<1>1. CcMod \in Nat /\ CcMod > 1
  BY AssemblerAssumption DEF AssemblerAssumption
<1>2. CASE c = CcMod - 1
  <2>1. CcMod % CcMod = 0
    BY <1>1
  <2> QED BY <1>1, <1>2, <2>1 DEF NextCc
<1>3. CASE c # CcMod - 1
  <2>1. c + 1 \in 0 .. CcMod - 1
    BY <1>1, <1>3
  <2>2. (c + 1) % CcMod = c + 1
    BY <1>1, <2>1
  <2> QED BY <1>3, <2>2 DEF NextCc
<1> QED BY <1>2, <1>3

(* Fewer losses in a row than a cycle never leave the counter as it was.   *)
LEMMA CounterTells ==
    ASSUME TypeOK, CounterInv, last_cc # None
    PROVE  cc = NextCc(last_cc) <=> lost = 0
<1>1. /\ CcMod \in Nat /\ CcMod > 1 /\ last_cc \in 0 .. CcMod - 1 /\ cc \in 0 .. CcMod - 1
      /\ lost \in Nat /\ lost < CcMod
  BY AssemblerAssumption DEF AssemblerAssumption, TypeOK
<1>2. cc = last_cc + 1 + lost \/ cc = last_cc + 1 + lost - CcMod
  BY DEF CounterInv
<1>3. NextCc(last_cc) = IF last_cc = CcMod - 1 THEN 0 ELSE last_cc + 1
  BY <1>1, NextCcIs
<1> QED BY <1>1, <1>2, <1>3

LEMMA CounterMoves ==
    ASSUME TypeOK, CounterInv, cc' = NextCc(cc),
           \/ last_cc' = cc /\ lost' = 0
           \/ /\ lost < MaxLost /\ lost' = lost + 1
              /\ UNCHANGED <<last_cc, partial_valid>>
    PROVE  CounterInv' /\ cc' \in 0 .. CcMod - 1 /\ lost' \in 0 .. MaxLost
<1>1. /\ CcMod \in Nat /\ CcMod > 1 /\ cc \in 0 .. CcMod - 1
      /\ lost \in Nat /\ MaxLost \in 0 .. CcMod - 1
  BY AssemblerAssumption DEF AssemblerAssumption, TypeOK
<1>2. cc' = IF cc = CcMod - 1 THEN 0 ELSE cc + 1
  BY <1>1, NextCcIs
<1>3. CASE last_cc' = cc /\ lost' = 0
  <2>1. cc \in Int /\ cc # None
    BY <1>1 DEF None
  <2>2. cc' \in {last_cc' + 1 + lost', last_cc' + 1 + lost' - CcMod}
    BY <1>1, <1>2, <1>3
  <2>3. cc' \in 0 .. CcMod - 1 /\ lost' \in 0 .. MaxLost
    BY <1>1, <1>2, <1>3
  <2> QED BY <1>3, <2>1, <2>2, <2>3 DEF CounterInv
<1>4. CASE lost < MaxLost /\ lost' = lost + 1 /\ UNCHANGED <<last_cc, partial_valid>>
  <2>1. cc' \in 0 .. CcMod - 1 /\ lost' \in 0 .. MaxLost
    BY <1>1, <1>2, <1>4
  <2>2. CASE last_cc = None
    BY <1>4, <2>1, <2>2 DEF CounterInv
  <2>3. CASE last_cc # None
    <3>1. last_cc \in 0 .. CcMod - 1
      BY <2>3 DEF TypeOK
    <3>2. cc = last_cc + 1 + lost \/ cc = last_cc + 1 + lost - CcMod
      BY <2>3 DEF CounterInv
    <3>3. cc' \in {last_cc + 1 + lost', last_cc + 1 + lost' - CcMod}
      BY <1>1, <1>2, <1>4, <3>1, <3>2
    <3> QED BY <1>4, <2>1, <2>3, <3>3 DEF CounterInv
  <2> QED BY <2>2, <2>3
<1> QED BY <1>3, <1>4

LEMMA ValidIs ==
    ASSUME TypeOK, CounterInv, NEW pkt, pkt.pusi \in BOOLEAN
    PROVE  StillValid(pkt) <=> partial_valid /\ (pkt.pusi \/ lost = 0)
<1>1. last_cc = None => ~partial_valid
  BY DEF CounterInv
<1>2. last_cc # None => (cc = NextCc(last_cc) <=> lost = 0)
  BY CounterTells
<1> QED BY <1>1, <1>2 DEF StillValid, CcBroken

-----------------------------------------------------------------------------
(* What a packet carries and what it leaves.                               *)

LEMMA IdsOfConcat ==
    ASSUME NEW s \in Seq(Cell), NEW t \in Seq(Cell)
    PROVE  IdsOf(s) \subseteq IdsOf(s \o t) /\ IdsOf(t) \subseteq IdsOf(s \o t)
<1> DEFINE w == s \o t
<1>1. /\ w \in Seq(Cell) /\ Len(w) = Len(s) + Len(t) /\ Len(s) \in Nat /\ Len(t) \in Nat
      /\ \A k \in 1 .. Len(s) + Len(t) : w[k] = IF k <= Len(s) THEN s[k] ELSE t[k - Len(s)]
  BY ConcatProperties, LenProperties
<1>2. DOMAIN w = 1 .. Len(s) + Len(t) /\ DOMAIN s = 1 .. Len(s) /\ DOMAIN t = 1 .. Len(t)
  BY <1>1, LenProperties
<1> HIDE DEF w
<1>3. \A k \in DOMAIN s : k \in DOMAIN w /\ w[k] = s[k]
  BY <1>1, <1>2
<1>4. ASSUME NEW k \in DOMAIN t PROVE Len(s) + k \in DOMAIN w /\ w[Len(s) + k] = t[k]
  <2>1. Len(s) + k \in 1 .. Len(s) + Len(t) /\ ~(Len(s) + k <= Len(s)) /\ (Len(s) + k) - Len(s) = k
    BY <1>1, <1>2
  <2> QED BY <1>1, <1>2, <2>1
<1>5. IdsOf(s) \subseteq IdsOf(w)
  BY <1>3 DEF IdsOf
<1>6. IdsOf(t) \subseteq IdsOf(w)
  <2> SUFFICES ASSUME NEW k \in DOMAIN t, t[k].id # 0 PROVE t[k].id \in IdsOf(w)
    BY DEF IdsOf
  <2> DEFINE j == Len(s) + k
  <2>1. j \in DOMAIN w /\ w[j] = t[k]
    BY <1>4
  <2> HIDE DEF j
  <2> QED BY <2>1 DEF IdsOf
<1> QED BY <1>5, <1>6 DEF w

LEMMA IdOfCells ==
    ASSUME NEW id \in 1 .. MaxSections, NEW len \in Nat, NEW from \in Nat, NEW n \in Nat, n # 0
    PROVE  id \in IdsOf(Cells(id, len, from, n))
<1>1. 1 \in 1 .. n
  OBVIOUS
<1>2. Cells(id, len, from, n)[1] = CellAt(id, len, from + 1) /\ DOMAIN Cells(id, len, from, n) = 1 .. n
  BY <1>1 DEF Cells
<1>3. CellAt(id, len, from + 1).id = id
  BY DEF CellAt
<1>4. id # 0
  OBVIOUS
<1> QED BY <1>1, <1>2, <1>3, <1>4 DEF IdsOf

LEMMA LateIs ==
    ASSUME NEW id \in 1 .. MaxSections, NEW len \in Lens, NEW f \in 1 .. len - 1
    PROVE  /\ Late(id, len, f) \in Seq(Cell) /\ Len(Late(id, len, f)) = len - f
           /\ Late(id, len, f) # <<>> /\ id \in IdsOf(Late(id, len, f))
           /\ Early(id, len, f) \in Seq(Cell) /\ Len(Early(id, len, f)) = f
           /\ Early(id, len, f) # <<>> /\ id \in IdsOf(Early(id, len, f))
<1> DEFINE n == len - f
<1>1. /\ len \in Nat /\ f \in Nat /\ f # 0 /\ n \in Nat /\ n # 0 /\ id \in 0 .. MaxSections
      /\ 0 \in Nat
  BY AssemblerAssumption DEF AssemblerAssumption
<1> HIDE DEF n
<1>2. /\ Cells(id, len, f, n) \in Seq(Cell) /\ Len(Cells(id, len, f, n)) = n
      /\ Cells(id, len, f, n) # <<>>
  BY <1>1, CellsTyped
<1>3. /\ Cells(id, len, 0, f) \in Seq(Cell) /\ Len(Cells(id, len, 0, f)) = f
      /\ Cells(id, len, 0, f) # <<>>
  BY <1>1, CellsTyped
<1>4. id \in IdsOf(Cells(id, len, f, n)) /\ id \in IdsOf(Cells(id, len, 0, f))
  BY <1>1, IdOfCells
<1> QED BY <1>2, <1>3, <1>4 DEF n, Late, Early

LEMMA WholeIs ==
    ASSUME NEW id \in 1 .. MaxSections, NEW x, IsWhole(x, id)
    PROVE  /\ x \in Seq(Cell) /\ IsSection(x) /\ x[1].id = id
           /\ Genuine(x) /\ IdsOf(x) = {id}
<1>1. PICK len \in Lens : x = Section(id, len)
  BY DEF IsWhole
<1>2. len \in Nat \ {0}
  BY AssemblerAssumption DEF AssemblerAssumption
<1> QED BY <1>1, <1>2, SectionIs

(* What the sender is left with, and whose bytes the packet carries.       *)
LeftBegun(pkt) ==
    \/ pkt.left = <<>>
    \/ \E len \in Lens : \E f \in 1 .. len - 1 : pkt.left = Late(pkt.begun, len, f)

LEMMA ContinuesCarries ==
    ASSUME TypeOK, SenderInv, NEW pkt, Continues(pkt)
    PROVE  /\ LeftBegun(pkt) /\ pkt.left \in Seq(Cell) /\ Len(pkt.left) < Len(pend)
           /\ sent \in 1 .. MaxSections /\ sent \in IdsOf(pkt.load)
<1>1. pend # <<>> /\ pkt.begun = sent
  BY DEF Continues
<1>2. sent \in 1 .. MaxSections
  BY <1>1 DEF SenderInv, TypeOK
<1>3. PICK len \in Lens : \E f \in 1 .. len - 1 : pend = Late(sent, len, f)
  BY <1>1 DEF SenderInv
<1>4. PICK f \in 1 .. len - 1 : pend = Late(sent, len, f)
  BY <1>3
<1>5. pend \in Seq(Cell) /\ Len(pend) = len - f /\ sent \in IdsOf(pend)
  BY <1>2, <1>4, LateIs
<1>6. len \in Nat /\ f \in Nat
  BY AssemblerAssumption DEF AssemblerAssumption
<1>7. ASSUME pkt.left = <<>>, NEW n \in Nat, pkt.load = pend \o Stuffing(n)
      PROVE  /\ LeftBegun(pkt) /\ pkt.left \in Seq(Cell) /\ Len(pkt.left) < Len(pend)
             /\ sent \in IdsOf(pkt.load)
  <2>1. sent \in IdsOf(pkt.load)
    <3>1. Stuffing(n) \in Seq(Cell)
      BY StuffingIs
    <3> QED BY <1>5, <1>7, <3>1, IdsOfConcat
  <2>2. <<>> \in Seq(Cell) /\ Len(<<>>) < Len(pend)
    BY <1>5, <1>6, EmptySeq
  <2> QED BY <1>7, <2>1, <2>2 DEF LeftBegun
<1>8. ASSUME NEW r \in 1 .. len - f - 1,
             pkt.load = Cells(sent, len, f, r), pkt.left = Late(sent, len, f + r)
      PROVE  /\ LeftBegun(pkt) /\ pkt.left \in Seq(Cell) /\ Len(pkt.left) < Len(pend)
             /\ sent \in IdsOf(pkt.load)
  <2> DEFINE g == f + r
  <2>1. g \in 1 .. len - 1 /\ r \in Nat /\ r # 0 /\ len - g < len - f
    BY <1>6
  <2> HIDE DEF g
  <2>2. pkt.left = Late(sent, len, g)
    BY <1>8 DEF g
  <2>3. pkt.left \in Seq(Cell) /\ Len(pkt.left) < Len(pend)
    BY <1>2, <1>5, <2>1, <2>2, LateIs
  <2>4. sent \in IdsOf(pkt.load)
    BY <1>2, <1>6, <1>8, <2>1, IdOfCells
  <2> QED BY <1>1, <2>1, <2>2, <2>3, <2>4 DEF LeftBegun
<1>9. \/ pkt.left = <<>> /\ \E n \in Nat : pkt.load = pend \o Stuffing(n)
      \/ \E r \in 1 .. len - f - 1 :
           pkt.load = Cells(sent, len, f, r) /\ pkt.left = Late(sent, len, f + r)
  BY <1>4 DEF Continues
<1> QED BY <1>2, <1>7, <1>8, <1>9

LEMMA StartsCarries ==
    ASSUME TypeOK, SenderInv, NEW x \in Seq(Cell), NEW pkt, StartsWith(pkt, x)
    PROVE  /\ LeftBegun(pkt) /\ pkt.left \in Seq(Cell)
           /\ pend # <<>> => sent \in IdsOf(pkt.load)
           /\ \A id \in 1 .. pkt.begun : id > sent => id \in IdsOf(pkt.load)
<1>1. /\ pend \in Seq(Cell) /\ sent \in 0 .. MaxSections /\ pkt.begun \in 1 .. MaxSections
      /\ MaxSections \in Nat
  BY AssemblerAssumption DEF AssemblerAssumption, TypeOK, StartsWith
<1>2. pend # <<>> => sent \in IdsOf(pend)
  <2> SUFFICES ASSUME pend # <<>> PROVE sent \in IdsOf(pend)
    OBVIOUS
  <2>1. sent \in 1 .. MaxSections
    BY <1>1 DEF SenderInv
  <2>2. \E len \in Lens : \E f \in 1 .. len - 1 : pend = Late(sent, len, f)
    BY DEF SenderInv
  <2> QED BY <2>1, <2>2, LateIs
<1>3. x # <<>> => sent + 1 \in IdsOf(x) /\ pkt.begun = sent + 2
  <2> SUFFICES ASSUME x # <<>> PROVE sent + 1 \in IdsOf(x) /\ pkt.begun = sent + 2
    OBVIOUS
  <2> DEFINE first == sent + 1
  <2>1. IsWhole(x, first) /\ pkt.begun = sent + 2
    BY DEF StartsWith
  <2>2. first \in 1 .. MaxSections
    BY <1>1, <2>1
  <2> HIDE DEF first
  <2>3. first \in IdsOf(x)
    BY <2>1, <2>2, WholeIs
  <2> QED BY <2>1, <2>3 DEF first
<1>4. x = <<>> => pkt.begun = sent + 1
  <2> SUFFICES ASSUME x = <<>>, IsWhole(x, sent + 1), pkt.begun = sent + 2 PROVE FALSE
    BY DEF StartsWith
  <2> DEFINE first == sent + 1
  <2>1. first \in 1 .. MaxSections /\ IsWhole(x, first)
    BY <1>1
  <2> HIDE DEF first
  <2> QED BY <2>1, WholeIs DEF IsSection
<1>5. ASSUME NEW z \in Seq(Cell), pkt.load = pend \o (x \o z), pkt.begun \in IdsOf(z)
      PROVE  /\ pend # <<>> => sent \in IdsOf(pkt.load)
             /\ \A id \in 1 .. pkt.begun : id > sent => id \in IdsOf(pkt.load)
  <2> DEFINE w == x \o z
  <2>1. w \in Seq(Cell) /\ IdsOf(x) \subseteq IdsOf(w) /\ IdsOf(z) \subseteq IdsOf(w)
    BY ConcatProperties, IdsOfConcat
  <2> HIDE DEF w
  <2>2. IdsOf(pend) \subseteq IdsOf(pend \o w) /\ IdsOf(w) \subseteq IdsOf(pend \o w)
    BY <1>1, <2>1, IdsOfConcat
  <2>3. pkt.load = pend \o w
    BY <1>5 DEF w
  <2>4. /\ IdsOf(pend) \subseteq IdsOf(pkt.load) /\ pkt.begun \in IdsOf(pkt.load)
        /\ x # <<>> => sent + 1 \in IdsOf(pkt.load)
    BY <1>3, <1>5, <2>1, <2>2, <2>3
  <2>5. ASSUME NEW id \in 1 .. pkt.begun, id > sent PROVE id \in IdsOf(pkt.load)
    BY <1>1, <1>3, <1>4, <2>4, <2>5
  <2> QED BY <1>2, <2>4, <2>5
<1>6. ASSUME NEW y \in Seq(Cell), NEW n \in Nat, IsWhole(y, pkt.begun), pkt.left = <<>>,
             pkt.load = pend \o (x \o (y \o Stuffing(n)))
      PROVE  /\ LeftBegun(pkt) /\ pkt.left \in Seq(Cell)
             /\ pend # <<>> => sent \in IdsOf(pkt.load)
             /\ \A id \in 1 .. pkt.begun : id > sent => id \in IdsOf(pkt.load)
  <2> DEFINE z == y \o Stuffing(n)
  <2>1. z \in Seq(Cell) /\ pkt.begun \in IdsOf(z)
    <3>1. Stuffing(n) \in Seq(Cell)
      BY StuffingIs
    <3>2. pkt.begun \in IdsOf(y)
      BY <1>1, <1>6, WholeIs
    <3> QED BY <3>1, <3>2, IdsOfConcat, ConcatProperties
  <2> HIDE DEF z
  <2>2. pkt.load = pend \o (x \o z)
    BY <1>6 DEF z
  <2>3. LeftBegun(pkt) /\ pkt.left \in Seq(Cell)
    BY <1>6, EmptySeq DEF LeftBegun
  <2> QED BY <1>5, <2>1, <2>2, <2>3
<1>7. ASSUME NEW len \in Lens, NEW f \in 1 .. len - 1, pkt.left = Late(pkt.begun, len, f),
             pkt.load = pend \o (x \o Early(pkt.begun, len, f))
      PROVE  /\ LeftBegun(pkt) /\ pkt.left \in Seq(Cell)
             /\ pend # <<>> => sent \in IdsOf(pkt.load)
             /\ \A id \in 1 .. pkt.begun : id > sent => id \in IdsOf(pkt.load)
  <2> DEFINE z == Early(pkt.begun, len, f)
  <2>1. z \in Seq(Cell) /\ pkt.begun \in IdsOf(z) /\ pkt.left \in Seq(Cell)
    BY <1>1, <1>7, LateIs
  <2> HIDE DEF z
  <2>2. pkt.load = pend \o (x \o z)
    BY <1>7 DEF z
  <2>3. LeftBegun(pkt)
    BY <1>7 DEF LeftBegun
  <2> QED BY <1>5, <2>1, <2>2, <2>3
<1> QED BY <1>6, <1>7 DEF StartsWith

-----------------------------------------------------------------------------
(* What the assembler makes of a packet.                                   *)

LEMMA EarlyIs ==
    ASSUME NEW id \in 1 .. MaxSections, NEW len \in Lens, NEW f \in 1 .. len - 1
    PROVE  /\ \A says : Stays(Early(id, len, f), says)
           /\ Early(id, len, f)[1] = [id |-> id, i |-> 1, len |-> len]
<1> DEFINE s == Early(id, len, f)
<1>1. len \in Nat /\ f \in Nat /\ 1 \in 1 .. f /\ (f # 1 => 2 \in 1 .. f)
  BY AssemblerAssumption DEF AssemblerAssumption
<1>2. s[1] = CellAt(id, len, 0 + 1) /\ (f # 1 => s[2] = CellAt(id, len, 0 + 2))
  BY <1>1 DEF Early, Cells
<1>3. /\ s[1] = [id |-> id, i |-> 1, len |-> len]
      /\ f # 1 => s[2] = [id |-> id, i |-> 2, len |-> len]
  BY <1>2 DEF CellAt
<1>4. Len(s) = f
  BY LateIs
<1> HIDE DEF s
<1>5. s[1].id # 0 /\ s[1].len = len /\ s[1].i = 1 /\ (f # 1 => s[2] = [s[1] EXCEPT !.i = 2])
  BY <1>3
<1>6. s[1] # Stuff
  BY <1>5 DEF Stuff
<1>7. Headed(s)
  BY <1>4, <1>5 DEF Headed
<1>8. ASSUME NEW says PROVE Stays(s, says)
  <2>1. Total(s, says) = len
    BY <1>5, <1>6, <1>7 DEF Total
  <2>2. ~Whole(s, len) /\ len \notin {Filler, TooLong}
    BY <1>1, <1>4 DEF Whole, Filler, TooLong
  <2> QED BY <2>1, <2>2 DEF Stays
<1> QED BY <1>3, <1>8 DEF s

LEMMA EarlyMore ==
    ASSUME NEW id \in 1 .. MaxSections, NEW len \in Lens, NEW f \in 1 .. len - 1
    PROVE  /\ Early(id, len, f) \o Late(id, len, f) = Section(id, len)
           /\ \A r \in 1 .. len - f - 1 :
                 Early(id, len, f) \o Cells(id, len, f, r) = Early(id, len, f + r)
<1>1. len \in Nat \ {0} /\ f \in Nat /\ id \in 0 .. MaxSections /\ 0 \in Nat /\ 0 + f = f
  BY AssemblerAssumption DEF AssemblerAssumption
<1>2. Cells(id, len, 0, f) \o Cells(id, len, 0 + f, len - f) = Cells(id, len, 0, len)
  <2>1. f \in 0 .. len
    BY <1>1
  <2> QED BY <1>1, <2>1, JoinCells
<1>3. Section(id, len) = Cells(id, len, 0, len)
  BY <1>1, SectionIs
<1>4. ASSUME NEW r \in 1 .. len - f - 1
      PROVE  Early(id, len, f) \o Cells(id, len, f, r) = Early(id, len, f + r)
  <2> DEFINE g == f + r
  <2>1. g \in Nat /\ f \in 0 .. g /\ g - f = r
    BY <1>1
  <2> HIDE DEF g
  <2>2. Cells(id, len, 0, f) \o Cells(id, len, 0 + f, g - f) = Cells(id, len, 0, g)
    BY <1>1, <2>1, JoinCells
  <2> QED BY <1>1, <2>1, <2>2 DEF Early, g
<1> QED BY <1>1, <1>2, <1>3, <1>4 DEF Early, Late

(* From the pointer on: the sections that end in this packet, and the      *)
(* beginning of one that does not.                                         *)
StartsFrom(pkt, start, x, y) ==
    /\ start.out = Handed(x) \o Handed(y)
    /\ \/ IsWhole(y, pkt.begun) /\ pkt.left = <<>> /\ start.rest = <<>>
       \/ /\ y = <<>>
          /\ \E len \in Lens : \E f \in 1 .. len - 1 :
                pkt.left = Late(pkt.begun, len, f) /\ start.rest = Early(pkt.begun, len, f)

LEMMA StartHands ==
    ASSUME NEW says, TypeOK, NEW x \in Seq(Cell), NEW pkt, StartsWith(pkt, x)
    PROVE  /\ Take(pkt.load, pkt.ptr) = pend
           /\ \E y \in Seq(Cell) : StartsFrom(pkt, Completed(Drop(pkt.load, pkt.ptr), says), x, y)
<1>1. /\ pend \in Seq(Cell) /\ sent \in 0 .. MaxSections /\ pkt.begun \in 1 .. MaxSections
      /\ MaxSections \in Nat /\ pkt.ptr = Len(pend)
  BY AssemblerAssumption DEF AssemblerAssumption, TypeOK, StartsWith
<1>2. x = <<>> \/ IsSection(x)
  <2> SUFFICES ASSUME IsWhole(x, sent + 1), pkt.begun = sent + 2 PROVE IsSection(x)
    BY DEF StartsWith
  <2> DEFINE first == sent + 1
  <2>1. first \in 1 .. MaxSections /\ IsWhole(x, first)
    BY <1>1
  <2> HIDE DEF first
  <2> QED BY <2>1, WholeIs
<1>3. ASSUME NEW z \in Seq(Cell), pkt.load = pend \o z
      PROVE  Take(pkt.load, pkt.ptr) = pend /\ Drop(pkt.load, pkt.ptr) = z
  BY <1>1, <1>3, SplitConcat
<1>4. ASSUME NEW y \in Seq(Cell), NEW n \in Nat, IsWhole(y, pkt.begun), pkt.left = <<>>,
             pkt.load = pend \o (x \o (y \o Stuffing(n)))
      PROVE  /\ Take(pkt.load, pkt.ptr) = pend
             /\ \E yy \in Seq(Cell) : StartsFrom(pkt, Completed(Drop(pkt.load, pkt.ptr), says), x, yy)
  <2> DEFINE t == Stuffing(n)
             z == x \o (y \o t)
  <2>1. z \in Seq(Cell)
    <3>1. t \in Seq(Cell)
      BY StuffingIs
    <3> HIDE DEF t
    <3>2. y \o t \in Seq(Cell)
      BY <3>1, ConcatProperties
    <3> QED BY <3>2, ConcatProperties
  <2>2. Completed(z, says) = [out |-> Handed(x) \o Handed(y), rest |-> <<>>]
    <3>1. IsSection(y)
      BY <1>1, <1>4, WholeIs
    <3> QED BY <1>2, <3>1, SectionsAndStuffing
  <2> HIDE DEF z
  <2>3. Take(pkt.load, pkt.ptr) = pend /\ Drop(pkt.load, pkt.ptr) = z
    BY <1>3, <1>4, <2>1 DEF z
  <2>4. StartsFrom(pkt, Completed(z, says), x, y)
    BY <1>4, <2>2 DEF StartsFrom
  <2> QED BY <2>3, <2>4
<1>5. ASSUME NEW len \in Lens, NEW f \in 1 .. len - 1, pkt.left = Late(pkt.begun, len, f),
             pkt.load = pend \o (x \o Early(pkt.begun, len, f))
      PROVE  /\ Take(pkt.load, pkt.ptr) = pend
             /\ \E yy \in Seq(Cell) : StartsFrom(pkt, Completed(Drop(pkt.load, pkt.ptr), says), x, yy)
  <2> DEFINE t == Early(pkt.begun, len, f)
             z == x \o t
  <2>1. t \in Seq(Cell) /\ Stays(t, says)
    <3> DEFINE id == pkt.begun
    <3>1. id \in 1 .. MaxSections
      BY <1>1
    <3> HIDE DEF id
    <3>2. Early(id, len, f) \in Seq(Cell)
      BY <3>1, LateIs
    <3>3. Stays(Early(id, len, f), says)
      BY <3>1, EarlyIs
    <3> QED BY <3>2, <3>3 DEF id
  <2> HIDE DEF t
  <2>2. z \in Seq(Cell) /\ <<>> \in Seq(Cell) /\ <<>> \o t = t
    BY <2>1, ConcatProperties, ConcatEmptySeq, EmptySeq
  <2>3. Completed(z, says) = [out |-> Handed(x) \o Handed(<<>>), rest |-> t]
    <3>1. Completed(x \o (<<>> \o t), says) = [out |-> Handed(x) \o Handed(<<>>), rest |-> t]
      BY <1>2, <2>1, <2>2, SectionsAndMore
    <3> QED BY <2>2, <3>1
  <2> HIDE DEF z
  <2>4. Take(pkt.load, pkt.ptr) = pend /\ Drop(pkt.load, pkt.ptr) = z
    BY <1>3, <1>5, <2>2 DEF z, t
  <2>5. StartsFrom(pkt, Completed(z, says), x, <<>>)
    BY <1>5, <2>3 DEF StartsFrom, t
  <2> QED BY <2>2, <2>4, <2>5
<1> QED BY <1>4, <1>5 DEF StartsWith

LEMMA OneAndMore ==
    ASSUME NEW says, NEW w \in Seq(Cell), w = <<>> \/ IsSection(w),
           NEW t \in Seq(Cell), Stays(t, says)
    PROVE  Completed(w \o t, says) = [out |-> Handed(w), rest |-> t]
<1>1. <<>> \in Seq(Cell) /\ <<>> \o t = t
  BY ConcatEmptySeq, EmptySeq
<1>2. Completed(w \o (<<>> \o t), says) = [out |-> Handed(w) \o Handed(<<>>), rest |-> t]
  BY <1>1, SectionsAndMore
<1>3. Handed(w) \in Seq(Seq(Cell)) /\ Handed(<<>>) = <<>>
  BY DEF Handed
<1>4. Handed(w) \o Handed(<<>>) = Handed(w)
  BY <1>3, ConcatEmptySeq
<1> QED BY <1>1, <1>2, <1>4

(* A packet without PUSI, in step: the end of the section, or more of it.  *)
ContinuesInStep(pkt, cont) ==
    \/ /\ pkt.left = <<>> /\ cont.rest = <<>>
       /\ \E y \in Seq(Cell) : IsWhole(y, sent) /\ cont.out = <<y>>
    \/ /\ cont.out = <<>>
       /\ \E len \in Lens : \E f \in 1 .. len - 1 :
             pkt.left = Late(sent, len, f) /\ cont.rest = Early(sent, len, f)

LEMMA ContinueHands ==
    ASSUME NEW says, TypeOK, SenderInv, HoldsStart, NEW pkt, Continues(pkt)
    PROVE  ContinuesInStep(pkt, Completed(partial \o pkt.load, says))
<1>1. pend # <<>>
  BY DEF Continues
<1>2. sent \in 1 .. MaxSections
  BY <1>1 DEF SenderInv, TypeOK
<1>3. PICK len \in Lens : \E f \in 1 .. len - 1 :
         partial = Early(sent, len, f) /\ pend = Late(sent, len, f)
  BY <1>1 DEF HoldsStart
<1>4. PICK f \in 1 .. len - 1 : partial = Early(sent, len, f) /\ pend = Late(sent, len, f)
  BY <1>3
<1>5. len \in Nat /\ f \in Nat
  BY AssemblerAssumption DEF AssemblerAssumption
<1>6. partial \in Seq(Cell) /\ pend \in Seq(Cell)
  BY DEF TypeOK
<1>7. ASSUME pkt.left = <<>>, NEW n \in Nat, pkt.load = pend \o Stuffing(n)
      PROVE  ContinuesInStep(pkt, Completed(partial \o pkt.load, says))
  <2> DEFINE t == Stuffing(n)
             y == Section(sent, len)
  <2>1. t \in Seq(Cell)
    BY StuffingIs
  <2>2. IsWhole(y, sent)
    BY DEF IsWhole
  <2>3. y \in Seq(Cell) /\ IsSection(y)
    BY <1>2, <2>2, WholeIs
  <2>4. partial \o pend = y
    BY <1>2, <1>4, EarlyMore
  <2>5. Completed(<<>> \o (y \o t), says) = [out |-> Handed(<<>>) \o Handed(y), rest |-> <<>>]
    <3>1. <<>> \in Seq(Cell)
      BY EmptySeq
    <3> HIDE DEF y
    <3> QED BY <2>3, <3>1, SectionsAndStuffing
  <2> HIDE DEF y, t
  <2>6. partial \o pkt.load = <<>> \o (y \o t)
    <3>1. (partial \o pend) \o t = partial \o (pend \o t)
      <4>1. partial \in Seq(Cell) /\ pend \in Seq(Cell) /\ t \in Seq(Cell)
        BY <1>6, <2>1
      <4>2. Groups(partial, pend, t)
        BY <4>1, ConcatGroups
      <4> QED BY <4>2 DEF Groups
    <3>2. y \o t \in Seq(Cell)
      BY <2>1, <2>3, ConcatProperties
    <3>3. <<>> \o (y \o t) = y \o t
      BY <3>2, ConcatEmptySeq
    <3> QED BY <1>7, <2>4, <3>1, <3>3 DEF t
  <2>7. Handed(<<>>) \o Handed(y) = <<y>>
    <3>1. Handed(<<>>) = <<>> /\ Handed(y) = <<y>> /\ Handed(y) \in Seq(Seq(Cell))
      BY <2>3 DEF Handed, IsSection
    <3> QED BY <3>1, ConcatEmptySeq
  <2> DEFINE cont == Completed(partial \o pkt.load, says)
  <2>8. cont = [out |-> <<y>>, rest |-> <<>>]
    BY <2>5, <2>6, <2>7
  <2> HIDE DEF cont
  <2>9. cont.rest = <<>> /\ cont.out = <<y>> /\ y \in Seq(Cell)
    BY <2>3, <2>8
  <2>10. ContinuesInStep(pkt, cont)
    BY <1>7, <2>2, <2>9 DEF ContinuesInStep
  <2> QED BY <2>10 DEF cont
<1>8. ASSUME NEW r \in 1 .. len - f - 1,
             pkt.load = Cells(sent, len, f, r), pkt.left = Late(sent, len, f + r)
      PROVE  ContinuesInStep(pkt, Completed(partial \o pkt.load, says))
  <2> DEFINE g == f + r
             t == Early(sent, len, g)
  <2>1. g \in 1 .. len - 1
    BY <1>5
  <2>2. partial \o pkt.load = t
    BY <1>2, <1>4, <1>8, EarlyMore
  <2>3. pkt.left = Late(sent, len, g)
    BY <1>8
  <2> HIDE DEF g
  <2>4. t \in Seq(Cell) /\ Stays(t, says)
    BY <1>2, <2>1, LateIs, EarlyIs
  <2> HIDE DEF t
  <2>5. Completed(t, says) = [out |-> <<>>, rest |-> t]
    <3>1. <<>> \in Seq(Cell) /\ <<>> \o t = t /\ Handed(<<>>) = <<>>
      BY <2>4, ConcatEmptySeq, EmptySeq DEF Handed
    <3>2. Completed(<<>> \o t, says) = [out |-> Handed(<<>>), rest |-> t]
      BY <2>4, <3>1, OneAndMore
    <3> QED BY <3>1, <3>2
  <2> QED BY <2>1, <2>2, <2>3, <2>5 DEF ContinuesInStep, t
<1>9. \/ pkt.left = <<>> /\ \E n \in Nat : pkt.load = pend \o Stuffing(n)
      \/ \E r \in 1 .. len - f - 1 :
           pkt.load = Cells(sent, len, f, r) /\ pkt.left = Late(sent, len, f + r)
  BY <1>4 DEF Continues
<1> QED BY <1>7, <1>8, <1>9

(* What is to be sent of the section under way.                            *)
LEMMA PendIs ==
    ASSUME TypeOK, SenderInv, pend # <<>>
    PROVE  /\ sent \in 1 .. MaxSections
           /\ \E len \in Lens : \E g \in 1 .. len - 1 :
                 Len(pend) = len - g /\ \A k \in 1 .. Len(pend) : pend[k] = CellAt(sent, len, g + k)
<1>1. sent \in 1 .. MaxSections
  BY DEF SenderInv, TypeOK
<1>2. PICK len \in Lens : \E f \in 1 .. len - 1 : pend = Late(sent, len, f)
  BY DEF SenderInv
<1>3. PICK f \in 1 .. len - 1 : pend = Late(sent, len, f)
  BY <1>2
<1> DEFINE n == len - f
<1>4. len \in Nat /\ f \in Nat /\ n \in Nat /\ sent \in 0 .. MaxSections
  BY <1>1, AssemblerAssumption DEF AssemblerAssumption
<1> HIDE DEF n
<1>5. IsCells(Cells(sent, len, f, n), sent, len, f, n)
  BY <1>4, CellsAre
<1>6. Len(pend) = n /\ \A k \in 1 .. n : pend[k] = CellAt(sent, len, f + k)
  BY <1>3, <1>5 DEF IsCells, Late, n
<1> QED BY <1>1, <1>6 DEF n

-----------------------------------------------------------------------------
(* The ids of what is handed out.                                          *)

Id == 0 .. MaxSections
Full == Seq(Cell) \ {<<>>}
Ids(r) == [k \in DOMAIN r |-> IdOf(r[k])]
AddId(g, x) == IF x = <<>> THEN g ELSE Append(g, x[1].id)

LEMMA IdsTyped ==
    ASSUME NEW r \in Seq(Full)
    PROVE  /\ Ids(r) \in Seq(Id) /\ Len(Ids(r)) = Len(r)
           /\ \A k \in 1 .. Len(r) : Ids(r)[k] = IdOf(r[k])
<1>1. Len(r) \in Nat /\ DOMAIN r = 1 .. Len(r)
  BY LenProperties
<1>2. ASSUME NEW k \in 1 .. Len(r) PROVE IdOf(r[k]) \in Id
  <2> DEFINE x == r[k]
  <2>1. x \in Seq(Cell) /\ x # <<>>
    BY ElementOfSeq DEF Full
  <2> HIDE DEF x
  <2>2. 1 \in 1 .. Len(x)
    BY <2>1, EmptySeq
  <2>3. x[1] \in Cell
    BY <2>1, <2>2, ElementOfSeq
  <2>4. x[1].id \in Id /\ 0 \in Id
    BY <2>3, AssemblerAssumption DEF AssemblerAssumption, Cell, Id
  <2> QED BY <2>4 DEF IdOf, x
<1> DEFINE n == Len(r)
           j == Ids(r)
<1>3. j \in [1 .. n -> Id]
  BY <1>1, <1>2 DEF Ids
<1>4. \A k \in 1 .. n : j[k] = IdOf(r[k])
  BY <1>1 DEF Ids
<1>5. n \in Nat
  BY <1>1
<1> HIDE DEF n, j
<1>6. j \in Seq(Id) /\ Len(j) = n
  BY <1>3, <1>5
<1> QED BY <1>4, <1>6 DEF n, j

LEMMA IdsConcat ==
    ASSUME NEW r \in Seq(Full), NEW s \in Seq(Full)
    PROVE  r \o s \in Seq(Full) /\ Ids(r \o s) = Ids(r) \o Ids(s)
<1> DEFINE w == r \o s
           a == Ids(r)
           b == Ids(s)
           c == Ids(w)
           d == a \o b
<1>1. /\ w \in Seq(Full) /\ Len(w) = Len(r) + Len(s) /\ Len(r) \in Nat /\ Len(s) \in Nat
      /\ \A k \in 1 .. Len(r) + Len(s) : w[k] = IF k <= Len(r) THEN r[k] ELSE s[k - Len(r)]
  BY ConcatProperties, LenProperties
<1> HIDE DEF w
<1>2. /\ a \in Seq(Id) /\ Len(a) = Len(r)
      /\ \A k \in 1 .. Len(r) : a[k] = IdOf(r[k])
  BY IdsTyped
<1>3. /\ b \in Seq(Id) /\ Len(b) = Len(s)
      /\ \A k \in 1 .. Len(s) : b[k] = IdOf(s[k])
  BY IdsTyped
<1>4. /\ c \in Seq(Id) /\ Len(c) = Len(w)
      /\ \A k \in 1 .. Len(w) : c[k] = IdOf(w[k])
  BY <1>1, IdsTyped
<1> HIDE DEF a, b, c
<1>5. /\ d \in Seq(Id) /\ Len(d) = Len(a) + Len(b)
      /\ \A k \in 1 .. Len(a) + Len(b) : d[k] = IF k <= Len(a) THEN a[k] ELSE b[k - Len(a)]
  <2>1. a \in Seq(Id) /\ b \in Seq(Id)
    BY <1>2, <1>3
  <2> QED BY <2>1, ConcatProperties
<1> HIDE DEF d
<1>6. ASSUME NEW k \in 1 .. Len(c) PROVE c[k] = d[k]
  <2>1. k \in 1 .. Len(r) + Len(s)
    BY <1>1, <1>4
  <2>2. CASE k <= Len(r)
    <3>1. k \in 1 .. Len(r) /\ k \in 1 .. Len(w) /\ w[k] = r[k]
      BY <1>1, <2>1, <2>2
    <3>2. c[k] = IdOf(r[k]) /\ a[k] = IdOf(r[k])
      BY <1>2, <1>4, <3>1
    <3>3. d[k] = a[k]
      BY <1>2, <1>3, <1>5, <2>1, <2>2
    <3> QED BY <3>2, <3>3
  <2>3. CASE k > Len(r)
    <3>1. k - Len(r) \in 1 .. Len(s) /\ ~(k <= Len(r))
      BY <1>1, <2>1, <2>3
    <3>2. w[k] = s[k - Len(r)] /\ b[k - Len(r)] = IdOf(s[k - Len(r)])
      BY <1>1, <1>3, <2>1, <3>1
    <3>3. d[k] = b[k - Len(r)]
      BY <1>2, <1>3, <1>5, <2>1, <3>1
    <3> QED BY <1>4, <3>2, <3>3
  <2> QED BY <1>1, <2>1, <2>2, <2>3
<1>7. c = d
  <2>1. Len(c) = Len(d)
    BY <1>1, <1>2, <1>3, <1>4, <1>5
  <2> QED BY <1>4, <1>5, <1>6, <2>1, SeqEqual
<1> QED BY <1>1, <1>7 DEF w, a, b, c, d

LEMMA IdAdded ==
    ASSUME NEW g \in Seq(Id), NEW x \in Seq(Cell), x # <<>> => Genuine(x)
    PROVE  /\ Handed(x) \in Seq(Full) /\ AddId(g, x) \in Seq(Id)
           /\ g \o Ids(Handed(x)) = AddId(g, x)
<1>1. CASE x = <<>>
  <2>1. Handed(x) = <<>> /\ <<>> \in Seq(Full)
    BY <1>1, EmptySeq DEF Handed
  <2>2. Ids(<<>>) = <<>>
    <3>1. Ids(<<>>) \in Seq(Id) /\ Len(Ids(<<>>)) = 0
      BY <2>1, IdsTyped, EmptySeq
    <3> QED BY <3>1, EmptySeq
  <2>3. g \o <<>> = g
    BY ConcatEmptySeq
  <2> QED BY <1>1, <2>1, <2>2, <2>3 DEF AddId
<1>2. CASE x # <<>>
  <2>1. Handed(x) = <<x>> /\ x \in Full
    BY <1>2 DEF Handed, Full
  <2>2. <<x>> \in Seq(Full) /\ Len(<<x>>) = 1 /\ <<x>>[1] = x
    BY <2>1
  <2> DEFINE id == x[1].id
             j == Ids(<<x>>)
  <2>3. /\ j \in Seq(Id) /\ Len(j) = Len(<<x>>)
        /\ \A k \in 1 .. Len(<<x>>) : j[k] = IdOf(<<x>>[k])
    BY <2>2, IdsTyped
  <2>4. Len(j) = 1 /\ j[1] = id
    <3>1. IdOf(x) = id
      BY <1>2 DEF IdOf
    <3> QED BY <2>2, <2>3, <3>1
  <2> HIDE DEF j, id
  <2>5. id \in Id
    <3>1. j \in Seq(Id) /\ 1 \in 1 .. Len(j)
      BY <2>3, <2>4
    <3>2. j[1] \in Id
      BY <3>1, ElementOfSeq
    <3> QED BY <2>4, <3>2
  <2>6. j = <<id>>
    BY <2>3, <2>4, <2>5
  <2>7. Append(g, id) = g \o <<id>> /\ Append(g, id) \in Seq(Id)
    BY <2>5, AppendIsConcat, AppendProperties
  <2> QED BY <1>2, <2>1, <2>2, <2>6, <2>7 DEF AddId, j, id
<1> QED BY <1>1, <1>2

LEMMA RisingBelow ==
    ASSUME NEW g \in Seq(Id), NEW a \in Nat, NEW b \in Nat, a <= b, Rising(g, a)
    PROVE  Rising(g, b)
<1>1. \A k \in DOMAIN g : g[k] \in 0 .. a - 1
  BY DEF Rising
<1>2. \A k \in DOMAIN g : g[k] \in 0 .. b - 1
  BY <1>1
<1> QED BY <1>2 DEF Rising

(* A section not below the bound is handed out: in order still.            *)
LEMMA RisingAdds ==
    ASSUME NEW g \in Seq(Id), NEW x \in Seq(Cell), NEW top \in Nat,
           x # <<>> => Rising(g, x[1].id) /\ x[1].id \in 1 .. top - 1,
           Rising(g, top)
    PROVE  /\ Rising(AddId(g, x), top) /\ Range(g) \subseteq Range(AddId(g, x))
           /\ x # <<>> => x[1].id \in Range(AddId(g, x))
<1>1. CASE x = <<>>
  BY <1>1 DEF AddId
<1>2. CASE x # <<>>
  <2> DEFINE id == x[1].id
             h == Append(g, id)
  <2>1. id \in Id
    <3>1. 1 \in 1 .. Len(x)
      BY <1>2, EmptySeq
    <3>2. x[1] \in Cell
      BY <3>1, ElementOfSeq
    <3> QED BY <3>2 DEF Cell, Id
  <2>2. Rising(g, id) /\ id \in 1 .. top - 1
    BY <1>2
  <2> HIDE DEF id
  <2>3. /\ h \in Seq(Id) /\ Len(h) = Len(g) + 1 /\ h[Len(g) + 1] = id
        /\ \A k \in 1 .. Len(g) : h[k] = g[k]
    BY <2>1, AppendProperties
  <2>4. Len(g) \in Nat /\ DOMAIN g = 1 .. Len(g) /\ DOMAIN h = 1 .. Len(g) + 1
    BY <2>3, LenProperties
  <2> HIDE DEF h
  <2> DEFINE n == Len(g)
  <2>5. /\ n \in Nat /\ DOMAIN g = 1 .. n /\ DOMAIN h = 1 .. n + 1 /\ h[n + 1] = id
        /\ \A k \in 1 .. n : h[k] = g[k]
    BY <2>3, <2>4
  <2>6. /\ \A k \in 1 .. n : g[k] \in 0 .. id - 1
        /\ \A j, k \in 1 .. n : j < k /\ g[k] # 0 => g[j] < g[k]
    BY <2>2, <2>4 DEF Rising
  <2> HIDE DEF n
  <2>7. \A k \in 1 .. n + 1 : h[k] \in 0 .. top - 1
    <3> SUFFICES ASSUME NEW k \in 1 .. n + 1 PROVE h[k] \in 0 .. top - 1
      OBVIOUS
    <3>1. k \in 1 .. n \/ k = n + 1
      BY <2>5
    <3>2. id - 1 <= top - 1
      BY <2>2
    <3>3. CASE k \in 1 .. n
      <4>1. h[k] = g[k] /\ g[k] \in 0 .. id - 1
        BY <2>5, <2>6, <3>3
      <4> QED BY <2>2, <3>2, <4>1
    <3>4. CASE k = n + 1
      BY <2>2, <2>5, <3>4
    <3> QED BY <3>1, <3>3, <3>4
  <2>8. \A j, k \in 1 .. n + 1 : j < k /\ h[k] # 0 => h[j] < h[k]
    <3> SUFFICES ASSUME NEW j \in 1 .. n + 1, NEW k \in 1 .. n + 1, j < k, h[k] # 0
                 PROVE  h[j] < h[k]
      OBVIOUS
    <3>1. j \in 1 .. n /\ h[j] = g[j] /\ g[j] \in 0 .. id - 1
      BY <2>5, <2>6
    <3>2. CASE k \in 1 .. n
      BY <2>5, <2>6, <3>1, <3>2
    <3>3. CASE k = n + 1
      BY <2>2, <2>5, <3>1, <3>3
    <3> QED BY <2>5, <3>2, <3>3
  <2>9. Rising(h, top)
    BY <2>5, <2>7, <2>8 DEF Rising
  <2>10. Range(g) \subseteq Range(h) /\ id \in Range(h)
    <3>1. \A k \in 1 .. n : k \in 1 .. n + 1
      BY <2>5
    <3>2. n + 1 \in 1 .. n + 1
      BY <2>5
    <3> QED BY <2>5, <3>1, <3>2 DEF Range
  <2> QED BY <1>2, <2>9, <2>10 DEF AddId, h, id
<1> QED BY <1>1, <1>2

(* What is no section adds no id.                                          *)
LEMMA RisingNoise ==
    ASSUME NEW g \in Seq(Id), NEW z \in Seq(Id), \A k \in 1 .. Len(z) : z[k] = 0,
           NEW top \in Nat \ {0}, Rising(g, top)
    PROVE  /\ g \o z \in Seq(Id) /\ Rising(g \o z, top)
           /\ Range(g) \subseteq Range(g \o z)
<1> DEFINE h == g \o z
           n == Len(g)
           m == Len(z)
<1>1. /\ h \in Seq(Id) /\ Len(h) = n + m
      /\ \A k \in 1 .. n + m : h[k] = IF k <= n THEN g[k] ELSE z[k - n]
  BY ConcatProperties
<1>2. n \in Nat /\ m \in Nat /\ DOMAIN g = 1 .. n /\ \A k \in 1 .. m : z[k] = 0
  BY LenProperties
<1> HIDE DEF h
<1>3. DOMAIN h = 1 .. n + m
  BY <1>1, LenProperties
<1> HIDE DEF n, m
<1>4. \A k \in 1 .. n : g[k] \in 0 .. top - 1 /\ \A j \in 1 .. n : j < k /\ g[k] # 0 => g[j] < g[k]
  BY <1>2 DEF Rising
<1>5. \A k \in 1 .. n + m : (k \in 1 .. n /\ h[k] = g[k]) \/ (k > n /\ h[k] = 0)
  <2> SUFFICES ASSUME NEW k \in 1 .. n + m
               PROVE  (k \in 1 .. n /\ h[k] = g[k]) \/ (k > n /\ h[k] = 0)
    OBVIOUS
  <2>1. CASE k <= n
    BY <1>1, <1>2, <2>1
  <2>2. CASE k > n
    <3>1. k - n \in 1 .. m /\ ~(k <= n)
      BY <1>2, <2>2
    <3> QED BY <1>1, <1>2, <2>2, <3>1
  <2> QED BY <1>2, <2>1, <2>2
<1>6. \A k \in 1 .. n + m : h[k] \in 0 .. top - 1
  BY <1>4, <1>5
<1>7. \A j, k \in 1 .. n + m : j < k /\ h[k] # 0 => h[j] < h[k]
  <2> SUFFICES ASSUME NEW j \in 1 .. n + m, NEW k \in 1 .. n + m, j < k, h[k] # 0
               PROVE  h[j] < h[k]
    OBVIOUS
  <2>1. k \in 1 .. n /\ h[k] = g[k]
    BY <1>5
  <2>2. j \in 1 .. n /\ h[j] = g[j]
    BY <1>2, <1>5, <2>1
  <2> QED BY <1>4, <2>1, <2>2
<1>8. Rising(h, top)
  BY <1>3, <1>6, <1>7 DEF Rising
<1>9. Range(g) \subseteq Range(h)
  <2>1. \A k \in 1 .. n : k \in 1 .. n + m /\ h[k] = g[k]
    BY <1>1, <1>2
  <2> QED BY <1>2, <1>3, <2>1 DEF Range
<1> QED BY <1>1, <1>8, <1>9 DEF h

-----------------------------------------------------------------------------
(* Bytes before a pointer that no section is read out of.                  *)

Junk == {x \in Full : ~Genuine(x)}

Headless(s) ==
    /\ s \in Seq(Cell) /\ Len(s) <= Room
    /\ \A k \in 1 .. Len(s) : s[k].i # 1

(* No header but at the front, no section that begins there, and as long   *)
(* as what the tail of a packet may leave.                                 *)
Noise(s) ==
    /\ s \in Seq(Cell)
    /\ \A k \in 1 .. Len(s) : s[k].i = 1 => k = 1
    /\ \A n \in 1 .. Len(s) : ~Genuine(Take(s, n))
    /\ \/ Len(s) <= Room
       \/ Headed(s) /\ s[1].len \in Nat \ {0} /\ Len(s) - s[1].len <= Room

LEMMA GenuineIs ==
    ASSUME NEW w \in Seq(Cell), w # <<>>, Genuine(w)
    PROVE  /\ Len(w) = w[1].len
           /\ \A k \in 1 .. Len(w) : w[k] = CellAt(w[1].id, w[1].len, k)
<1>1. Len(w) \in Nat /\ 1 \in 1 .. Len(w) /\ DOMAIN w = 1 .. Len(w)
  BY LenProperties, EmptySeq
<1> DEFINE c == w[1]
<1>2. c \in Cell
  BY <1>1, ElementOfSeq
<1>3. Len(w) = c.len /\ \A k \in 1 .. Len(w) : w[k] = [c EXCEPT !.i = k]
  BY <1>1 DEF Genuine
<1> HIDE DEF c
<1>4. \A k : [c EXCEPT !.i = k] = CellAt(c.id, c.len, k)
  BY <1>2 DEF Cell, CellAt
<1> QED BY <1>3, <1>4 DEF c

LEMMA HeadlessIsNoise ==
    ASSUME NEW s, Headless(s)
    PROVE  Noise(s)
<1>1. s \in Seq(Cell) /\ Len(s) <= Room /\ Len(s) \in Nat /\ \A k \in 1 .. Len(s) : s[k].i # 1
  BY LenProperties DEF Headless
<1>2. ASSUME NEW n \in 1 .. Len(s), Genuine(Take(s, n)) PROVE FALSE
  <2> DEFINE w == Take(s, n)
  <2>1. w \in Seq(Cell) /\ Len(w) = n /\ \A k \in 1 .. n : w[k] = s[k]
    BY <1>1, TakeDrop
  <2>2. 1 \in 1 .. n /\ 1 \in 1 .. Len(s) /\ n # 0
    BY <1>1
  <2>3. Genuine(w)
    BY <1>2
  <2> HIDE DEF w
  <2>4. w # <<>>
    BY <2>1, <2>2, EmptySeq
  <2>5. w[1] = CellAt(w[1].id, w[1].len, 1)
    BY <2>1, <2>2, <2>3, <2>4, GenuineIs
  <2>6. w[1].i = 1
    BY <2>5 DEF CellAt
  <2> QED BY <1>1, <2>1, <2>2, <2>6
<1> QED BY <1>1, <1>2 DEF Noise

LEMMA NoiseDropped ==
    ASSUME NEW s, Noise(s), NEW n \in 1 .. Len(s), Len(s) - n <= Room
    PROVE  Headless(Drop(s, n)) /\ Len(Drop(s, n)) < Len(s)
<1>1. s \in Seq(Cell) /\ Len(s) \in Nat /\ \A k \in 1 .. Len(s) : s[k].i = 1 => k = 1
  BY LenProperties DEF Noise
<1> DEFINE t == Drop(s, n)
<1>2. t \in Seq(Cell) /\ Len(t) = Len(s) - n /\ \A k \in 1 .. Len(s) - n : t[k] = s[n + k]
  BY <1>1, TakeDrop
<1> HIDE DEF t
<1>3. ASSUME NEW k \in 1 .. Len(t) PROVE t[k].i # 1
  <2>1. n + k \in 1 .. Len(s) /\ n + k # 1 /\ k \in 1 .. Len(s) - n
    BY <1>1, <1>2
  <2>2. t[k] = s[n + k]
    BY <1>2, <2>1
  <2> QED BY <1>1, <2>1, <2>2
<1>4. Len(t) <= Room /\ Len(t) < Len(s)
  BY <1>1, <1>2
<1> QED BY <1>2, <1>3, <1>4 DEF Headless, t

LEMMA TailDrops ==
    ASSUME NEW s \in Seq(Cell), s # <<>>
    PROVE  Tail(s) = Drop(s, 1)
<1> DEFINE t == Tail(s)
           d == Drop(s, 1)
<1>1. Len(s) \in Nat /\ 1 <= Len(s)
  <2>1. Len(s) \in Nat /\ Len(s) # 0
    BY LenProperties, EmptySeq
  <2> QED BY <2>1
<1>2. t \in Seq(Cell) /\ Len(t) = Len(s) - 1 /\ \A k \in 1 .. Len(t) : t[k] = s[k + 1]
  BY HeadTailProperties
<1>3. d \in Seq(Cell) /\ Len(d) = Len(s) - 1 /\ \A k \in 1 .. Len(s) - 1 : d[k] = s[1 + k]
  BY <1>1, TakeDrop
<1> HIDE DEF t, d
<1>4. \A k \in 1 .. Len(t) : k + 1 = 1 + k
  OBVIOUS
<1>5. \A k \in 1 .. Len(t) : t[k] = d[k]
  BY <1>2, <1>3, <1>4
<1>6. t = d
  BY <1>2, <1>3, <1>5, SeqEqual
<1> QED BY <1>6 DEF t, d

(* A length read out of noise, which what follows it is not longer than a  *)
(* packet's payload.                                                       *)
LEMMA NoiseReads ==
    ASSUME NEW says \in Readings, NEW s, Noise(s), s # <<>>
    PROVE  LET total == Total(s, says)
           IN  /\ total \in {Filler, TooLong} \/ total \in Nat \ {0}
               /\ total = Filler => Len(s) <= Room
               /\ total \in Nat \ {0} => Len(s) - total <= Room
<1>1. s \in Seq(Cell) /\ Len(s) \in Nat /\ 1 \in 1 .. Len(s) /\ Room \in Nat
  BY LenProperties, EmptySeq, AssemblerAssumption DEF Noise, AssemblerAssumption
<1>2. s[1] \in Cell
  BY <1>1, ElementOfSeq
<1>3. \/ Len(s) <= Room
      \/ Headed(s) /\ s[1].len \in Nat \ {0} /\ Len(s) - s[1].len <= Room
  BY DEF Noise
<1>4. CASE s[1] = Stuff
  <2>1. s[1].i # 1
    BY <1>4 DEF Stuff
  <2>2. ~Headed(s)
    BY <2>1 DEF Headed
  <2>3. Total(s, says) = Filler
    BY <1>4 DEF Total
  <2> QED BY <1>3, <2>2, <2>3 DEF Filler
<1>5. CASE s[1] # Stuff /\ Headed(s)
  <2> DEFINE l == s[1].len
  <2>1. Total(s, says) = l /\ l \in Nat
    BY <1>2, <1>5 DEF Total, Cell
  <2>2. Len(s) <= Room \/ (l # 0 /\ Len(s) - l <= Room)
    BY <1>3
  <2> HIDE DEF l
  <2> QED BY <1>1, <2>1, <2>2 DEF Filler, TooLong
<1>6. CASE s[1] # Stuff /\ ~Headed(s)
  <2>1. Total(s, says) = says[Len(s)] /\ Len(s) \in 1 .. Room
    BY <1>1, <1>3, <1>6 DEF Total
  <2>2. says[Len(s)] \in {TooLong, Filler} \cup 1 .. Room + 1
    BY <2>1 DEF Readings
  <2> QED BY <1>1, <2>1, <2>2 DEF Filler, TooLong
<1> QED BY <1>4, <1>5, <1>6

LEMMA TurnIs ==
    ASSUME NEW says, NEW o, NEW s, s # <<>>, NEW p, p = [out |-> o, rest |-> s]
    PROVE  LET total == Total(s, says)
               t     == Turn(p, says)
           IN  /\ total = Filler => t = [out |-> o, rest |-> Tail(s)]
               /\ total = TooLong => t = [out |-> o, rest |-> <<>>]
               /\ total \notin {Filler, TooLong} /\ Whole(s, total)
                    => t = [out |-> Append(o, Take(s, total)), rest |-> Drop(s, total)]
<1> DEFINE total == Total(s, says)
           q == [out |-> Append(o, Take(s, total)), rest |-> Drop(s, total)]
<1>1. p.rest = s /\ p.out = o
  OBVIOUS
<1>2. \A r : [p EXCEPT !.rest = r] = [out |-> o, rest |-> r]
  OBVIOUS
<1>3. Turn(p, says) = IF total = Filler THEN [p EXCEPT !.rest = Tail(s)]
                      ELSE IF total = TooLong THEN [p EXCEPT !.rest = <<>>]
                      ELSE IF Whole(s, total) THEN q ELSE p
  BY <1>1 DEF Turn
<1>4. Filler # TooLong
  BY DEF Filler, TooLong
<1> HIDE DEF total, q
<1>5. /\ total = Filler => Turn(p, says) = [out |-> o, rest |-> Tail(s)]
      /\ total = TooLong => Turn(p, says) = [out |-> o, rest |-> <<>>]
      /\ total \notin {Filler, TooLong} /\ Whole(s, total) => Turn(p, says) = q
  BY <1>2, <1>3, <1>4
<1> QED BY <1>5 DEF total, q

(* Of noise, nothing that is handed out is a section that was sent.        *)
LEMMA NoiseTurns ==
    ASSUME NEW says \in Readings, NEW p \in [out : Seq(Junk), rest : Seq(Cell)],
           Noise(p.rest), ~Finished(p, says)
    PROVE  /\ Turn(p, says) \in [out : Seq(Junk), rest : Seq(Cell)]
           /\ Noise(Turn(p, says).rest) /\ Len(Turn(p, says).rest) < Len(p.rest)
<1> DEFINE s == p.rest
           o == p.out
           total == Total(s, says)
           t == Turn(p, says)
<1>1. s \in Seq(Cell) /\ s # <<>> /\ o \in Seq(Junk) /\ p = [out |-> o, rest |-> s]
  BY DEF Finished, Stays
<1>2. Len(s) \in Nat /\ Len(s) # 0 /\ Noise(s)
  BY <1>1, LenProperties, EmptySeq
<1>3. \/ total = Filler
      \/ total = TooLong
      \/ total \in Nat \ {0} /\ Whole(s, total)
  <2>1. total \in {Filler, TooLong} \/ total \in Nat \ {0}
    BY <1>1, NoiseReads
  <2> QED BY <2>1 DEF Finished, Stays
<1> HIDE DEF s, o
<1>7. /\ total = Filler => t = [out |-> o, rest |-> Tail(s)]
      /\ total = TooLong => t = [out |-> o, rest |-> <<>>]
  <2>1. s # <<>> /\ p = [out |-> o, rest |-> s]
    BY <1>1
  <2> HIDE DEF total, t
  <2> QED BY <2>1, TurnIs DEF total, t
<1>4. CASE total = Filler
  <2>1. t = [out |-> o, rest |-> Tail(s)]
    BY <1>4, <1>7
  <2>2. Tail(s) = Drop(s, 1) /\ Len(s) <= Room
    BY <1>1, <1>2, <1>4, TailDrops, NoiseReads
  <2> DEFINE d == Drop(s, 1)
  <2>3. Headless(d) /\ Len(d) < Len(s)
    <3>1. 1 \in 1 .. Len(s) /\ Len(s) - 1 <= Room
      BY <1>2, <2>2, AssemblerAssumption DEF AssemblerAssumption
    <3> QED BY <1>2, <3>1, NoiseDropped
  <2> HIDE DEF d
  <2>4. t = [out |-> o, rest |-> d] /\ d \in Seq(Cell)
    BY <2>1, <2>2, <2>3 DEF Headless, d
  <2> QED BY <1>1, <2>3, <2>4, HeadlessIsNoise DEF s
<1>5. CASE total = TooLong
  <2>1. t = [out |-> o, rest |-> <<>>]
    BY <1>5, <1>7
  <2>2. <<>> \in Seq(Cell) /\ Len(<<>>) < Len(s)
    BY <1>2, EmptySeq
  <2>3. Headless(<<>>)
    BY <2>2, AssemblerAssumption DEF AssemblerAssumption, Headless
  <2> QED BY <1>1, <2>1, <2>2, <2>3, HeadlessIsNoise DEF s
<1>6. CASE total \in Nat \ {0} /\ Whole(s, total)
  <2> DEFINE w == Take(s, total)
             d == Drop(s, total)
             a == Append(o, w)
  <2>1. total \in 1 .. Len(s)
    BY <1>2, <1>6 DEF Whole
  <2>2. Len(s) - total <= Room
    BY <1>1, <1>2, <1>6, NoiseReads
  <2>3. total \notin {Filler, TooLong}
    BY <1>6 DEF Filler, TooLong
  <2>4. t = [out |-> a, rest |-> d]
    BY <1>1, <1>6, <2>3, TurnIs
  <2>5. w \in Junk
    <3>1. w \in Seq(Cell) /\ Len(w) = total
      BY <1>1, <2>1, TakeDrop
    <3>2. w # <<>>
      BY <1>6, <3>1, EmptySeq
    <3>3. ~Genuine(w)
      BY <1>2, <2>1 DEF Noise
    <3> QED BY <3>1, <3>2, <3>3 DEF Junk, Full
  <2>6. Headless(d) /\ Len(d) < Len(s)
    BY <1>2, <2>1, <2>2, NoiseDropped
  <2> HIDE DEF w, d
  <2>7. a \in Seq(Junk)
    BY <1>1, <2>5, AppendProperties
  <2> HIDE DEF a
  <2>8. d \in Seq(Cell) /\ Noise(d)
    BY <2>6, HeadlessIsNoise DEF Headless
  <2> QED BY <2>4, <2>6, <2>7, <2>8 DEF s
<1> QED BY <1>3, <1>4, <1>5, <1>6

LEMMA NoiseHands ==
    ASSUME NEW says \in Readings, NEW q, Noise(q)
    PROVE  Completed(q, says).out \in Seq(Junk)
<1> DEFINE J == {p \in [out : Seq(Junk), rest : Seq(Cell)] : Noise(p.rest)}
<1>1. q \in Seq(Cell)
  BY DEF Noise
<1>2. <<>> \in Seq(Junk)
  BY EmptySeq
<1>3. [out |-> <<>>, rest |-> q] \in J
  BY <1>1, <1>2
<1>4. \A p \in J : /\ p.rest \in Seq(Cell)
                   /\ ~Finished(p, says) => /\ Turn(p, says) \in J
                                            /\ Len(Turn(p, says).rest) < Len(p.rest)
  BY NoiseTurns
<1>5. \A p \in J : p.out \in Seq(Junk)
  OBVIOUS
<1> HIDE DEF J
<1>6. Completed(q, says) \in J
  BY <1>1, <1>3, <1>4, CompletedLoop
<1> QED BY <1>5, <1>6

LEMMA SeqWithin ==
    ASSUME NEW S, NEW T, NEW g \in Seq(S), \A k \in 1 .. Len(g) : g[k] \in T
    PROVE  g \in Seq(T)
<1> DEFINE n == Len(g)
<1>1. n \in Nat /\ g \in [1 .. n -> S] /\ \A k \in 1 .. n : g[k] \in T
  BY LenProperties
<1> HIDE DEF n
<1>2. g \in [1 .. n -> T]
  BY <1>1
<1>3. n \in Nat
  BY <1>1
<1> QED BY <1>2, <1>3

LEMMA JunkIs ==
    ASSUME NEW r \in Seq(Junk)
    PROVE  /\ r \in Seq(Full) /\ \A k \in 1 .. Len(r) : ~Genuine(r[k])
           /\ Ids(r) \in Seq(Id) /\ \A k \in 1 .. Len(Ids(r)) : Ids(r)[k] = 0
<1>1. \A k \in 1 .. Len(r) : r[k] \in Full /\ ~Genuine(r[k])
  BY ElementOfSeq DEF Junk
<1>2. r \in Seq(Full)
  BY <1>1, SeqWithin
<1>3. /\ Ids(r) \in Seq(Id) /\ Len(Ids(r)) = Len(r)
      /\ \A k \in 1 .. Len(r) : Ids(r)[k] = IdOf(r[k])
  BY <1>2, IdsTyped
<1>4. \A k \in 1 .. Len(r) : IdOf(r[k]) = 0
  BY <1>1 DEF IdOf
<1> QED BY <1>1, <1>2, <1>3, <1>4

-----------------------------------------------------------------------------
(* What a PUSI packet completes before its pointer.                        *)

LEMMA LateBegun ==
    ASSUME TypeOK, SenderInv, NEW len \in Lens, NEW f \in 1 .. len - 1,
           pend = Late(sent, len, f)
    PROVE  pend # <<>> /\ sent \in 1 .. MaxSections
<1>1. sent \in 0 .. MaxSections /\ MaxSections \in Nat /\ len \in Nat
  BY AssemblerAssumption DEF TypeOK, AssemblerAssumption
<1>2. CASE pend = <<>>
  <2>1. Len(pend) = 0 /\ f \in Int /\ f < len
    BY <1>1, <1>2
  <2>2. Len(Late(sent, len, f)) = len - f
    <3>1. len - f \in Nat
      BY <1>1, <2>1
    <3> QED BY <3>1 DEF Late, Cells
  <2> QED BY <1>1, <2>1, <2>2
<1>3. CASE pend # <<>>
  BY <1>1, <1>3 DEF SenderInv
<1> QED BY <1>2, <1>3

LEMMA GotTyped ==
    ASSUME AssemblerInv
    PROVE  got \in Seq(Id) /\ sent \in Nat /\ Rising(got, sent + 1)
BY AssemblerAssumption DEF AssemblerAssumption, AssemblerInv, TypeOK, GotInv, Id

(* Behind, what is held and what comes before the pointer is noise.        *)
LEMMA TailIsNoise ==
    ASSUME TypeOK, SenderInv, HoldsHarmed, Len(pend) < Room
    PROVE  Noise(partial \o pend)
<1>1. /\ pend \in Seq(Cell) /\ Len(pend) \in Nat /\ sent \in 0 .. MaxSections /\ Room \in Nat
      /\ MaxSections \in Nat
  BY LenProperties, AssemblerAssumption DEF TypeOK, AssemblerAssumption
<1>2. pend # <<>> => 1 \in 1 .. Len(pend)
  BY <1>1, EmptySeq
<1>3. Len(pend) # 0 => pend # <<>>
  BY EmptySeq
<1>4. \A k \in 1 .. Len(pend) : pend[k].i # 1
  <2> SUFFICES ASSUME NEW k \in 1 .. Len(pend) PROVE pend[k].i # 1
    OBVIOUS
  <2>1. pend # <<>>
    BY <1>1, <1>3
  <2>2. PICK len \in Lens : \E g \in 1 .. len - 1 :
           \A j \in 1 .. Len(pend) : pend[j] = CellAt(sent, len, g + j)
    BY <2>1, PendIs
  <2>3. PICK g \in 1 .. len - 1 : \A j \in 1 .. Len(pend) : pend[j] = CellAt(sent, len, g + j)
    BY <2>2
  <2>4. pend[k].i = g + k
    <3>1. pend[k] = CellAt(sent, len, g + k)
      BY <2>3
    <3> QED BY <3>1 DEF CellAt
  <2>5. g \in Nat \ {0}
    BY AssemblerAssumption DEF AssemblerAssumption
  <2> QED BY <1>1, <2>4, <2>5
<1>5. CASE partial = <<>>
  <2>1. partial \o pend = pend
    BY <1>1, <1>5, ConcatEmptySeq
  <2>2. Headless(pend)
    BY <1>1, <1>4 DEF Headless
  <2> QED BY <2>1, <2>2, HeadlessIsNoise
<1>6. ASSUME NEW id \in 1 .. sent, NEW len \in Lens, NEW f \in 1 .. len - 1,
             partial = Early(id, len, f), id = sent => f + Len(pend) < len
      PROVE  Noise(partial \o pend)
  <2> DEFINE q == partial \o pend
             m == Len(pend)
  <2>1. /\ id \in 0 .. MaxSections /\ len \in Nat /\ len # 0 /\ f \in Nat /\ f < len
        /\ f # 0 /\ 0 \in Nat
    BY <1>1, AssemblerAssumption DEF AssemblerAssumption
  <2>2. IsCells(partial, id, len, 0, f)
    BY <1>6, <2>1, CellsAre DEF Early
  <2>3. partial \in Seq(Cell) /\ Len(partial) = f /\ \A k \in 1 .. f : partial[k] = CellAt(id, len, k)
    <3>1. \A k \in 1 .. f : 0 + k = k
      OBVIOUS
    <3> QED BY <2>2, <3>1 DEF IsCells
  <2>4. /\ q \in Seq(Cell) /\ Len(q) = f + m
        /\ \A k \in 1 .. f + m : q[k] = IF k <= f THEN partial[k] ELSE pend[k - f]
    BY <1>1, <2>3, ConcatProperties
  <2> HIDE DEF q
  <2>5. m \in Nat /\ m < Room /\ (id = sent => f + m < len)
    BY <1>1, <1>6
  <2>6. \A k \in 1 .. m : pend[k].i # 1
    BY <1>4
  <2> HIDE DEF m
  <2>7. \A k \in 1 .. f : q[k] = CellAt(id, len, k)
    BY <2>1, <2>3, <2>4, <2>5
  <2>8. \A k \in 1 .. f + m : k > f => q[k] = pend[k - f] /\ k - f \in 1 .. m
    BY <2>1, <2>4, <2>5
  <2>9. \A k \in 1 .. Len(q) : q[k].i = 1 => k = 1
    <3> SUFFICES ASSUME NEW k \in 1 .. f + m, q[k].i = 1 PROVE k = 1
      BY <2>4
    <3>1. CASE k <= f
      <4>1. q[k] = CellAt(id, len, k)
        BY <2>1, <2>5, <2>7, <3>1
      <4> QED BY <4>1 DEF CellAt
    <3>2. CASE k > f
      BY <2>6, <2>8, <3>2
    <3> QED BY <2>1, <2>5, <3>1, <3>2
  <2>10. q[1] = CellAt(id, len, 1) /\ 1 \in 1 .. f
    BY <2>1, <2>7
  <2>11. ASSUME NEW n \in 1 .. Len(q), Genuine(Take(q, n)) PROVE FALSE
    <3> DEFINE w == Take(q, n)
    <3>1. w \in Seq(Cell) /\ Len(w) = n /\ \A k \in 1 .. n : w[k] = q[k]
      <4>1. n \in Nat /\ n <= Len(q) /\ q \in Seq(Cell)
        BY <2>4, LenProperties
      <4> QED BY <4>1, TakeDrop
    <3>2. n \in Nat /\ n # 0 /\ n <= f + m /\ Genuine(w)
      BY <2>1, <2>4, <2>5, <2>11
    <3> HIDE DEF w
    <3>3. w # <<>> /\ 1 \in 1 .. n
      BY <3>1, <3>2, EmptySeq
    <3>4. w[1].id = id /\ w[1].len = len
      BY <2>10, <3>1, <3>3 DEF CellAt
    <3>5. n = len /\ \A k \in 1 .. n : w[k] = CellAt(id, len, k)
      BY <3>1, <3>2, <3>3, <3>4, GenuineIs
    <3> DEFINE k == f + 1
    <3>6. k \in 1 .. n /\ k \in 1 .. f + m /\ k > f /\ k - f = 1 /\ m # 0
      BY <2>1, <2>5, <3>2, <3>5
    <3>7. pend[1] = CellAt(id, len, k)
      <4>1. w[k] = CellAt(id, len, k) /\ w[k] = q[k]
        BY <3>1, <3>5, <3>6
      <4>2. q[k] = pend[1]
        BY <2>8, <3>6
      <4> QED BY <4>1, <4>2
    <3> HIDE DEF k
    <3>8. pend # <<>>
      BY <1>3, <3>6 DEF m
    <3>9. PICK len2 \in Lens : \E g \in 1 .. len2 - 1 :
             m = len2 - g /\ \A j \in 1 .. m : pend[j] = CellAt(sent, len2, g + j)
      BY <3>8, PendIs DEF m
    <3>10. PICK g \in 1 .. len2 - 1 :
             m = len2 - g /\ \A j \in 1 .. m : pend[j] = CellAt(sent, len2, g + j)
      BY <3>9
    <3>11. 1 \in 1 .. m
      BY <2>5, <3>6
    <3>12. CellAt(sent, len2, g + 1) = CellAt(id, len, k)
      BY <3>7, <3>10, <3>11
    <3>13. sent = id /\ len2 = len /\ g + 1 = k
      BY <3>12 DEF CellAt
    <3>14. g \in Nat /\ g = f /\ m = len - g
      BY <2>1, <3>10, <3>13 DEF k
    <3> QED BY <2>1, <2>5, <3>13, <3>14
  <2>12. \/ Len(q) <= Room
         \/ Headed(q) /\ q[1].len \in Nat \ {0} /\ Len(q) - q[1].len <= Room
    <3>1. CASE f = 1
      BY <1>1, <2>4, <2>5, <3>1
    <3>2. CASE f # 1
      <4>1. 2 \in 1 .. f
        BY <2>1, <3>2
      <4>2. q[2] = CellAt(id, len, 2)
        BY <2>7, <4>1
      <4>3. q[2] = [q[1] EXCEPT !.i = 2] /\ q[1].i = 1 /\ q[1].len = len
        BY <2>10, <4>2 DEF CellAt
      <4>4. Headed(q)
        BY <4>3 DEF Headed
      <4>5. Len(q) - len <= Room
        BY <1>1, <2>1, <2>4, <2>5
      <4> QED BY <2>1, <4>3, <4>4, <4>5
    <3> QED BY <3>1, <3>2
  <2> QED BY <2>4, <2>9, <2>11, <2>12 DEF Noise, q
<1> QED BY <1>5, <1>6 DEF HoldsHarmed

(* In step: the section under way, whole.                                  *)
LEMMA TailInStep ==
    ASSUME NEW says, TypeOK, SenderInv, HoldsStart
    PROVE  \E w \in Seq(Cell) :
              /\ Completed(partial \o pend, says).out = Handed(w)
              /\ w # <<>> => Genuine(w) /\ w[1].id = sent /\ sent \in 1 .. MaxSections
              /\ w = <<>> <=> pend = <<>>
<1>1. <<>> \in Seq(Cell) /\ Stays(<<>>, says) /\ \A w \in Seq(Cell) : w \o <<>> = w
  BY EmptySeq, ConcatEmptySeq DEF Stays
<1>2. CASE partial = <<>> /\ pend = <<>>
  <2>1. Completed(<<>> \o <<>>, says) = [out |-> Handed(<<>>), rest |-> <<>>]
    BY <1>1, OneAndMore
  <2>2. partial \o pend = <<>> \o <<>>
    BY <1>2
  <2>3. Completed(partial \o pend, says).out = Handed(<<>>)
    BY <2>1, <2>2
  <2> QED BY <1>1, <1>2, <2>3
<1>3. ASSUME NEW len \in Lens, NEW f \in 1 .. len - 1,
             partial = Early(sent, len, f), pend = Late(sent, len, f)
      PROVE  \E w \in Seq(Cell) :
                /\ Completed(partial \o pend, says).out = Handed(w)
                /\ w # <<>> => Genuine(w) /\ w[1].id = sent /\ sent \in 1 .. MaxSections
                /\ w = <<>> <=> pend = <<>>
  <2>1. pend # <<>> /\ sent \in 1 .. MaxSections
    BY <1>3, LateBegun
  <2> DEFINE w == Section(sent, len)
  <2>2. IsWhole(w, sent)
    BY DEF IsWhole
  <2>3. partial \o pend = w
    BY <1>3, <2>1, EarlyMore
  <2> HIDE DEF w
  <2>4. w \in Seq(Cell) /\ IsSection(w) /\ w[1].id = sent /\ Genuine(w)
    BY <2>1, <2>2, WholeIs
  <2>5. Completed(w \o <<>>, says) = [out |-> Handed(w), rest |-> <<>>]
    BY <1>1, <2>4, OneAndMore
  <2>6. Completed(partial \o pend, says).out = Handed(w)
    BY <1>1, <2>3, <2>4, <2>5
  <2>7. w # <<>>
    BY <2>4 DEF IsSection
  <2> QED BY <2>1, <2>4, <2>6, <2>7
<1> QED BY <1>2, <1>3 DEF HoldsStart

TailOut(says) == IF partial_valid THEN Completed(partial \o pend, says).out ELSE <<>>

(* Unbroken, the section under way; after a loss, noise.  Neither hides a  *)
(* section that arrived, nor repeats one.                                  *)
TailIs(j) ==
    /\ j \in Seq(Full)
    /\ lost = 0 => \A k \in 1 .. Len(j) : Genuine(j[k])
    /\ lost # 0 => \A k \in 1 .. Len(j) : ~Genuine(j[k])
    /\ LET g == got \o Ids(j)
       IN  /\ g \in Seq(Id) /\ Rising(g, sent + 1) /\ Range(got) \subseteq Range(g)
           /\ pend # <<>> => sent \in harmed \/ sent \in Range(g)

LEMMA NoiseTail ==
    ASSUME AssemblerInv, NEW j \in Seq(Junk), j = <<>> \/ lost # 0,
           pend # <<>> => sent \in harmed
    PROVE  TailIs(j)
<1> DEFINE z == Ids(j)
           top == sent + 1
           g == got \o z
<1>1. got \in Seq(Id) /\ sent \in Nat /\ Rising(got, top)
  BY GotTyped
<1>2. top \in Nat \ {0}
  BY <1>1
<1>3. /\ j \in Seq(Full) /\ \A k \in 1 .. Len(j) : ~Genuine(j[k])
      /\ z \in Seq(Id) /\ \A k \in 1 .. Len(z) : z[k] = 0
  BY JunkIs
<1> HIDE DEF z, top
<1>4. g \in Seq(Id) /\ Rising(g, top) /\ Range(got) \subseteq Range(g)
  BY <1>1, <1>2, <1>3, RisingNoise
<1>5. lost = 0 => \A k \in 1 .. Len(j) : Genuine(j[k])
  <2>1. j = <<>> => Len(j) = 0
    BY EmptySeq
  <2> QED BY <2>1
<1> QED BY <1>3, <1>4, <1>5 DEF TailIs, z, top

LEMMA SectionTail ==
    ASSUME AssemblerInv, lost = 0, partial_valid, NEW w \in Seq(Cell),
           w # <<>> => Genuine(w) /\ w[1].id = sent /\ sent \in 1 .. MaxSections,
           w = <<>> <=> pend = <<>>
    PROVE  TailIs(Handed(w))
<1> DEFINE j == Handed(w)
           top == sent + 1
           g == got \o Ids(j)
<1>1. got \in Seq(Id) /\ sent \in Nat /\ Rising(got, top)
  BY GotTyped
<1>2. w # <<>> => Rising(got, sent)
  BY DEF AssemblerInv, GotInv
<1>3. top \in Nat /\ (w # <<>> => sent \in 1 .. top - 1)
  BY <1>1
<1> HIDE DEF top
<1>4. j \in Seq(Full) /\ AddId(got, w) \in Seq(Id) /\ g = AddId(got, w)
  BY <1>1, IdAdded
<1>5. w # <<>> => Rising(got, w[1].id) /\ w[1].id \in 1 .. top - 1
  BY <1>2, <1>3
<1>6. /\ Rising(AddId(got, w), top) /\ Range(got) \subseteq Range(AddId(got, w))
      /\ w # <<>> => w[1].id \in Range(AddId(got, w))
  BY <1>1, <1>3, <1>5, RisingAdds
<1>7. \A k \in 1 .. Len(j) : Genuine(j[k])
  <2>1. CASE w = <<>>
    BY <2>1, EmptySeq DEF Handed
  <2>2. CASE w # <<>>
    <3>1. j = <<w>> /\ Len(<<w>>) = 1 /\ <<w>>[1] = w
      BY <2>2 DEF Handed
    <3> QED BY <2>2, <3>1
  <2> QED BY <2>1, <2>2
<1> HIDE DEF g, j
<1>8. g \in Seq(Id) /\ Rising(g, top) /\ Range(got) \subseteq Range(g)
  BY <1>4, <1>6
<1>9. pend # <<>> => sent \in Range(g)
  BY <1>4, <1>6
<1>10. TailIs(j)
  BY <1>4, <1>7, <1>8, <1>9 DEF TailIs, g, top
<1> QED BY <1>10 DEF j

LEMMA TailHands ==
    ASSUME AssemblerInv, NEW says \in Readings, Len(pend) < Room
    PROVE  TailIs(TailOut(says))
<1>1. TypeOK /\ SenderInv /\ PartialInv
  BY DEF AssemblerInv
<1>2. CASE ~partial_valid
  <2>1. <<>> \in Seq(Junk)
    BY EmptySeq
  <2>2. TailIs(<<>>)
    BY <1>1, <1>2, <2>1, NoiseTail DEF PartialInv
  <2> QED BY <1>2, <2>2 DEF TailOut
<1>3. CASE partial_valid /\ lost = 0
  <2>1. PICK w \in Seq(Cell) :
          /\ Completed(partial \o pend, says).out = Handed(w)
          /\ w # <<>> => Genuine(w) /\ w[1].id = sent /\ sent \in 1 .. MaxSections
          /\ w = <<>> <=> pend = <<>>
    BY <1>1, <1>3, TailInStep DEF PartialInv
  <2>2. TailIs(Handed(w))
    BY <1>3, <2>1, SectionTail
  <2> QED BY <1>3, <2>1, <2>2 DEF TailOut
<1>4. CASE partial_valid /\ lost # 0
  <2> DEFINE j == Completed(partial \o pend, says).out
  <2>1. Noise(partial \o pend)
    BY <1>1, <1>4, TailIsNoise DEF PartialInv
  <2>2. j \in Seq(Junk)
    BY <2>1, NoiseHands
  <2> HIDE DEF j
  <2>3. TailIs(j)
    BY <1>1, <1>4, <2>2, NoiseTail DEF PartialInv
  <2> QED BY <1>4, <2>3 DEF TailOut, j
<1> QED BY <1>2, <1>3, <1>4

-----------------------------------------------------------------------------
(* All that a PUSI packet completes.                                       *)

LEMMA HandedTyped ==
    ASSUME NEW x \in Seq(Cell)
    PROVE  Handed(x) \in Seq(Full)
<1>1. x = <<>> => Handed(x) = <<>> /\ <<>> \in Seq(Full)
  BY EmptySeq DEF Handed
<1>2. x # <<>> => Handed(x) = <<x>> /\ x \in Full
  BY DEF Handed, Full
<1>3. x # <<>> => <<x>> \in Seq(Full)
  BY <1>2
<1> QED BY <1>1, <1>2, <1>3

(* What was never sent ends before the pointer: in front.                  *)
InFront(k, j, r) == k \in 1 .. Len(j) /\ \A i \in 1 .. Len(j) : r[i] = j[i]

LEMMA NoiseInFront ==
    ASSUME NEW j \in Seq(Full), NEW x \in Seq(Cell), NEW y \in Seq(Cell),
           x # <<>> => Genuine(x), y # <<>> => Genuine(y),
           NEW r, r = j \o (Handed(x) \o Handed(y)),
           NEW k \in DOMAIN r, ~Genuine(r[k])
    PROVE  InFront(k, j, r)
<1> DEFINE hx == Handed(x)
           hy == Handed(y)
           s == hx \o hy
<1>1. /\ hx \in Seq(Full) /\ hy \in Seq(Full)
      /\ Len(hx) \in Nat /\ Len(hy) \in Nat /\ Len(j) \in Nat
  <2>1. hx \in Seq(Full) /\ hy \in Seq(Full)
    BY HandedTyped
  <2> HIDE DEF hx, hy
  <2> QED BY <2>1, LenProperties
<1>2. \A i \in 1 .. Len(hx) : Genuine(hx[i])
  BY DEF Handed
<1>3. \A i \in 1 .. Len(hy) : Genuine(hy[i])
  BY DEF Handed
<1> HIDE DEF hx, hy
<1>4. /\ s \in Seq(Full) /\ Len(s) = Len(hx) + Len(hy)
      /\ \A i \in 1 .. Len(hx) + Len(hy) : s[i] = IF i <= Len(hx) THEN hx[i] ELSE hy[i - Len(hx)]
  <2>1. hx \in Seq(Full) /\ hy \in Seq(Full)
    BY <1>1
  <2> QED BY <2>1, ConcatProperties
<1> HIDE DEF s
<1>5. \A i \in 1 .. Len(s) : Genuine(s[i])
  <2> SUFFICES ASSUME NEW i \in 1 .. Len(s) PROVE Genuine(s[i])
    OBVIOUS
  <2>1. CASE i <= Len(hx)
    <3>1. s[i] = hx[i] /\ i \in 1 .. Len(hx)
      BY <1>1, <1>4, <2>1
    <3> QED BY <1>2, <3>1
  <2>2. CASE i > Len(hx)
    <3>1. s[i] = hy[i - Len(hx)] /\ i - Len(hx) \in 1 .. Len(hy)
      BY <1>1, <1>4, <2>2
    <3> QED BY <1>3, <3>1
  <2> QED BY <1>1, <1>4, <2>1, <2>2
<1>6. r = j \o s
  BY DEF hx, hy, s
<1>7. /\ r \in Seq(Full) /\ Len(r) = Len(j) + Len(s)
      /\ \A i \in 1 .. Len(j) + Len(s) : r[i] = IF i <= Len(j) THEN j[i] ELSE s[i - Len(j)]
  <2>1. j \in Seq(Full) /\ s \in Seq(Full)
    BY <1>4
  <2> QED BY <1>6, <2>1, ConcatProperties
<1> DEFINE n == Len(j)
           m == Len(s)
<1>8. /\ n \in Nat /\ m \in Nat /\ k \in 1 .. n + m
      /\ \A i \in 1 .. n + m : r[i] = IF i <= n THEN j[i] ELSE s[i - n]
  <2>1. Len(s) \in Nat /\ DOMAIN r = 1 .. Len(r)
    BY <1>4, <1>7, LenProperties
  <2> QED BY <1>1, <1>7, <2>1
<1>9. \A i \in 1 .. m : Genuine(s[i])
  BY <1>5
<1> HIDE DEF n, m
<1>10. k <= n
  <2> SUFFICES ASSUME k > n PROVE FALSE
    BY <1>8
  <2>1. k - n \in 1 .. m /\ ~(k <= n)
    BY <1>8
  <2>2. r[k] = s[k - n]
    BY <1>8, <2>1
  <2> QED BY <1>9, <2>1, <2>2
<1>11. k \in 1 .. n
  BY <1>8, <1>10
<1>12. \A i \in 1 .. n : i \in 1 .. n + m /\ i <= n
  BY <1>8
<1>13. \A i \in 1 .. n : r[i] = j[i]
  BY <1>8, <1>12
<1> QED BY <1>11, <1>13 DEF n, InFront

LEMMA AllIds ==
    ASSUME NEW g \in Seq(Id), NEW j \in Seq(Full), NEW x \in Seq(Cell), NEW y \in Seq(Cell),
           x # <<>> => Genuine(x), y # <<>> => Genuine(y)
    PROVE  g \o Ids(j \o (Handed(x) \o Handed(y))) = AddId(AddId(g \o Ids(j), x), y)
<1> DEFINE r == j \o (Handed(x) \o Handed(y))
           a == Ids(j)
           b == Ids(Handed(x))
           c == Ids(Handed(y))
           g1 == g \o a
           g2 == AddId(g1, x)
<1>1. Handed(x) \in Seq(Full) /\ Handed(y) \in Seq(Full)
  BY IdAdded
<1>2. a \in Seq(Id) /\ b \in Seq(Id) /\ c \in Seq(Id)
  BY <1>1, IdsTyped
<1>3. Ids(r) = a \o (b \o c)
  <2> DEFINE s == Handed(x) \o Handed(y)
  <2>1. s \in Seq(Full) /\ Ids(s) = b \o c
    BY <1>1, IdsConcat
  <2> HIDE DEF s
  <2>2. Ids(j \o s) = a \o Ids(s)
    BY <2>1, IdsConcat
  <2> QED BY <2>1, <2>2 DEF s
<1> HIDE DEF a
<1>4. g1 \in Seq(Id)
  BY <1>2, ConcatProperties
<1> HIDE DEF g1
<1>5. g2 \in Seq(Id) /\ g1 \o b = g2
  BY <1>4, IdAdded
<1> HIDE DEF g2
<1>6. g2 \o c = AddId(g2, y)
  BY <1>5, IdAdded
<1> HIDE DEF b, c
<1>7. g \o (a \o (b \o c)) = ((g \o a) \o b) \o c
  <2>1. Regrouped(g, a, b, c)
    BY <1>2, ConcatFour
  <2> QED BY <2>1 DEF Regrouped
<1>8. g \o Ids(r) = AddId(g2, y)
  BY <1>3, <1>5, <1>6, <1>7 DEF g1
<1> QED BY <1>8 DEF g1, g2, a

-----------------------------------------------------------------------------
(* A packet received.                                                      *)

Arrives(pkt, says) ==
    /\ Send(pkt) /\ Feed(pkt, says)
    /\ lost' = 0 /\ pusi' = pkt.pusi /\ gap' = lost
    /\ got' = got \o Ids(ready')
    /\ UNCHANGED harmed

LEMMA FeedContinues ==
    ASSUME NEW says, NEW pkt, pkt.pusi = FALSE, Feed(pkt, says)
    PROVE  /\ last_cc' = cc /\ partial_valid' = StillValid(pkt)
           /\ StillValid(pkt) => /\ partial' = Completed(partial \o pkt.load, says).rest
                                 /\ ready' = Completed(partial \o pkt.load, says).out
           /\ ~StillValid(pkt) => partial' \in {<<>>, partial} /\ ready' = <<>>
<1>1. /\ last_cc' = cc /\ partial_valid' = (FALSE \/ StillValid(pkt))
      /\ LET kept == IF CcBroken(pkt) THEN <<>> ELSE partial
             cont == IF StillValid(pkt) THEN Completed(kept \o pkt.load, says)
                                        ELSE [out |-> <<>>, rest |-> kept]
         IN  partial' = cont.rest /\ ready' = cont.out
  BY DEF Feed
<1>2. StillValid(pkt) => ~CcBroken(pkt)
  BY DEF StillValid
<1>3. partial_valid' = StillValid(pkt)
  BY <1>1, Zenon DEF StillValid
<1> QED BY <1>1, <1>2, <1>3

LEMMA FeedStarts ==
    ASSUME NEW says, NEW pkt, pkt.pusi = TRUE, Feed(pkt, says), partial_valid \in BOOLEAN,
           Take(pkt.load, pkt.ptr) = pend
    PROVE  /\ last_cc' = cc /\ partial_valid' = TRUE
           /\ partial' = Completed(Drop(pkt.load, pkt.ptr), says).rest
           /\ ready' = TailOut(says) \o Completed(Drop(pkt.load, pkt.ptr), says).out
<1>1. ~CcBroken(pkt)
  BY DEF CcBroken
<1>2. StillValid(pkt) = partial_valid
  BY <1>1 DEF StillValid
<1> QED BY <1>1, <1>2 DEF Feed, TailOut

LEMMA SendTyped ==
    ASSUME NEW pkt, Send(pkt), LeftBegun(pkt), pkt.left \in Seq(Cell),
           pkt.begun \in 1 .. MaxSections
    PROVE  /\ SenderInv' /\ pend' \in Seq(Cell) /\ sent' \in 0 .. MaxSections
           /\ pend' = pkt.left /\ sent' = pkt.begun /\ cc' = NextCc(cc)
<1>1. pend' = pkt.left /\ sent' = pkt.begun /\ cc' = NextCc(cc)
  BY DEF Send
<1>2. sent' \in 0 .. MaxSections /\ sent' # 0
  BY <1>1
<1>3. SenderInv'
  BY <1>1, <1>2 DEF SenderInv, LeftBegun
<1> QED BY <1>1, <1>2, <1>3

(* Nothing is handed out, and nothing else of the past changes.            *)
LEMMA NothingHanded ==
    ASSUME AssemblerInv, ready' = <<>>, got' = got \o Ids(ready')
    PROVE  got' = got
<1>1. Handed(<<>>) = <<>> /\ <<>> \in Seq(Cell) /\ AddId(got, <<>>) = got
  BY EmptySeq DEF Handed, AddId
<1>2. got \in Seq(Id)
  BY GotTyped
<1>3. got \o Ids(Handed(<<>>)) = AddId(got, <<>>)
  BY <1>1, <1>2, IdAdded
<1> QED BY <1>1, <1>3

(* What a received packet must leave.                                      *)
Kept == /\ partial' \in Seq(Cell) /\ partial_valid' \in BOOLEAN /\ got' \in Seq(Id)
        /\ PartialInv' /\ GotInv' /\ NoiseOnlyAcrossPusi'

LEMMA StillValidIf ==
    ASSUME AssemblerInv, NEW pkt, Continues(pkt)
    PROVE  StillValid(pkt) <=> partial_valid /\ lost = 0
<1>1. TypeOK /\ CounterInv
  BY DEF AssemblerInv
<1>2. pkt.pusi \in BOOLEAN /\ ~pkt.pusi
  BY DEF Continues
<1>3. StillValid(pkt) <=> partial_valid /\ (pkt.pusi \/ lost = 0)
  BY <1>1, <1>2, ValidIs
<1> QED BY <1>2, <1>3, Zenon

LEMMA ContinuesBroken ==
    ASSUME NEW says, AssemblerInv, NEW pkt, Continues(pkt), Arrives(pkt, says), ~(partial_valid /\ lost = 0)
    PROVE  Kept
<1>1. TypeOK /\ SenderInv /\ CounterInv /\ PartialInv /\ GotInv
  BY DEF AssemblerInv
<1>2. pkt.pusi = FALSE /\ pkt.begun = sent /\ pend # <<>>
  BY DEF Continues
<1>3. ~StillValid(pkt)
  BY StillValidIf, Zenon
<1>4. partial_valid' = FALSE /\ partial' \in {<<>>, partial} /\ ready' = <<>>
  <2>1. Feed(pkt, says)
    BY DEF Arrives
  <2>2. partial_valid' = StillValid(pkt)
    BY <1>2, <2>1, FeedContinues
  <2>3. partial' \in {<<>>, partial} /\ ready' = <<>>
    BY <1>2, <1>3, <2>1, FeedContinues
  <2>4. StillValid(pkt) = FALSE
    BY <1>3 DEF StillValid
  <2> QED BY <2>2, <2>3, <2>4
<1>5. got' = got
  BY <1>4, NothingHanded DEF Arrives
<1>6. harmed' = harmed /\ sent' = sent
  BY <1>2 DEF Arrives, Send
<1>7. sent \in harmed
  BY <1>1, <1>2 DEF PartialInv
<1>8. partial' \in Seq(Cell)
  BY <1>1, <1>4, EmptySeq DEF TypeOK
<1>9. got' \in Seq(Id)
  BY <1>1, <1>5 DEF TypeOK, Id
<1>10. PartialInv'
  BY <1>4, <1>6, <1>7 DEF PartialInv
<1>11. GotInv'
  BY <1>1, <1>4, <1>5, <1>6, <1>7 DEF GotInv
<1>12. NoiseOnlyAcrossPusi'
  BY <1>4 DEF NoiseOnlyAcrossPusi
<1> QED BY <1>4, <1>8, <1>9, <1>10, <1>11, <1>12 DEF Kept

LEMMA ContinuesKept ==
    ASSUME NEW says, AssemblerInv, NEW pkt, Continues(pkt), Arrives(pkt, says), partial_valid, lost = 0
    PROVE  Kept
<1>1. TypeOK /\ SenderInv /\ CounterInv /\ PartialInv /\ GotInv /\ HoldsStart
  BY DEF AssemblerInv, PartialInv
<1>2. pkt.pusi = FALSE /\ pkt.begun = sent /\ pend # <<>>
  BY DEF Continues
<1>3. StillValid(pkt)
  BY StillValidIf, Zenon
<1> DEFINE cont == Completed(partial \o pkt.load, says)
<1>4. partial_valid' = TRUE /\ partial' = cont.rest /\ ready' = cont.out
  <2>1. Feed(pkt, says)
    BY DEF Arrives
  <2>2. partial_valid' = StillValid(pkt)
    BY <1>2, <2>1, FeedContinues
  <2>3. partial' = cont.rest /\ ready' = cont.out
    BY <1>2, <1>3, <2>1, FeedContinues
  <2>4. StillValid(pkt) = TRUE
    BY <1>3, Zenon DEF StillValid
  <2> QED BY <2>2, <2>3, <2>4
<1>5. ContinuesInStep(pkt, cont)
  BY <1>1, ContinueHands
<1> HIDE DEF cont
<1>6. /\ harmed' = harmed /\ sent' = sent /\ pend' = pkt.left /\ lost' = 0
      /\ got' = got \o Ids(ready')
  BY <1>2 DEF Arrives, Send
<1>7. sent \in 1 .. MaxSections /\ sent \in Nat /\ MaxSections \in Nat
  BY <1>1, <1>2, AssemblerAssumption DEF AssemblerAssumption, SenderInv, TypeOK
<1>8. got \in Seq(Id) /\ Rising(got, sent + 1) /\ Rising(got, sent)
  BY <1>1, <1>2, GotTyped DEF GotInv
<1>9. ASSUME pkt.left = <<>>, cont.rest = <<>>,
             NEW y \in Seq(Cell), IsWhole(y, sent), cont.out = <<y>>
      PROVE  Kept
  <2>1. IsSection(y) /\ y # <<>> /\ y[1].id = sent /\ Genuine(y)
    BY <1>7, <1>9, WholeIs DEF IsSection
  <2>2. got' = AddId(got, y) /\ got' \in Seq(Id)
    <3>1. Handed(y) = <<y>>
      BY <2>1 DEF Handed
    <3>2. got \o Ids(Handed(y)) = AddId(got, y) /\ AddId(got, y) \in Seq(Id)
      BY <1>8, <2>1, IdAdded
    <3> QED BY <1>4, <1>6, <1>9, <3>1, <3>2
  <2> DEFINE top == sent + 1
  <2>3. top \in Nat /\ sent \in 1 .. top - 1 /\ Rising(got, top)
    BY <1>7, <1>8
  <2> HIDE DEF top
  <2>4. /\ Rising(got', top) /\ Range(got) \subseteq Range(got') /\ sent \in Range(got')
    BY <1>8, <2>1, <2>2, <2>3, RisingAdds
  <2>6. partial' = <<>> /\ pend' = <<>>
    BY <1>4, <1>6, <1>9
  <2>7. PartialInv'
    BY <1>6, <2>6 DEF PartialInv, HoldsStart
  <2>8. GotInv'
    BY <1>1, <1>6, <2>4, <2>6 DEF GotInv, top
  <2>9. NoiseOnlyAcrossPusi'
    <3>1. ready' = <<y>>
      BY <1>4, <1>9
    <3> QED BY <2>1, <3>1 DEF NoiseOnlyAcrossPusi
  <2> QED BY <1>4, <2>2, <2>6, <2>7, <2>8, <2>9, EmptySeq DEF Kept
<1>10. ASSUME cont.out = <<>>, NEW len \in Lens, NEW f \in 1 .. len - 1,
              pkt.left = Late(sent, len, f), cont.rest = Early(sent, len, f)
       PROVE  Kept
  <2>1. ready' = <<>> /\ partial' = Early(sent, len, f) /\ pend' = Late(sent, len, f)
    BY <1>4, <1>6, <1>10
  <2>2. got' = got
    BY <1>6, <2>1, NothingHanded
  <2>3. partial' \in Seq(Cell) /\ pend' # <<>>
    BY <1>7, <2>1, LateIs
  <2>4. PartialInv'
    <3>1. HoldsStart'
      BY <1>6, <2>1 DEF HoldsStart
    <3> QED BY <1>4, <1>6, <3>1 DEF PartialInv
  <2>5. GotInv'
    BY <1>1, <1>6, <1>8, <2>2, <2>3 DEF GotInv
  <2>6. NoiseOnlyAcrossPusi'
    BY <2>1 DEF NoiseOnlyAcrossPusi
  <2>7. got' \in Seq(Id)
    BY <1>1, <2>2 DEF TypeOK, Id
  <2> QED BY <1>4, <2>3, <2>4, <2>5, <2>6, <2>7 DEF Kept
<1> QED BY <1>5, <1>9, <1>10 DEF ContinuesInStep

(* What the numbers of the sections say when one or two begin.             *)
LEMMA BegunAre ==
    ASSUME TypeOK, NEW x \in Seq(Cell), NEW pkt, StartsWith(pkt, x)
    PROVE  /\ sent \in 0 .. MaxSections /\ pkt.begun \in 1 .. MaxSections /\ MaxSections \in Nat
           /\ x = <<>> => pkt.begun = sent + 1
           /\ x # <<>> => /\ pkt.begun = sent + 2 /\ sent + 1 \in 1 .. MaxSections
                          /\ x[1].id = sent + 1 /\ Genuine(x)
<1>1. sent \in 0 .. MaxSections /\ pkt.begun \in 1 .. MaxSections /\ MaxSections \in Nat
  BY AssemblerAssumption DEF AssemblerAssumption, TypeOK, StartsWith
<1>2. CASE x = <<>> /\ pkt.begun = sent + 1
  BY <1>1, <1>2
<1>3. CASE IsWhole(x, sent + 1) /\ pkt.begun = sent + 2
  <2> DEFINE id == sent + 1
  <2>1. id \in 1 .. MaxSections /\ IsWhole(x, id)
    BY <1>1, <1>3
  <2> HIDE DEF id
  <2>2. IsSection(x) /\ x[1].id = id /\ Genuine(x)
    BY <2>1, WholeIs
  <2>3. x # <<>>
    BY <2>2 DEF IsSection
  <2> QED BY <1>1, <1>3, <2>1, <2>2, <2>3 DEF id
<1>4. \/ x = <<>> /\ pkt.begun = sent + 1
      \/ IsWhole(x, sent + 1) /\ pkt.begun = sent + 2
  BY DEF StartsWith
<1> QED BY <1>2, <1>3, <1>4

(* One list after another: what ends before the pointer, the section the   *)
(* packet holds whole and the one it ends with.                            *)
LEMMA StartsInOrder ==
    ASSUME AssemblerInv, NEW j, TailIs(j),
           NEW x \in Seq(Cell), NEW pkt, StartsWith(pkt, x),
           NEW y \in Seq(Cell), y # <<>> => y[1].id = pkt.begun /\ Genuine(y),
           NEW g, g = AddId(AddId(got \o Ids(j), x), y)
    PROVE  /\ g \in Seq(Id) /\ Rising(g, pkt.begun + 1)
           /\ y = <<>> => Rising(g, pkt.begun)
           /\ Range(got \o Ids(j)) \subseteq Range(g) /\ Range(got) \subseteq Range(g)
           /\ x # <<>> => x[1].id \in Range(g)
           /\ y # <<>> => y[1].id \in Range(g)
<1> DEFINE g1 == got \o Ids(j)
           g2 == AddId(g1, x)
           n == sent + 1
           b == pkt.begun
           t == pkt.begun + 1
<1>1. TypeOK
  BY DEF AssemblerInv
<1>2. /\ sent \in 0 .. MaxSections /\ b \in 1 .. MaxSections /\ MaxSections \in Nat
      /\ x = <<>> => b = n
      /\ x # <<>> => b = sent + 2 /\ x[1].id = n /\ Genuine(x)
  BY <1>1, BegunAre
<1>3. /\ n \in Nat /\ b \in Nat /\ t \in Nat /\ n <= b /\ b <= t
      /\ b \in 1 .. t - 1
      /\ x # <<>> => n \in 1 .. b - 1
  BY <1>2
<1>4. x # <<>> => x[1].id = n /\ Genuine(x)
  BY <1>2
<1>5. g1 \in Seq(Id) /\ Rising(g1, n) /\ Range(got) \subseteq Range(g1)
  BY DEF TailIs
<1> HIDE DEF n, b, t, g1
<1>6. g2 \in Seq(Id)
  BY <1>4, <1>5, IdAdded
<1>7. Rising(g1, b)
  BY <1>3, <1>5, RisingBelow
<1>8. x # <<>> => Rising(g1, x[1].id) /\ x[1].id \in 1 .. b - 1
  BY <1>3, <1>4, <1>5
<1>9. Rising(g2, b) /\ Range(g1) \subseteq Range(g2) /\ (x # <<>> => x[1].id \in Range(g2))
  BY <1>3, <1>5, <1>7, <1>8, RisingAdds
<1> HIDE DEF g2
<1>10. g = AddId(g2, y) /\ (y # <<>> => y[1].id = b /\ Genuine(y))
  BY DEF g1, g2, b
<1>11. g \in Seq(Id)
  BY <1>6, <1>10, IdAdded
<1>12. Rising(g2, t)
  BY <1>3, <1>6, <1>9, RisingBelow
<1>13. y # <<>> => Rising(g2, y[1].id) /\ y[1].id \in 1 .. t - 1
  BY <1>3, <1>9, <1>10
<1>14. Rising(g, t) /\ Range(g2) \subseteq Range(g) /\ (y # <<>> => y[1].id \in Range(g))
  BY <1>3, <1>6, <1>10, <1>12, <1>13, RisingAdds
<1>15. y = <<>> => Rising(g, b)
  BY <1>9, <1>10 DEF AddId
<1>16. /\ Range(g1) \subseteq Range(g) /\ Range(got) \subseteq Range(g)
       /\ x # <<>> => x[1].id \in Range(g)
  BY <1>5, <1>9, <1>14
<1> QED BY <1>11, <1>14, <1>15, <1>16 DEF b, t, g1

LEMMA StartsKept ==
    ASSUME NEW says \in Readings, AssemblerInv, NEW x \in Seq(Cell), NEW pkt, StartsWith(pkt, x), Arrives(pkt, says)
    PROVE  Kept
<1>1. TypeOK /\ SenderInv /\ CounterInv /\ PartialInv /\ GotInv
  BY DEF AssemblerInv
<1> DEFINE start == Completed(Drop(pkt.load, pkt.ptr), says)
<1>2. Take(pkt.load, pkt.ptr) = pend /\ \E y \in Seq(Cell) : StartsFrom(pkt, start, x, y)
  BY <1>1, StartHands
<1>3. partial_valid' = TRUE /\ partial' = start.rest /\ ready' = TailOut(says) \o start.out
  <2>1. Feed(pkt, says) /\ pkt.pusi = TRUE /\ partial_valid \in BOOLEAN
    BY <1>1 DEF Arrives, StartsWith, TypeOK
  <2> QED BY <1>2, <2>1, FeedStarts
<1> HIDE DEF start
<1>4. PICK y \in Seq(Cell) : StartsFrom(pkt, start, x, y)
  BY <1>2
<1> DEFINE j == TailOut(says)
<1>5. TailIs(j) /\ j \in Seq(Full)
  <2>1. Len(pend) < Room
    BY DEF StartsWith
  <2> QED BY <2>1, TailHands DEF TailIs
<1> HIDE DEF j
<1>6. ready' = j \o (Handed(x) \o Handed(y))
  BY <1>3, <1>4 DEF StartsFrom, j
<1>7. /\ harmed' = harmed /\ sent' = pkt.begun /\ pend' = pkt.left /\ lost' = 0
      /\ gap' = lost /\ pusi' = TRUE /\ got' = got \o Ids(ready')
  BY DEF Arrives, Send, StartsWith
<1>8. /\ sent \in 0 .. MaxSections /\ pkt.begun \in 1 .. MaxSections /\ MaxSections \in Nat
      /\ x = <<>> => pkt.begun = sent + 1
      /\ x # <<>> => pkt.begun = sent + 2 /\ x[1].id = sent + 1 /\ Genuine(x)
  BY <1>1, BegunAre
<1>9. y # <<>> => /\ y[1].id = pkt.begun /\ Genuine(y)
                  /\ pkt.left = <<>> /\ start.rest = <<>>
  <2>1. CASE IsWhole(y, pkt.begun) /\ pkt.left = <<>> /\ start.rest = <<>>
    BY <1>8, <2>1, WholeIs
  <2> QED BY <1>4, <2>1 DEF StartsFrom
<1>10. y = <<>> => \E len \in Lens : \E f \in 1 .. len - 1 :
          pkt.left = Late(pkt.begun, len, f) /\ start.rest = Early(pkt.begun, len, f)
  <2>1. CASE IsWhole(y, pkt.begun)
    <3>1. IsSection(y)
      BY <1>8, <2>1, WholeIs
    <3> QED BY <3>1 DEF IsSection
  <2> QED BY <1>4, <2>1 DEF StartsFrom
<1>11. got' = AddId(AddId(got \o Ids(j), x), y)
  <2>1. got \in Seq(Id)
    BY GotTyped
  <2> DEFINE r == ready'
             h == j \o (Handed(x) \o Handed(y))
  <2>2. r = h /\ got' = got \o Ids(r)
    BY <1>6, <1>7
  <2> HIDE DEF r
  <2>3. got \o Ids(h) = AddId(AddId(got \o Ids(j), x), y)
    BY <1>5, <1>8, <1>9, <2>1, AllIds
  <2> QED BY <2>2, <2>3
<1>12. y # <<>> => y[1].id = pkt.begun /\ Genuine(y)
  BY <1>9
<1>13. /\ got' \in Seq(Id) /\ Rising(got', pkt.begun + 1)
       /\ y = <<>> => Rising(got', pkt.begun)
       /\ Range(got \o Ids(j)) \subseteq Range(got') /\ Range(got) \subseteq Range(got')
       /\ x # <<>> => x[1].id \in Range(got')
       /\ y # <<>> => y[1].id \in Range(got')
  BY <1>5, <1>11, <1>12, StartsInOrder
<1>14. /\ y # <<>> => partial' = <<>> /\ pend' = <<>>
       /\ y = <<>> => \E len \in Lens : \E f \in 1 .. len - 1 :
             pend' = Late(sent', len, f) /\ partial' = Early(sent', len, f)
  BY <1>3, <1>7, <1>9, <1>10
<1>15. /\ partial' \in Seq(Cell)
       /\ y = <<>> => pend' # <<>>
  <2>1. CASE y # <<>>
    BY <1>14, <2>1, EmptySeq
  <2>2. CASE y = <<>>
    <3>1. PICK len \in Lens : \E f \in 1 .. len - 1 :
             pend' = Late(sent', len, f) /\ partial' = Early(sent', len, f)
      BY <1>14, <2>2
    <3>2. PICK f \in 1 .. len - 1 :
             pend' = Late(sent', len, f) /\ partial' = Early(sent', len, f)
      BY <3>1
    <3> DEFINE id == sent'
    <3>3. id \in 1 .. MaxSections /\ pend' = Late(id, len, f) /\ partial' = Early(id, len, f)
      BY <1>7, <1>8, <3>2
    <3> HIDE DEF id
    <3>4. partial' \in Seq(Cell) /\ pend' # <<>>
      BY <3>3, LateIs
    <3> QED BY <3>4
  <2> QED BY <2>1, <2>2
<1>16. PartialInv'
  <2>1. HoldsStart'
    BY <1>14 DEF HoldsStart
  <2> QED BY <1>3, <1>7, <2>1 DEF PartialInv
<1>17. GotInv'
  <2>1. Rising(got', sent' + 1)
    BY <1>7, <1>13
  <2>2. pend' # <<>> => Rising(got', sent')
    BY <1>7, <1>13, <1>14
  <2>3. ASSUME NEW id \in 1 .. pkt.begun
        PROVE  id \in harmed \/ id \in Range(got') \/ (id = pkt.begun /\ pend' # <<>>)
    <3>1. CASE id \in 1 .. sent
      <4>1. id \in harmed \/ id \in Range(got) \/ (id = sent /\ pend # <<>>)
        BY <1>1, <3>1 DEF GotInv
      <4>2. CASE id = sent /\ pend # <<>>
        BY <1>5, <1>13, <4>2 DEF TailIs
      <4> QED BY <1>13, <4>1, <4>2
    <3>2. CASE id = sent + 1 /\ x # <<>>
      BY <1>8, <1>13, <3>2
    <3>3. CASE id = pkt.begun
      BY <1>12, <1>13, <1>15, <3>3
    <3> QED BY <1>8, <3>1, <3>2, <3>3
  <2> QED BY <1>7, <2>1, <2>2, <2>3 DEF GotInv
<1>18. NoiseOnlyAcrossPusi'
  <2> SUFFICES ASSUME NEW k \in DOMAIN ready', ~Genuine(ready'[k])
               PROVE  /\ pusi' /\ gap' > 0
                      /\ \A i \in DOMAIN ready' : i < k => ~Genuine(ready'[i])
    BY DEF NoiseOnlyAcrossPusi, Genuine
  <2> DEFINE r == ready'
  <2>1. r = j \o (Handed(x) \o Handed(y)) /\ k \in DOMAIN r /\ ~Genuine(r[k])
    BY <1>6
  <2> HIDE DEF r
  <2>2. k \in 1 .. Len(j) /\ \A i \in 1 .. Len(j) : r[i] = j[i]
    <3>1. x # <<>> => Genuine(x)
      BY <1>8
    <3>2. y # <<>> => Genuine(y)
      BY <1>9
    <3>3. InFront(k, j, r)
      BY <1>5, <2>1, <3>1, <3>2, NoiseInFront
    <3> QED BY <3>3 DEF InFront
  <2>3. lost # 0
    BY <1>5, <2>1, <2>2 DEF TailIs
  <2>4. lost > 0
    BY <1>1, <2>3, AssemblerAssumption DEF TypeOK, AssemblerAssumption
  <2>5. \A i \in 1 .. Len(j) : ~Genuine(j[i])
    BY <1>5, <2>3 DEF TailIs
  <2>6. ASSUME NEW i \in DOMAIN r, i < k PROVE ~Genuine(r[i])
    <3>1. DOMAIN r \subseteq Nat \ {0}
      <4>1. r \in Seq(Full)
        <5>1. Handed(x) \in Seq(Full) /\ Handed(y) \in Seq(Full)
          BY HandedTyped
        <5>2. Handed(x) \o Handed(y) \in Seq(Full)
          BY <5>1, ConcatProperties
        <5> QED BY <1>5, <2>1, <5>2, ConcatProperties
      <4> QED BY <4>1, LenProperties
    <3>2. i \in 1 .. Len(j)
      BY <1>5, <2>2, <2>6, <3>1, LenProperties
    <3> QED BY <2>2, <2>5, <3>2
  <2> QED BY <1>7, <2>4, <2>6 DEF r
<1> QED BY <1>3, <1>13, <1>15, <1>16, <1>17, <1>18 DEF Kept

(* A packet, whichever it is: the sections it carries a part of, and what  *)
(* the sender still has of the last one.                                   *)
LEMMA PacketCarries ==
    ASSUME TypeOK, SenderInv, NEW pkt \in Packets
    PROVE  /\ LeftBegun(pkt) /\ pkt.left \in Seq(Cell)
           /\ pkt.begun \in 1 .. MaxSections /\ sent <= pkt.begun
           /\ pend # <<>> => sent \in IdsOf(pkt.load)
           /\ \A id \in 1 .. pkt.begun : id > sent => id \in IdsOf(pkt.load)
           /\ pkt.begun = sent => pend # <<>> /\ Len(pkt.left) < Len(pend)
<1>1. CASE Continues(pkt)
  <2>1. pkt.begun = sent /\ pend # <<>>
    BY <1>1 DEF Continues
  <2>2. /\ LeftBegun(pkt) /\ pkt.left \in Seq(Cell) /\ Len(pkt.left) < Len(pend)
        /\ sent \in 1 .. MaxSections /\ sent \in IdsOf(pkt.load)
    BY <1>1, ContinuesCarries
  <2>3. MaxSections \in Nat
    BY AssemblerAssumption DEF AssemblerAssumption
  <2> QED BY <2>1, <2>2, <2>3
<1>2. ASSUME NEW x \in Seq(Cell), StartsWith(pkt, x)
      PROVE  /\ LeftBegun(pkt) /\ pkt.left \in Seq(Cell)
             /\ pkt.begun \in 1 .. MaxSections /\ sent < pkt.begun
             /\ pend # <<>> => sent \in IdsOf(pkt.load)
             /\ \A id \in 1 .. pkt.begun : id > sent => id \in IdsOf(pkt.load)
  <2>1. /\ LeftBegun(pkt) /\ pkt.left \in Seq(Cell)
        /\ pend # <<>> => sent \in IdsOf(pkt.load)
        /\ \A id \in 1 .. pkt.begun : id > sent => id \in IdsOf(pkt.load)
    BY <1>2, StartsCarries
  <2>2. /\ sent \in 0 .. MaxSections /\ pkt.begun \in 1 .. MaxSections /\ MaxSections \in Nat
        /\ x = <<>> => pkt.begun = sent + 1
        /\ x # <<>> => pkt.begun = sent + 2
    BY <1>2, BegunAre
  <2>3. sent < pkt.begun
    BY <2>2
  <2> QED BY <2>1, <2>2, <2>3
<1>3. sent \in 0 .. MaxSections /\ MaxSections \in Nat
  BY AssemblerAssumption DEF AssemblerAssumption, TypeOK
<1>4. CASE \E x \in Seq(Cell) : StartsWith(pkt, x)
  <2>1. PICK x \in Seq(Cell) : StartsWith(pkt, x)
    BY <1>4
  <2>2. pkt.begun \in 1 .. MaxSections /\ sent < pkt.begun
    BY <1>2, <2>1
  <2>3. sent <= pkt.begun /\ pkt.begun # sent
    BY <1>3, <2>2
  <2> QED BY <1>2, <2>1, <2>3
<1>5. Continues(pkt) \/ \E x \in Seq(Cell) : StartsWith(pkt, x)
  BY PacketsAre
<1> QED BY <1>1, <1>4, <1>5

LEMMA ArrivesKept ==
    ASSUME NEW says \in Readings, AssemblerInv, NEW pkt \in Packets, Arrives(pkt, says)
    PROVE  Kept
<1>1. TypeOK
  BY DEF AssemblerInv
<1>2. CASE Continues(pkt)
  BY <1>2, ContinuesBroken, ContinuesKept
<1>3. CASE \E x \in Seq(Cell) : StartsWith(pkt, x)
  BY <1>3, StartsKept
<1> QED BY <1>1, <1>2, <1>3, PacketsAre

LEMMA ReceivePreserves ==
    ASSUME AssemblerInv, Receive
    PROVE  AssemblerInv' /\ NoiseOnlyAcrossPusi'
<1>1. TypeOK /\ SenderInv /\ CounterInv
  BY DEF AssemblerInv
<1>2. PICK pkt \in Packets, says \in Readings :
         /\ Send(pkt) /\ Feed(pkt, says)
         /\ lost' = 0 /\ pusi' = pkt.pusi /\ gap' = lost
         /\ got' = got \o [k \in DOMAIN ready' |-> IdOf(ready'[k])]
         /\ UNCHANGED harmed
  BY DEF Receive
<1>3. Arrives(pkt, says)
  BY <1>2 DEF Arrives, Ids
<1>4. Kept
  BY <1>3, ArrivesKept
<1>5. /\ SenderInv' /\ pend' \in Seq(Cell) /\ sent' \in 0 .. MaxSections
      /\ cc' = NextCc(cc)
  <2>1. LeftBegun(pkt) /\ pkt.left \in Seq(Cell) /\ pkt.begun \in 1 .. MaxSections
    BY <1>1, PacketCarries
  <2>2. Send(pkt)
    BY <1>2
  <2> QED BY <2>1, <2>2, SendTyped
<1>6. last_cc' = cc /\ lost' = 0 /\ gap' = lost
  BY <1>2 DEF Feed
<1>7. CounterInv' /\ cc' \in 0 .. CcMod - 1 /\ lost' \in 0 .. MaxLost
  BY <1>1, <1>5, <1>6, CounterMoves
<1>8. TypeOK'
  BY <1>1, <1>4, <1>5, <1>6, <1>7 DEF TypeOK, Kept, Id
<1> QED BY <1>4, <1>5, <1>7, <1>8 DEF AssemblerInv, Kept

-----------------------------------------------------------------------------
(* A packet lost.                                                          *)

LEMMA HoldsAfterLoss ==
    ASSUME AssemblerInv, NEW pkt \in Packets, partial_valid,
           pend' = pkt.left, sent' = pkt.begun,
           harmed' = harmed \cup IdsOf(pkt.load), partial' = partial
    PROVE  HoldsHarmed'
<1>1. TypeOK /\ SenderInv /\ PartialInv
  BY DEF AssemblerInv
<1>2. /\ pkt.begun \in 1 .. MaxSections /\ sent <= pkt.begun
      /\ pend # <<>> => sent \in IdsOf(pkt.load)
      /\ pkt.begun = sent => pend # <<>> /\ Len(pkt.left) < Len(pend)
      /\ pkt.left \in Seq(Cell)
  BY <1>1, PacketCarries
<1>3. /\ sent \in 0 .. MaxSections /\ MaxSections \in Nat /\ Lens \subseteq Nat \ {0}
      /\ Len(pend) \in Nat /\ Len(pkt.left) \in Nat
  BY <1>1, <1>2, AssemblerAssumption, LenProperties DEF TypeOK, AssemblerAssumption
<1>4. ASSUME NEW id \in 1 .. sent, NEW len \in Lens, NEW f \in 1 .. len - 1,
             partial = Early(id, len, f), id \in harmed \cup IdsOf(pkt.load),
             id = sent => f + Len(pend) <= len
      PROVE  HoldsHarmed'
  <2>1. id \in 1 .. sent' /\ id \in harmed' /\ partial' = Early(id, len, f)
    BY <1>2, <1>3, <1>4
  <2>2. id = sent' => f + Len(pend') < len
    <3> SUFFICES ASSUME id = sent' PROVE f + Len(pend') < len
      OBVIOUS
    <3>1. pkt.begun = sent /\ id = sent
      BY <1>2, <1>3
    <3>2. Len(pkt.left) < Len(pend) /\ f + Len(pend) <= len
      BY <1>2, <1>4, <3>1
    <3>3. f \in Int /\ len \in Int
      BY <1>3
    <3> QED BY <1>3, <3>2, <3>3
  <2> QED BY <2>1, <2>2 DEF HoldsHarmed
<1>5. CASE partial = <<>>
  BY <1>5 DEF HoldsHarmed
<1>6. CASE partial # <<>> /\ lost = 0
  <2>1. PICK len \in Lens : \E f \in 1 .. len - 1 :
           partial = Early(sent, len, f) /\ pend = Late(sent, len, f)
    BY <1>1, <1>6 DEF PartialInv, HoldsStart
  <2>2. PICK f \in 1 .. len - 1 : partial = Early(sent, len, f) /\ pend = Late(sent, len, f)
    BY <2>1
  <2>3. pend # <<>> /\ sent \in 1 .. MaxSections
    BY <1>1, <2>2, LateBegun
  <2>4. Len(pend) = len - f
    BY <2>2, <2>3, LateIs
  <2>5. sent \in 1 .. sent /\ f + Len(pend) <= len
    BY <1>3, <2>3, <2>4
  <2> QED BY <1>2, <1>4, <2>2, <2>3, <2>5
<1>7. CASE partial # <<>> /\ lost # 0
  <2>1. PICK id \in 1 .. sent : \E len \in Lens : \E f \in 1 .. len - 1 :
           /\ partial = Early(id, len, f) /\ id \in harmed
           /\ id = sent => f + Len(pend) < len
    BY <1>1, <1>7 DEF PartialInv, HoldsHarmed
  <2>2. PICK len \in Lens : \E f \in 1 .. len - 1 :
           /\ partial = Early(id, len, f) /\ id \in harmed
           /\ id = sent => f + Len(pend) < len
    BY <2>1
  <2>3. PICK f \in 1 .. len - 1 :
           /\ partial = Early(id, len, f) /\ id \in harmed
           /\ id = sent => f + Len(pend) < len
    BY <2>2
  <2>4. id = sent => f + Len(pend) <= len
    BY <1>3, <2>3
  <2> QED BY <1>4, <2>3, <2>4
<1> QED BY <1>5, <1>6, <1>7

LEMMA LosePreserves ==
    ASSUME AssemblerInv, Lose
    PROVE  AssemblerInv' /\ NoiseOnlyAcrossPusi'
<1>1. TypeOK /\ SenderInv /\ CounterInv /\ PartialInv /\ GotInv
  BY DEF AssemblerInv
<1>2. PICK pkt \in Packets :
         /\ lost < MaxLost
         /\ Send(pkt)
         /\ lost' = lost + 1
         /\ harmed' = harmed \cup IdsOf(pkt.load)
         /\ ready' = <<>>
         /\ UNCHANGED <<partial, partial_valid, last_cc, pusi, gap, got>>
  BY DEF Lose
<1>3. /\ LeftBegun(pkt) /\ pkt.left \in Seq(Cell)
      /\ pkt.begun \in 1 .. MaxSections /\ sent <= pkt.begun
      /\ pend # <<>> => sent \in IdsOf(pkt.load)
      /\ \A id \in 1 .. pkt.begun : id > sent => id \in IdsOf(pkt.load)
      /\ pkt.begun = sent => pend # <<>>
  BY <1>1, PacketCarries
<1>4. /\ SenderInv' /\ pend' \in Seq(Cell) /\ sent' \in 0 .. MaxSections
      /\ pend' = pkt.left /\ sent' = pkt.begun /\ cc' = NextCc(cc)
  <2>1. Send(pkt) /\ LeftBegun(pkt) /\ pkt.left \in Seq(Cell) /\ pkt.begun \in 1 .. MaxSections
    BY <1>2, <1>3
  <2> QED BY <2>1, SendTyped
<1>5. CounterInv' /\ cc' \in 0 .. CcMod - 1 /\ lost' \in 0 .. MaxLost
  <2>1. lost < MaxLost /\ lost' = lost + 1 /\ UNCHANGED <<last_cc, partial_valid>>
    BY <1>2
  <2> QED BY <1>1, <1>4, <2>1, CounterMoves
<1>6. TypeOK'
  BY <1>1, <1>2, <1>4, <1>5 DEF TypeOK
<1>7. sent \in 0 .. MaxSections /\ MaxSections \in Nat
  BY <1>1, AssemblerAssumption DEF AssemblerAssumption, TypeOK
<1>8. PartialInv'
  <2>1. lost' # 0
    BY <1>1, <1>2, AssemblerAssumption DEF TypeOK, AssemblerAssumption
  <2>2. partial_valid' => HoldsHarmed'
    <3> SUFFICES ASSUME partial_valid' PROVE HoldsHarmed'
      OBVIOUS
    <3>1. partial_valid /\ partial' = partial /\ harmed' = harmed \cup IdsOf(pkt.load)
      BY <1>2
    <3> QED BY <1>4, <3>1, HoldsAfterLoss
  <2>3. sent' \in harmed'
    <3>1. pkt.begun \in IdsOf(pkt.load)
      <4>1. CASE pkt.begun = sent
        BY <1>3, <4>1
      <4>2. CASE pkt.begun # sent
        <5>1. pkt.begun \in 1 .. pkt.begun /\ pkt.begun > sent
          BY <1>3, <1>7, <4>2
        <5> QED BY <1>3, <5>1
      <4> QED BY <4>1, <4>2
    <3> QED BY <1>2, <1>4, <3>1
  <2> QED BY <2>1, <2>2, <2>3 DEF PartialInv
<1>9. GotInv'
  <2>1. Rising(got', sent' + 1)
    <3> DEFINE a == sent + 1
               b == pkt.begun + 1
    <3>1. a \in Nat /\ b \in Nat /\ a <= b
      BY <1>3, <1>7
    <3>2. got \in Seq(Id) /\ Rising(got, a)
      BY GotTyped
    <3> HIDE DEF a, b
    <3>3. Rising(got, b)
      BY <3>1, <3>2, RisingBelow
    <3> QED BY <1>2, <1>4, <3>3 DEF b
  <2>2. lost' # 0
    BY <1>1, <1>2, AssemblerAssumption DEF TypeOK, AssemblerAssumption
  <2>3. ASSUME NEW id \in 1 .. pkt.begun PROVE id \in harmed' \/ id \in Range(got')
    <3>1. CASE id > sent
      BY <1>2, <1>3, <3>1
    <3>2. CASE id \in 1 .. sent
      <4>1. id \in harmed \/ id \in Range(got) \/ (id = sent /\ pend # <<>>)
        BY <1>1, <3>2 DEF GotInv
      <4> QED BY <1>2, <1>3, <4>1
    <3> QED BY <1>3, <1>7, <3>1, <3>2
  <2> QED BY <1>4, <2>1, <2>2, <2>3 DEF GotInv
<1>10. NoiseOnlyAcrossPusi'
  BY <1>2 DEF NoiseOnlyAcrossPusi
<1> QED BY <1>4, <1>5, <1>6, <1>8, <1>9, <1>10 DEF AssemblerInv
-----------------------------------------------------------------------------
(* The invariant holds, and what it says of the assembler.                 *)

LEMMA InitInv == Init => AssemblerInv /\ NoiseOnlyAcrossPusi
<1> SUFFICES ASSUME Init PROVE AssemblerInv /\ NoiseOnlyAcrossPusi
  OBVIOUS
<1>1. /\ CcMod \in Nat \ {0, 1} /\ MaxSections \in Nat /\ MaxLost \in 0 .. CcMod - 1
      /\ 0 \in 0 .. MaxSections /\ 0 \in 0 .. MaxLost
  BY AssemblerAssumption DEF AssemblerAssumption
<1>2. \A S : <<>> \in Seq(S)
  BY EmptySeq
<1>3. DOMAIN <<>> = {}
  OBVIOUS
<1>4. TypeOK
  BY <1>1, <1>2 DEF Init, TypeOK
<1>5. SenderInv /\ CounterInv /\ PartialInv
  BY DEF Init, SenderInv, CounterInv, PartialInv, HoldsStart
<1>6. Rising(got, sent + 1)
  BY <1>3 DEF Init, Rising
<1>7. GotInv
  BY <1>6 DEF Init, GotInv
<1>8. NoiseOnlyAcrossPusi
  BY <1>3 DEF Init, NoiseOnlyAcrossPusi
<1> QED BY <1>4, <1>5, <1>7, <1>8 DEF AssemblerInv

LEMMA StutterKeeps ==
    ASSUME AssemblerInv, NoiseOnlyAcrossPusi, UNCHANGED vars
    PROVE  AssemblerInv' /\ NoiseOnlyAcrossPusi'
<1>1. /\ pend' = pend /\ sent' = sent /\ cc' = cc
      /\ partial' = partial /\ partial_valid' = partial_valid /\ last_cc' = last_cc
      /\ ready' = ready /\ lost' = lost /\ pusi' = pusi /\ gap' = gap
      /\ harmed' = harmed /\ got' = got
  BY DEF vars, sender, receiver, history
<1>2. TypeOK'
  BY <1>1 DEF AssemblerInv, TypeOK
<1>3. SenderInv' /\ CounterInv'
  BY <1>1 DEF AssemblerInv, SenderInv, CounterInv
<1>4. PartialInv'
  BY <1>1 DEF AssemblerInv, PartialInv, HoldsStart, HoldsHarmed
<1>5. GotInv'
  BY <1>1 DEF AssemblerInv, GotInv
<1>6. NoiseOnlyAcrossPusi'
  BY <1>1 DEF NoiseOnlyAcrossPusi
<1> QED BY <1>2, <1>3, <1>4, <1>5, <1>6 DEF AssemblerInv

LEMMA AssemblerInvHolds == Spec => [](AssemblerInv /\ NoiseOnlyAcrossPusi)
<1>1. AssemblerInv /\ NoiseOnlyAcrossPusi /\ [Next]_vars
        => AssemblerInv' /\ NoiseOnlyAcrossPusi'
  BY ReceivePreserves, LosePreserves, StutterKeeps DEF Next
<1> QED BY InitInv, <1>1, PTL DEF Spec

LEMMA HeldIsInStep == AssemblerInv => InStep
<1> SUFFICES ASSUME AssemblerInv, lost = 0, partial_valid
             PROVE  \/ partial = <<>> /\ pend = <<>>
                    \/ /\ partial # <<>> /\ pend # <<>>
                       /\ Genuine(partial \o pend) /\ Len(partial \o pend) = partial[1].len
  BY DEF InStep
<1>1. TypeOK /\ SenderInv /\ HoldsStart
  BY DEF AssemblerInv, PartialInv
<1>2. CASE \E len \in Lens : \E f \in 1 .. len - 1 :
              partial = Early(sent, len, f) /\ pend = Late(sent, len, f)
  <2>1. PICK len \in Lens : \E f \in 1 .. len - 1 :
           partial = Early(sent, len, f) /\ pend = Late(sent, len, f)
    BY <1>2
  <2>2. PICK f \in 1 .. len - 1 : partial = Early(sent, len, f) /\ pend = Late(sent, len, f)
    BY <2>1
  <2>3. pend # <<>> /\ sent \in 1 .. MaxSections
    BY <1>1, <2>2, LateBegun
  <2>4. partial \o pend = Section(sent, len)
    BY <2>2, <2>3, EarlyMore
  <2>5. len \in Nat \ {0}
    BY AssemblerAssumption DEF AssemblerAssumption
  <2>6. Genuine(Section(sent, len)) /\ Len(Section(sent, len)) = len
    BY <2>3, <2>5, SectionIs
  <2>7. partial # <<>>
    BY <2>2, <2>3, LateIs
  <2>8. partial[1] = [id |-> sent, i |-> 1, len |-> len]
    BY <2>2, <2>3, EarlyIs
  <2>9. partial[1].len = len
    BY <2>8
  <2> QED BY <2>3, <2>4, <2>6, <2>7, <2>9
<1> QED BY <1>1, <1>2 DEF HoldsStart

LEMMA GotArrives == AssemblerInv => IntactSectionsArrive
<1> SUFFICES ASSUME AssemblerInv PROVE IntactSectionsArrive
  OBVIOUS
<1>1. TypeOK /\ SenderInv /\ GotInv
  BY DEF AssemblerInv
<1>2. \A a, b \in DOMAIN got : a < b /\ got[b] # 0 => got[a] < got[b]
  BY <1>1 DEF GotInv, Rising
<1>3. pend # <<>> => sent \in IdsOf(pend)
  <2> SUFFICES ASSUME pend # <<>> PROVE sent \in IdsOf(pend)
    OBVIOUS
  <2>1. sent \in 1 .. MaxSections
    BY <1>1, AssemblerAssumption DEF SenderInv, TypeOK, AssemblerAssumption
  <2>2. PICK len \in Lens : \E f \in 1 .. len - 1 : pend = Late(sent, len, f)
    BY <1>1 DEF SenderInv
  <2>3. PICK f \in 1 .. len - 1 : pend = Late(sent, len, f)
    BY <2>2
  <2> QED BY <2>1, <2>3, LateIs
<1>4. \A id \in 1 .. sent : id \in harmed \/ id \in Range(got) \/ id \in IdsOf(pend)
  BY <1>1, <1>3 DEF GotInv
<1> QED BY <1>2, <1>4 DEF IntactSectionsArrive

(* The assembler's fields and its sender's stay of their types: what is    *)
(* handed out is a section that was sent, by its id, or noise              *)
(* (TsSectionAssembler, eit.rs).                                           *)
THEOREM FieldsTyped == Spec => []TypeOK
<1>1. AssemblerInv => TypeOK
  BY DEF AssemblerInv
<1> QED BY <1>1, AssemblerInvHolds, PTL

(* For every packing of every sequence of sections and every pattern of    *)
(* losses shorter than the counter's cycle: after the first PUSI packet    *)
(* that follows a loss, `partial' is the beginning of the section under    *)
(* way, or partial_valid says that it is not (feed, eit.rs).               *)
THEOREM AssemblerFallsInStep == Spec => []InStep
BY HeldIsInStep, AssemblerInvHolds, PTL

(* What feed hands out that was never sent, mixed of two sections or read  *)
(* out of noise, comes of the bytes before the pointer of a PUSI packet    *)
(* right after a loss, the one packet whose counter feed does not look at, *)
(* and in front of the genuine sections of that packet: whatever bytes that*)
(* are no header read as (feed and try_complete, eit.rs).                  *)
THEOREM NoiseOnlyFromTails == Spec => []NoiseOnlyAcrossPusi
BY AssemblerInvHolds, PTL

(* A loss costs the sections that lost a packet and no other: each section *)
(* that arrived whole is handed out by the packet with its last cell, once *)
(* and in the order sent (feed and try_complete, eit.rs).                  *)
THEOREM NoCollateralLoss == Spec => []IntactSectionsArrive
BY GotArrives, AssemblerInvHolds, PTL
=============================================================================
