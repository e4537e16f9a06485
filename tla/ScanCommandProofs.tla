--------------------------- MODULE ScanCommandProofs ---------------------------
(***************************************************************************)
(* `scan' for any number of scanners, tables, damage and files: what it    *)
(* lists and what it may not lose.                                         *)
(***************************************************************************)
EXTENDS ScanCommand, ChannelDocProofs

-----------------------------------------------------------------------------
(* The service list.  R is any set of services that the sections are of.   *)

LEMMA ServiceAdded ==
    ASSUME NEW R, NEW list \in Seq(R), NEW svc \in R
    PROVE  LET e == AddService(list, svc)
           IN  e \in Seq(R) /\ KeysOf(list) \subseteq KeysOf(e) /\ svc.key \in KeysOf(e)
<1>1. CASE \E i \in DOMAIN list : list[i].key = svc.key
  BY <1>1 DEF AddService, KeysOf
<1>2. CASE ~\E i \in DOMAIN list : list[i].key = svc.key
  <2> DEFINE e == Append(list, svc)
  <2>1. /\ e \in Seq(R) /\ Len(e) = Len(list) + 1
        /\ \A i \in 1 .. Len(list) : e[i] = list[i]
        /\ e[Len(list) + 1] = svc
    BY AppendProperties
  <2> HIDE DEF e
  <2>2. /\ DOMAIN e = 1 .. Len(list) + 1 /\ DOMAIN list = 1 .. Len(list)
        /\ Len(list) \in Nat
    BY <2>1
  <2>3. KeysOf(list) \subseteq KeysOf(e)
    BY <2>1, <2>2 DEF KeysOf
  <2>4. svc.key \in KeysOf(e)
    BY <2>1, <2>2 DEF KeysOf
  <2> QED BY <1>2, <2>1, <2>3, <2>4 DEF AddService, e
<1> QED BY <1>1, <1>2

(* A loop over n things, entered in inv[0] and kept in it, ends in inv[n]. *)
LEMMA LoopEndsWithin ==
    ASSUME NEW n \in Nat, NEW inv, NEW l, l[0] \in inv[0],
           \A i \in 1 .. n : l[i - 1] \in inv[i - 1] => l[i] \in inv[i]
    PROVE  l[n] \in inv[n]
<1> DEFINE S == {i \in Nat : i <= n => l[i] \in inv[i]}
<1>1. 0 \in S
  OBVIOUS
<1>2. ASSUME NEW i \in Nat, i \in S PROVE i + 1 \in S
  <2> SUFFICES ASSUME i + 1 <= n PROVE l[i + 1] \in inv[i + 1]
    OBVIOUS
  <2>1. i + 1 \in 1 .. n /\ (i + 1) - 1 = i /\ l[i] \in inv[i]
    BY <1>2
  <2> QED BY <2>1
<1>3. n \in S
  <2> HIDE DEF S
  <2> QED BY <1>1, <1>2, Induct
<1> QED BY <1>3

(* The two loops of channels_from_pat_sdt: there is a function that their  *)
(* definitions choose.                                                     *)
ServicesOf(place) == IF place = <<>> THEN <<>> ELSE ParseSdt(place[1])

LEMMA FullPlace == \A copy : <<copy>> # <<>> /\ ServicesOf(<<copy>>) = ParseSdt(copy)
<1>1. \A copy : Len(<<copy>>) = 1 /\ <<copy>>[1] = copy /\ Len(<<>>) = 0
  OBVIOUS
<1>2. \A copy : <<copy>> # <<>>
  BY <1>1
<1> QED BY <1>1, <1>2 DEF ServicesOf

LEMMA InnerLoop ==
    ASSUME NEW R, NEW list \in Seq(R), NEW place, ServicesOf(place) \in Seq(R)
    PROVE  \E l : /\ l[0] = list /\ AddSection(list, place) = l[Len(ServicesOf(place))]
                  /\ \A i \in 1 .. Len(ServicesOf(place)) :
                        l[i] = AddService(l[i - 1], ServicesOf(place)[i])
<1> DEFINE svcs == ServicesOf(place)
           n == Len(svcs)
           F(f) == f = [i \in 0 .. n |-> IF i = 0 THEN list ELSE AddService(f[i - 1], svcs[i])]
           inv == [i \in 0 .. n |-> Seq(R)]
           step == [p \in (1 .. n) \X Seq(R) |-> AddService(p[2], svcs[p[1]])]
<1>1. n \in Nat /\ \A i \in 1 .. n : svcs[i] \in R
  OBVIOUS
<1> HIDE DEF svcs, n
<1>2. \A i \in 1 .. n : \A v \in Seq(R) : step[<<i, v>>] = AddService(v, svcs[i])
  OBVIOUS
<1>3. \A i \in 1 .. n : \A v \in Seq(R) : step[<<i, v>>] \in Seq(R)
  <2> HIDE DEF step
  <2> QED BY <1>1, <1>2, ServiceAdded
<1>i. \A i \in 0 .. n : inv[i] = Seq(R)
  OBVIOUS
<1>j. \A i \in 1 .. n : i \in 0 .. n /\ i - 1 \in 0 .. n /\ i # 0
  BY <1>1
<1> HIDE DEF step, inv
<1>4. PICK h : IsRun(h, n, list, step) /\ Within(h, n, inv)
  <2>1. Keeps(step, n, inv)
    BY <1>3, <1>i, <1>j DEF Keeps
  <2>2. list \in inv[0]
    BY <1>1, <1>i
  <2> QED BY <1>1, <2>1, <2>2, Iteration
<1>5. F(h)
  <2>1. \A i \in 0 .. n : i # 0 => i \in 1 .. n /\ h[i - 1] \in Seq(R)
    <3>1. \A i \in 0 .. n : i # 0 => i \in 1 .. n
      BY <1>1
    <3> QED BY <1>4, <1>i, <1>j, <3>1 DEF Within
  <2>2. \A i \in 0 .. n : (IF i = 0 THEN list ELSE step[<<i, h[i - 1]>>])
                            = IF i = 0 THEN list ELSE AddService(h[i - 1], svcs[i])
    BY <1>2, <2>1
  <2> QED BY <1>4, <2>2 DEF IsRun
<1> DEFINE l == CHOOSE f : F(f)
<1>6. F(l)
  <2> HIDE DEF F
  <2> QED BY <1>5
<1>7. AddSection(list, place) = l[n]
  BY DEF AddSection, svcs, n, ServicesOf
<1> HIDE DEF l
<1>8. l[0] = list /\ \A i \in 1 .. n : l[i] = AddService(l[i - 1], svcs[i])
  BY <1>1, <1>6
<1> QED BY <1>7, <1>8 DEF svcs, n

LEMMA SectionAdded ==
    ASSUME NEW R, NEW list \in Seq(R), NEW place, ServicesOf(place) \in Seq(R)
    PROVE  LET e == AddSection(list, place)
           IN  /\ e \in Seq(R) /\ KeysOf(list) \subseteq KeysOf(e)
               /\ KeysOf(ServicesOf(place)) \subseteq KeysOf(e)
<1> DEFINE svcs == ServicesOf(place)
           n == Len(svcs)
           with(i) == {e \in Seq(R) : /\ KeysOf(list) \subseteq KeysOf(e)
                                      /\ \A j \in 1 .. i : svcs[j].key \in KeysOf(e)}
           inv == [i \in 0 .. n |-> with(i)]
<1>1. n \in Nat /\ DOMAIN svcs = 1 .. n /\ \A i \in 1 .. n : svcs[i] \in R
  OBVIOUS
<1>2. PICK l : /\ l[0] = list /\ AddSection(list, place) = l[n]
               /\ \A i \in 1 .. n : l[i] = AddService(l[i - 1], svcs[i])
  BY InnerLoop
<1> HIDE DEF svcs, n
<1>3. \A i \in 1 .. n : i \in 0 .. n /\ i - 1 \in 0 .. n
  BY <1>1
<1>4. l[0] \in with(0)
  BY <1>2
<1>5. ASSUME NEW i \in 1 .. n, l[i - 1] \in with(i - 1) PROVE l[i] \in with(i)
  <2>1. /\ l[i] \in Seq(R) /\ KeysOf(l[i - 1]) \subseteq KeysOf(l[i])
        /\ svcs[i].key \in KeysOf(l[i])
    BY <1>1, <1>2, <1>5, ServiceAdded
  <2>2. 1 .. i = 1 .. i - 1 \cup {i}
    BY <1>1
  <2> QED BY <1>5, <2>1, <2>2
<1> HIDE DEF with
<1>6. \A i \in 0 .. n : inv[i] = with(i)
  OBVIOUS
<1>7. 0 \in 0 .. n /\ n \in 0 .. n
  BY <1>1
<1> HIDE DEF inv
<1>8. l[n] \in inv[n]
  <2>1. l[0] \in inv[0]
    BY <1>4, <1>6, <1>7
  <2>2. \A i \in 1 .. n : l[i - 1] \in inv[i - 1] => l[i] \in inv[i]
    BY <1>3, <1>5, <1>6
  <2> QED BY <1>1, <2>1, <2>2, LoopEndsWithin
<1>9. l[n] \in with(n)
  BY <1>6, <1>7, <1>8
<1>10. /\ l[n] \in Seq(R) /\ KeysOf(list) \subseteq KeysOf(l[n])
       /\ \A j \in 1 .. n : svcs[j].key \in KeysOf(l[n])
  BY <1>9 DEF with
<1>11. KeysOf(svcs) \subseteq KeysOf(l[n])
  BY <1>1, <1>10 DEF KeysOf
<1> QED BY <1>2, <1>10, <1>11 DEF svcs

LEMMA OuterLoop ==
    ASSUME NEW R, NEW places, Len(places) \in Nat,
           \A i \in 1 .. Len(places) : ServicesOf(places[i]) \in Seq(R)
    PROVE  \E l : /\ l[0] = <<>> /\ AddSections(places) = l[Len(places)]
                  /\ \A i \in 1 .. Len(places) : l[i] = AddSection(l[i - 1], places[i])
<1> DEFINE n == Len(places)
           F(f) == f = [i \in 0 .. n |-> IF i = 0 THEN <<>> ELSE AddSection(f[i - 1], places[i])]
           inv == [i \in 0 .. n |-> Seq(R)]
           step == [p \in (1 .. n) \X Seq(R) |-> AddSection(p[2], places[p[1]])]
<1> HIDE DEF n
<1>1. n \in Nat /\ \A i \in 1 .. n : ServicesOf(places[i]) \in Seq(R)
  BY DEF n
<1>2. \A i \in 1 .. n : \A v \in Seq(R) : step[<<i, v>>] = AddSection(v, places[i])
  OBVIOUS
<1>3. \A i \in 1 .. n : \A v \in Seq(R) : step[<<i, v>>] \in Seq(R)
  <2> HIDE DEF step
  <2> QED BY <1>1, <1>2, SectionAdded
<1>i. \A i \in 0 .. n : inv[i] = Seq(R)
  OBVIOUS
<1>j. \A i \in 1 .. n : i \in 0 .. n /\ i - 1 \in 0 .. n /\ i # 0
  BY <1>1
<1> HIDE DEF step, inv
<1>4. PICK h : IsRun(h, n, <<>>, step) /\ Within(h, n, inv)
  <2>1. Keeps(step, n, inv)
    BY <1>3, <1>i, <1>j DEF Keeps
  <2>2. <<>> \in inv[0]
    <3>1. <<>> \in Seq(R) /\ 0 \in 0 .. n
      BY <1>1
    <3> QED BY <1>i, <3>1
  <2> QED BY <1>1, <2>1, <2>2, Iteration
<1>5. F(h)
  <2>1. \A i \in 0 .. n : i # 0 => i \in 1 .. n /\ h[i - 1] \in Seq(R)
    <3>1. \A i \in 0 .. n : i # 0 => i \in 1 .. n
      BY <1>1
    <3> QED BY <1>4, <1>i, <1>j, <3>1 DEF Within
  <2>2. \A i \in 0 .. n : (IF i = 0 THEN <<>> ELSE step[<<i, h[i - 1]>>])
                            = IF i = 0 THEN <<>> ELSE AddSection(h[i - 1], places[i])
    BY <1>2, <2>1
  <2> QED BY <1>4, <2>2 DEF IsRun
<1> DEFINE l == CHOOSE f : F(f)
<1>6. F(l)
  <2> HIDE DEF F
  <2> QED BY <1>5
<1>7. AddSections(places) = l[n]
  BY DEF AddSections, n
<1> HIDE DEF l
<1>8. l[0] = <<>> /\ \A i \in 1 .. n : l[i] = AddSection(l[i - 1], places[i])
  BY <1>1, <1>6
<1> QED BY <1>7, <1>8 DEF n

(* Every service of every section that parses is listed, and no other.     *)
LEMMA SectionsListed ==
    ASSUME NEW R, NEW places, Len(places) \in Nat,
           \A i \in 1 .. Len(places) : ServicesOf(places[i]) \in Seq(R)
    PROVE  /\ AddSections(places) \in Seq(R)
           /\ \A i \in 1 .. Len(places) :
                 KeysOf(ServicesOf(places[i])) \subseteq KeysOf(AddSections(places))
<1> DEFINE n == Len(places)
           with(i) == {e \in Seq(R) : \A j \in 1 .. i :
                                        KeysOf(ServicesOf(places[j])) \subseteq KeysOf(e)}
           inv == [i \in 0 .. n |-> with(i)]
<1>1. PICK l : /\ l[0] = <<>> /\ AddSections(places) = l[n]
               /\ \A i \in 1 .. n : l[i] = AddSection(l[i - 1], places[i])
  BY OuterLoop
<1> HIDE DEF n
<1>2. n \in Nat /\ \A i \in 1 .. n : ServicesOf(places[i]) \in Seq(R)
  BY DEF n
<1>3. \A i \in 1 .. n : i \in 0 .. n /\ i - 1 \in 0 .. n
  BY <1>2
<1>4. l[0] \in with(0)
  BY <1>1
<1>5. ASSUME NEW i \in 1 .. n, l[i - 1] \in with(i - 1) PROVE l[i] \in with(i)
  <2>1. /\ l[i] \in Seq(R) /\ KeysOf(l[i - 1]) \subseteq KeysOf(l[i])
        /\ KeysOf(ServicesOf(places[i])) \subseteq KeysOf(l[i])
    BY <1>1, <1>2, <1>5, SectionAdded
  <2>2. 1 .. i = 1 .. i - 1 \cup {i}
    BY <1>2
  <2> QED BY <1>5, <2>1, <2>2
<1> HIDE DEF with
<1>6. \A i \in 0 .. n : inv[i] = with(i)
  OBVIOUS
<1>7. 0 \in 0 .. n /\ n \in 0 .. n
  BY <1>2
<1> HIDE DEF inv
<1>8. l[n] \in inv[n]
  <2>1. l[0] \in inv[0]
    BY <1>4, <1>6, <1>7
  <2>2. \A i \in 1 .. n : l[i - 1] \in inv[i - 1] => l[i] \in inv[i]
    BY <1>3, <1>5, <1>6
  <2> QED BY <1>2, <2>1, <2>2, LoopEndsWithin
<1>9. l[n] \in with(n)
  BY <1>6, <1>7, <1>8
<1> QED BY <1>1, <1>9 DEF with, n

-----------------------------------------------------------------------------
(* What the receiver has.                                                  *)

CopiesOf(m) == UNION {{s} \cup Damaged(s) : s \in Sdt[m]}
PlacesOf(m) == {<<>>} \cup {<<copy>> : copy \in CopiesOf(m)}
SentBy(m) ==
    {svc \in Services : \E s \in Sdt[m] : \E i \in DOMAIN s.services : svc = s.services[i]}

LEMMA CopyFacts ==
    ASSUME NEW m \in DOMAIN Sdt, NEW copy \in CopiesOf(m)
    PROVE  /\ copy.number \in Nat \cup {NoNumber} /\ copy.last \in Nat
           /\ copy.intact => copy \in Sdt[m]
           /\ ParseSdt(copy) \in Seq(SentBy(m))
<1>1. IsTable(Sdt[m]) /\ \A s \in Sdt[m] : \A c \in Damaged(s) : IsDamaged(c)
  BY ScanAssumption DEF ScanAssumption
<1>2. \A s \in Sdt[m] : /\ s.intact /\ s.services \in Seq(Services)
                         /\ s.number \in Nat /\ s.last \in Nat
  BY <1>1 DEF IsTable
<1>3. \A s \in Sdt[m] : s.services \in Seq(SentBy(m))
  <2> SUFFICES ASSUME NEW s \in Sdt[m] PROVE s.services \in Seq(SentBy(m))
    OBVIOUS
  <2>1. \A i \in DOMAIN s.services : s.services[i] \in SentBy(m)
    BY <1>2 DEF SentBy
  <2> QED BY <1>2, <2>1
<1>4. copy \in Sdt[m] \/ IsDamaged(copy)
  BY <1>1 DEF CopiesOf
<1>5. CASE copy \in Sdt[m]
  BY <1>2, <1>3, <1>5 DEF ParseSdt
<1>6. CASE IsDamaged(copy)
  BY <1>6 DEF IsDamaged, ParseSdt
<1> QED BY <1>4, <1>5, <1>6

(* No later copy has the number of the i-th.                               *)
Newest(a, i) == \A j \in i + 1 .. Len(a) : a[j].number # a[i].number

(* Each place holds the newest copy of its number, and none is missing.    *)
Gathers(m, c, a, l) ==
  /\ c \in Seq(PlacesOf(m)) /\ a \in Seq(CopiesOf(m))
  /\ l # NoNumber => \E i \in DOMAIN a : l = a[i].last
  /\ \A k \in DOMAIN c : c[k] # <<>> =>
        \E i \in DOMAIN a : c[k] = <<a[i]>> /\ a[i].number = k - 1
  /\ \A i \in DOMAIN a : Newest(a, i) =>
        a[i].number + 1 \in DOMAIN c /\ c[a[i].number + 1] = <<a[i]>>

LEMMA PlacesMade ==
    ASSUME NEW S, <<>> \in S, NEW c \in Seq(S), NEW n \in Nat
    PROVE  LET e == Places(c, n)
           IN  /\ e \in Seq(S) /\ Len(e) \in Nat /\ n < Len(e) /\ Len(c) <= Len(e)
               /\ \A i \in 1 .. Len(e) : e[i] = IF i <= Len(c) THEN c[i] ELSE <<>>
<1>1. CASE Len(c) > n
  BY <1>1 DEF Places
<1>2. CASE ~(Len(c) > n)
  <2> DEFINE e == [i \in 1 .. n + 1 |-> IF i <= Len(c) THEN c[i] ELSE <<>>]
  <2>1. Places(c, n) = e
    BY <1>2 DEF Places, PlacesResized
  <2>2. \A i \in 1 .. n + 1 : e[i] \in S
    OBVIOUS
  <2>3. e \in Seq(S) /\ Len(e) = n + 1
    <3> DEFINE at(i) == IF i <= Len(c) THEN c[i] ELSE <<>>
    <3>1. \A i \in 1 .. n + 1 : at(i) \in S
      OBVIOUS
    <3> HIDE DEF at
    <3>2. [i \in 1 .. n + 1 |-> at(i)] \in Seq(S) /\ Len([i \in 1 .. n + 1 |-> at(i)]) = n + 1
      BY <3>1
    <3> QED BY <3>2 DEF at
  <2> QED BY <1>2, <2>1, <2>3
<1> QED BY <1>1, <1>2

LEMMA GathersOne ==
    ASSUME NEW m \in DOMAIN Sdt, NEW c, NEW a, NEW l, Gathers(m, c, a, l),
           NEW copy \in CopiesOf(m), copy.number # NoNumber
    PROVE  Gathers(m, [Places(c, copy.number) EXCEPT ![copy.number + 1] = <<copy>>],
                   Append(a, copy), copy.last)
<1> DEFINE n == copy.number
           e == Places(c, n)
           d == [e EXCEPT ![n + 1] = <<copy>>]
           b == Append(a, copy)
<1>1. n \in Nat
  BY CopyFacts
<1>2. c \in Seq(PlacesOf(m)) /\ a \in Seq(CopiesOf(m))
  BY DEF Gathers
<1>3. /\ e \in Seq(PlacesOf(m)) /\ Len(e) \in Nat /\ n < Len(e) /\ Len(c) <= Len(e)
      /\ \A i \in 1 .. Len(e) : e[i] = IF i <= Len(c) THEN c[i] ELSE <<>>
  <2>1. <<>> \in PlacesOf(m)
    BY DEF PlacesOf
  <2> QED BY <1>1, <1>2, <2>1, PlacesMade
<1>4. <<copy>> \in PlacesOf(m)
  BY DEF PlacesOf
<1> HIDE DEF e
<1>5. /\ d \in Seq(PlacesOf(m)) /\ DOMAIN d = 1 .. Len(e)
      /\ d[n + 1] = <<copy>> /\ \A k \in 1 .. Len(e) : k # n + 1 => d[k] = e[k]
  <2>1. n + 1 \in 1 .. Len(e)
    BY <1>1, <1>3
  <2> QED BY <1>3, <1>4, <2>1, ExceptSeq
<1>6. /\ b \in Seq(CopiesOf(m)) /\ Len(b) = Len(a) + 1 /\ DOMAIN b = 1 .. Len(a) + 1
      /\ Len(a) \in Nat /\ DOMAIN a = 1 .. Len(a)
      /\ b[Len(a) + 1] = copy /\ \A i \in 1 .. Len(a) : b[i] = a[i]
  BY <1>2, AppendProperties
<1> HIDE DEF d, b, n
<1>7. \E i \in DOMAIN b : copy.last = b[i].last
  BY <1>6
<1>8. ASSUME NEW k \in DOMAIN d, d[k] # <<>>
      PROVE  \E i \in DOMAIN b : d[k] = <<b[i]>> /\ b[i].number = k - 1
  <2>1. CASE k = n + 1
    <3>1. Len(a) + 1 \in DOMAIN b /\ d[k] = <<b[Len(a) + 1]>>
      BY <1>5, <1>6, <2>1
    <3>2. b[Len(a) + 1].number = k - 1
      BY <1>1, <1>6, <2>1 DEF n
    <3> QED BY <3>1, <3>2
  <2>2. CASE k # n + 1
    <3>1. k \in DOMAIN c /\ d[k] = c[k]
      BY <1>2, <1>3, <1>5, <1>8, <2>2
    <3>2. PICK i \in DOMAIN a : c[k] = <<a[i]>> /\ a[i].number = k - 1
      BY <1>8, <3>1 DEF Gathers
    <3> QED BY <1>6, <3>1, <3>2
  <2> QED BY <2>1, <2>2
<1>9. ASSUME NEW i \in DOMAIN b, Newest(b, i)
      PROVE  b[i].number + 1 \in DOMAIN d /\ d[b[i].number + 1] = <<b[i]>>
  <2>1. CASE i = Len(a) + 1
    <3>1. b[i] = copy /\ b[i].number = n
      BY <1>6, <2>1 DEF n
    <3>2. n + 1 \in DOMAIN d
      BY <1>1, <1>3, <1>5
    <3> QED BY <1>5, <3>1, <3>2
  <2>2. CASE i # Len(a) + 1
    <3>1. i \in DOMAIN a /\ b[i] = a[i]
      BY <1>6, <2>2
    <3>2. Len(a) + 1 \in i + 1 .. Len(b)
      BY <1>6, <3>1
    <3>3. a[i].number # n
      BY <1>6, <1>9, <3>1, <3>2 DEF Newest, n
    <3>4. Newest(a, i)
      <4>1. \A j \in i + 1 .. Len(a) : j \in i + 1 .. Len(b) /\ b[j] = a[j]
        BY <1>6, <3>1
      <4> QED BY <1>9, <3>1, <4>1 DEF Newest
    <3>5. a[i].number + 1 \in DOMAIN c /\ c[a[i].number + 1] = <<a[i]>>
      BY <3>1, <3>4 DEF Gathers
    <3>6. a[i].number \in Nat \cup {NoNumber}
      BY <1>2, <3>1, CopyFacts
    <3>7. a[i].number + 1 # n + 1 /\ a[i].number + 1 \in 1 .. Len(c)
      BY <1>1, <1>2, <3>3, <3>5, <3>6 DEF NoNumber
    <3>8. d[a[i].number + 1] = c[a[i].number + 1] /\ a[i].number + 1 \in DOMAIN d
      <4> DEFINE k == a[i].number + 1
      <4>1. k \in 1 .. Len(c) /\ k # n + 1
        BY <3>7
      <4> HIDE DEF k
      <4>2. k \in 1 .. Len(e) /\ k <= Len(c)
        BY <1>2, <1>3, <4>1
      <4> QED BY <1>3, <1>5, <4>1, <4>2 DEF k
    <3> QED BY <3>1, <3>5, <3>8
  <2> QED BY <2>1, <2>2
<1> QED BY <1>5, <1>6, <1>7, <1>8, <1>9 DEF Gathers, d, b, n, e

(* What is listed from the places, and what a list has.                    *)
Heard(m) ==
    SentBy(m) \cup {[key |-> Programs[m][i], name |-> Placeholder(Programs[m][i])] :
                      i \in DOMAIN Programs[m]}

LEMMA ChannelsListed ==
    ASSUME NEW m \in DOMAIN Sdt, NEW places, Len(places) \in Nat,
           \A i \in 1 .. Len(places) : places[i] \in PlacesOf(m)
    PROVE  LET list == Channels(places, Programs[m])
           IN  /\ list \in Seq(Heard(m))
               /\ \A i \in 1 .. Len(places) :
                     KeysOf(ServicesOf(places[i])) \subseteq KeysOf(list)
<1> DEFINE added == AddSections(places)
<1>1. \A i \in 1 .. Len(places) : ServicesOf(places[i]) \in Seq(SentBy(m))
  <2> SUFFICES ASSUME NEW i \in 1 .. Len(places)
               PROVE  ServicesOf(places[i]) \in Seq(SentBy(m))
    OBVIOUS
  <2>1. CASE places[i] = <<>>
    BY <2>1 DEF ServicesOf
  <2>2. CASE places[i] # <<>>
    <3>1. PICK copy \in CopiesOf(m) : places[i] = <<copy>>
      BY <2>2 DEF PlacesOf
    <3> QED BY <2>2, <3>1, CopyFacts DEF ServicesOf
  <2> QED BY <2>1, <2>2
<1>2. /\ added \in Seq(SentBy(m))
      /\ \A i \in 1 .. Len(places) : KeysOf(ServicesOf(places[i])) \subseteq KeysOf(added)
  BY <1>1, SectionsListed
<1> HIDE DEF added
<1>3. CASE added # <<>>
  <2>1. Channels(places, Programs[m]) = added
    BY <1>3 DEF Channels, added
  <2>2. added \in Seq(Heard(m))
    BY <1>2 DEF Heard
  <2> QED BY <1>2, <2>1, <2>2
<1>4. CASE added = <<>>
  <2> DEFINE invented(i) == [key |-> Programs[m][i], name |-> Placeholder(Programs[m][i])]
  <2>1. Channels(places, Programs[m]) = [i \in DOMAIN Programs[m] |-> invented(i)]
    BY <1>4 DEF Channels, added
  <2>2. Programs[m] \in Seq(Keys)
    BY ScanAssumption DEF ScanAssumption
  <2>3. \A i \in 1 .. Len(Programs[m]) : invented(i) \in Heard(m)
    BY <2>2 DEF Heard
  <2>4. KeysOf(added) = {}
    BY <1>4 DEF KeysOf
  <2> HIDE DEF invented
  <2>5. [i \in DOMAIN Programs[m] |-> invented(i)] \in Seq(Heard(m))
    BY <2>2, <2>3
  <2> QED BY <1>2, <2>1, <2>4, <2>5
<1> QED BY <1>3, <1>4

LEMMA PlaceListed ==
    ASSUME NEW m \in DOMAIN Sdt, NEW places \in Seq(PlacesOf(m)), NEW k \in DOMAIN places
    PROVE  KeysOf(ServicesOf(places[k])) \subseteq KeysOf(Channels(places, Programs[m]))
<1>1. /\ Len(places) \in Nat /\ k \in 1 .. Len(places)
      /\ \A i \in 1 .. Len(places) : places[i] \in PlacesOf(m)
  OBVIOUS
<1>2. \A i \in 1 .. Len(places) :
         KeysOf(ServicesOf(places[i])) \subseteq KeysOf(Channels(places, Programs[m]))
  BY <1>1, ChannelsListed
<1> QED BY <1>1, <1>2

LEMMA HeardAreServices ==
    ASSUME NEW m \in DOMAIN Sdt
    PROVE  Heard(m) \subseteq Services
<1>1. Programs[m] \in Seq(Keys)
  BY ScanAssumption DEF ScanAssumption
<1>2. \A i \in DOMAIN Programs[m] : Programs[m][i] \in Keys
  BY <1>1
<1> QED BY <1>2 DEF Heard, SentBy, Services

-----------------------------------------------------------------------------
(* The invariant, from the receiver to the file.                           *)

PerScanner ==
  /\ DOMAIN mux = Scanners /\ DOMAIN mode = Scanners /\ DOMAIN phase = Scanners
  /\ DOMAIN collected = Scanners /\ DOMAIN last = Scanners /\ DOMAIN arrived = Scanners
  /\ DOMAIN found = Scanners /\ DOMAIN output = Scanners
  /\ DOMAIN replaced = Scanners /\ DOMAIN raced = Scanners

Receives(p) ==
  /\ mux[p] \in DOMAIN Sdt
  /\ mode[p] \in {"plain", "force", "merge", "add"}
  /\ Gathers(mux[p], collected[p], arrived[p], last[p])
  /\ found[p] \in Seq(Heard(mux[p]))

ReceiverInv == PerScanner /\ \A p \in Scanners : Receives(p)

LEMMA NothingGathered == \A m : Gathers(m, <<>>, <<>>, NoNumber)
<1> SUFFICES ASSUME NEW m PROVE Gathers(m, <<>>, <<>>, NoNumber)
  OBVIOUS
<1>1. <<>> \in Seq(PlacesOf(m)) /\ <<>> \in Seq(CopiesOf(m)) /\ DOMAIN <<>> = {}
  OBVIOUS
<1> QED BY <1>1 DEF Gathers

LEMMA ReceiverInit == Init => ReceiverInv
<1> SUFFICES ASSUME Init PROVE ReceiverInv
  OBVIOUS
<1>1. PerScanner
  BY DEF Init, PerScanner
<1>2. ASSUME NEW p \in Scanners PROVE Receives(p)
  <2>1. mux[p] \in DOMAIN Sdt /\ mode[p] \in {"plain", "force", "merge", "add"}
    BY DEF Init
  <2>2. collected[p] = <<>> /\ arrived[p] = <<>> /\ last[p] = NoNumber /\ found[p] = <<>>
    BY DEF Init
  <2> QED BY <2>1, <2>2, NothingGathered DEF Receives
<1> QED BY <1>1, <1>2 DEF ReceiverInv

LEMMA PerScannerStep == PerScanner /\ [Next]_vars => PerScanner'
<1> SUFFICES ASSUME PerScanner, [Next]_vars PROVE PerScanner'
  OBVIOUS
<1>1. CASE UNCHANGED vars
  BY <1>1 DEF PerScanner, vars, radio, disk
<1>2. ASSUME NEW p \in Scanners, NEW intact \in BOOLEAN, PatArrives(p, intact)
      PROVE  PerScanner'
  BY <1>2 DEF PatArrives, Goes, PerScanner, radio, disk
<1>3. ASSUME NEW p \in Scanners, NEW s, Hears(p, s) PROVE PerScanner'
  <2>1. ASSUME NEW copy, SdtArrives(p, copy) PROVE PerScanner'
    BY <2>1 DEF SdtArrives, PerScanner, disk
  <2>2. ASSUME NEW copy, ShortArrives(p, copy) PROVE PerScanner'
    BY <2>2 DEF ShortArrives, GetsList, ReaderGone, Goes, PerScanner, disk
  <2> QED BY <1>3, <2>1, <2>2 DEF Hears
<1>4. ASSUME NEW p \in Scanners, SdtComplete(p) PROVE PerScanner'
  BY <1>4 DEF SdtComplete, GetsList, ReaderGone, Goes, PerScanner, disk
<1>5. ASSUME NEW p \in Scanners, SdtTimeout(p) PROVE PerScanner'
  BY <1>5 DEF SdtTimeout, GetsList, ReaderGone, Goes, PerScanner, radio, disk
<1>6. ASSUME NEW p \in Scanners, Fails(p) \/ Kill(p) PROVE PerScanner'
  BY <1>6 DEF Fails, Kill, ReaderGone, Goes, PerScanner, disk
<1>7. ASSUME NEW p \in Scanners, LoadAndMerge(p) PROVE PerScanner'
  BY <1>7 DEF LoadAndMerge, Goes, PerScanner, radio, disk
<1>8. ASSUME NEW p \in Scanners, Guard(p) PROVE PerScanner'
  BY <1>8 DEF Guard, Goes, PerScanner, radio, disk
<1>9. ASSUME NEW p \in Scanners, Truncate(p) \/ Write(p) PROVE PerScanner'
  BY <1>9 DEF Truncate, Write, RaceWith, Goes, PerScanner, radio
<1> QED BY <1>1, <1>2, <1>3, <1>4, <1>5, <1>6, <1>7, <1>8, <1>9 DEF Next

(* A step of p leaves the receivers of the others alone, and its own it    *)
(* resets, fills by one copy, or turns into a list.                        *)
LEMMA ReceiverStep == ReceiverInv /\ [Next]_vars => ReceiverInv'
<1> SUFFICES ASSUME ReceiverInv, [Next]_vars PROVE ReceiverInv'
  OBVIOUS
<1>1. PerScanner /\ PerScanner' /\ \A p \in Scanners : Receives(p)
  BY PerScannerStep DEF ReceiverInv
<1> SUFFICES ASSUME NEW q \in Scanners PROVE Receives(q)'
  BY <1>1 DEF ReceiverInv
<1>2. Receives(q)
  BY <1>1
<1>3. ASSUME UNCHANGED <<mux, mode, radio, found>> PROVE Receives(q)'
  BY <1>2, <1>3 DEF Receives, radio
<1>4. ASSUME UNCHANGED <<mux, mode>>, collected'[q] = collected[q], last'[q] = last[q],
             arrived'[q] = arrived[q], found'[q] = found[q]
      PROVE  Receives(q)'
  BY <1>2, <1>4 DEF Receives
<1>5. ASSUME NEW p \in Scanners, UNCHANGED <<mux, mode, found>>, ReaderGone(p)
      PROVE  Receives(q)'
  <2>1. CASE q = p
    <3>1. collected'[q] = <<>> /\ arrived'[q] = <<>> /\ last'[q] = NoNumber
      BY <1>1, <1>5, <2>1 DEF ReaderGone, PerScanner
    <3> QED BY <1>2, <1>5, <3>1, NothingGathered DEF Receives
  <2>2. CASE q # p
    BY <1>1, <1>4, <1>5, <2>2 DEF ReaderGone, PerScanner
  <2> QED BY <2>1, <2>2
<1>6. ASSUME NEW p \in Scanners, NEW places, GetsList(p, places), UNCHANGED <<mux, mode>>,
             Len(places) \in Nat, \A i \in 1 .. Len(places) : places[i] \in PlacesOf(mux[p])
      PROVE  Receives(q)'
  <2>1. CASE q = p
    <3>1. /\ collected'[q] = <<>> /\ arrived'[q] = <<>> /\ last'[q] = NoNumber
          /\ found'[q] = Channels(places, Programs[mux[p]])
      BY <1>1, <1>6, <2>1 DEF GetsList, ReaderGone, PerScanner
    <3>2. found'[q] \in Seq(Heard(mux[p]))
      BY <1>2, <1>6, <2>1, <3>1, ChannelsListed DEF Receives
    <3> QED BY <1>2, <1>6, <2>1, <3>1, <3>2, NothingGathered DEF Receives
  <2>2. CASE q # p
    BY <1>1, <1>4, <1>6, <2>2 DEF GetsList, ReaderGone, PerScanner
  <2> QED BY <2>1, <2>2
<1>7. ASSUME NEW p \in Scanners, NEW s \in Sdt[mux[p]], Hears(p, s) PROVE Receives(q)'
  <2>1. PICK copy \in {s} \cup Damaged(s) : SdtArrives(p, copy) \/ ShortArrives(p, copy)
    BY <1>7 DEF Hears
  <2>2. copy \in CopiesOf(mux[p])
    BY DEF CopiesOf
  <2>3. CASE SdtArrives(p, copy)
    <3>1. CASE q = p
      <4>1. collected'[q] = [Places(collected[q], copy.number)
                               EXCEPT ![copy.number + 1] = <<copy>>]
        <5>1. collected' = [collected EXCEPT ![p] = [Places(collected[p], copy.number)
                               EXCEPT ![copy.number + 1] = <<copy>>]]
          BY <2>3 DEF SdtArrives
        <5> QED BY <1>1, <3>1, <5>1 DEF PerScanner
      <4>2. arrived'[q] = Append(arrived[q], copy) /\ last'[q] = copy.last
        BY <1>1, <2>3, <3>1 DEF SdtArrives, PerScanner
      <4>3. copy.number # NoNumber /\ UNCHANGED <<mux, mode, found>>
        BY <2>3 DEF SdtArrives
      <4>4. Gathers(mux[q], collected'[q], arrived'[q], last'[q])
        <5>1. /\ mux[q] \in DOMAIN Sdt /\ copy \in CopiesOf(mux[q])
              /\ Gathers(mux[q], collected[q], arrived[q], last[q])
          BY <1>2, <2>2, <3>1 DEF Receives
        <5>2. Gathers(mux[q], [Places(collected[q], copy.number)
                                 EXCEPT ![copy.number + 1] = <<copy>>],
                      Append(arrived[q], copy), copy.last)
          BY <4>3, <5>1, GathersOne
        <5> QED BY <4>1, <4>2, <5>2
      <4> QED BY <1>2, <4>3, <4>4 DEF Receives
    <3>2. CASE q # p
      BY <1>1, <1>4, <2>3, <3>2 DEF SdtArrives, PerScanner
    <3> QED BY <3>1, <3>2
  <2>4. CASE ShortArrives(p, copy)
    <3>1. Len(<<<<copy>>>>) = 1 /\ <<<<copy>>>>[1] \in PlacesOf(mux[p])
      BY <2>2 DEF PlacesOf
    <3> QED BY <1>6, <2>4, <3>1 DEF ShortArrives
  <2> QED BY <2>1, <2>3, <2>4
<1>8. ASSUME NEW p \in Scanners, GetsList(p, collected[p]), UNCHANGED <<mux, mode>>
      PROVE  Receives(q)'
  <2>1. collected[p] \in Seq(PlacesOf(mux[p]))
    BY <1>1 DEF Receives, Gathers
  <2> QED BY <1>6, <1>8, <2>1
<1>9. ASSUME NEW p \in Scanners, SdtComplete(p) \/ SdtTimeout(p) PROVE Receives(q)'
  BY <1>3, <1>8, <1>9 DEF SdtComplete, SdtTimeout
<1>10. ASSUME NEW p \in Scanners, Fails(p) \/ Kill(p) PROVE Receives(q)'
  BY <1>5, <1>10 DEF Fails, Kill
<1>11. ASSUME NEW p \in Scanners, NEW intact \in BOOLEAN,
              \/ PatArrives(p, intact) \/ LoadAndMerge(p) \/ Guard(p)
              \/ Truncate(p) \/ Write(p)
       PROVE  Receives(q)'
  BY <1>3, <1>11 DEF PatArrives, LoadAndMerge, Guard, Truncate, Write
<1>12. CASE UNCHANGED vars
  BY <1>3, <1>12 DEF vars
<1> QED BY <1>7, <1>9, <1>10, <1>11, <1>12 DEF Next

LEMMA ReceiverKept == Spec => []ReceiverInv
<1> QED BY ReceiverInit, ReceiverStep, PTL DEF Spec

(* Whatever reading of the SDT becomes a list, the newest copy of every    *)
(* section that arrived whole is in it: not a later section's damage nor   *)
(* the deadline loses its services.                                        *)
THEOREM ArrivedSectionsStay == Spec => SectionsKept
<1>1. ASSUME ReceiverInv, NEW p \in Scanners, SdtComplete(p) \/ SdtTimeout(p),
             NEW i \in DOMAIN arrived[p], arrived[p][i].intact, Newest(arrived[p], i)
      PROVE  KeysOf(arrived[p][i].services) \subseteq KeysOf(found'[p])
  <2> DEFINE m == mux[p]
             k == arrived[p][i].number + 1
  <2>1. /\ m \in DOMAIN Sdt /\ collected[p] \in Seq(PlacesOf(m)) /\ DOMAIN found = Scanners
        /\ k \in DOMAIN collected[p] /\ collected[p][k] = <<arrived[p][i]>>
    BY <1>1 DEF ReceiverInv, PerScanner, Receives, Gathers
  <2> HIDE DEF m, k
  <2>2. GetsList(p, collected[p])
    <3>1. ~\A j \in DOMAIN collected[p] : collected[p][j] = <<>>
      BY <2>1, FullPlace
    <3> QED BY <1>1, <3>1 DEF SdtComplete, SdtTimeout
  <2>3. found'[p] = Channels(collected[p], Programs[m])
    BY <2>1, <2>2 DEF GetsList, m
  <2>4. KeysOf(ServicesOf(collected[p][k])) \subseteq KeysOf(Channels(collected[p], Programs[m]))
    BY <2>1, PlaceListed
  <2>5. ServicesOf(collected[p][k]) = arrived[p][i].services
    BY <1>1, <2>1, FullPlace DEF ParseSdt
  <2> QED BY <2>3, <2>4, <2>5
<1>2. ReceiverInv =>
        \A p \in Scanners : SdtComplete(p) \/ SdtTimeout(p) =>
          \A i \in DOMAIN arrived[p] :
             /\ arrived[p][i].intact
             /\ \A j \in i + 1 .. Len(arrived[p]) : arrived[p][j].number # arrived[p][i].number
             => KeysOf(arrived[p][i].services) \subseteq KeysOf(found'[p])
  BY <1>1 DEF Newest
<1> QED BY <1>2, ReceiverKept, PTL DEF SectionsKept

(* A list made before the deadline, of one version's undamaged sections,   *)
(* is the whole of that version.                                           *)
THEOREM CompleteTablesAreWhole == Spec => TableComplete
<1>1. ASSUME ReceiverInv, NEW p \in Scanners, NEW v, SdtComplete(p),
             \A i \in DOMAIN arrived[p] : arrived[p][i].intact /\ arrived[p][i].version = v,
             NEW s \in Sdt[mux[p]], s.version = v
      PROVE  KeysOf(s.services) \subseteq KeysOf(found'[p])
  <2> DEFINE m == mux[p]
             a == arrived[p]
             c == collected[p]
             k == s.number + 1
  <2>1. /\ m \in DOMAIN Sdt /\ Gathers(m, c, a, last[p]) /\ DOMAIN found = Scanners
        /\ c \in Seq(PlacesOf(m)) /\ a \in Seq(CopiesOf(m))
    BY <1>1 DEF ReceiverInv, PerScanner, Receives, Gathers
  <2>2. \A i \in DOMAIN a : a[i] \in Sdt[m] /\ a[i].version = v
    <3>1. \A i \in DOMAIN a : a[i] \in CopiesOf(m)
      BY <2>1
    <3>2. \A i \in DOMAIN a : a[i].intact /\ a[i].version = v
      BY <1>1
    <3> HIDE DEF a, m
    <3> QED BY <2>1, <3>1, <3>2, CopyFacts
  <2>3. IsTable(Sdt[m])
    BY <2>1, ScanAssumption DEF ScanAssumption
  <2>4. Complete(p) /\ GetsList(p, c)
    BY <1>1 DEF SdtComplete
  <2>5. PICK i \in DOMAIN a : last[p] = a[i].last
    BY <2>1, <2>4 DEF Gathers, Complete
  <2>6. last[p] = s.last
    BY <1>1, <2>2, <2>3, <2>5 DEF IsTable, m
  <2>7. s.last \in Nat /\ s.number \in 0 .. s.last
    BY <2>3 DEF IsTable, m
  <2>8. k \in 1 .. last[p] + 1 /\ k \in DOMAIN c /\ c[k] # <<>>
    <3>1. k \in 1 .. last[p] + 1
      BY <2>6, <2>7
    <3>2. k \in 1 .. Len(c)
      BY <2>1, <2>4, <2>6, <2>7 DEF Complete
    <3> QED BY <2>1, <2>4, <3>1, <3>2 DEF Complete
  <2>9. PICK j \in DOMAIN a : c[k] = <<a[j]>> /\ a[j].number = k - 1
    BY <2>1, <2>8 DEF Gathers
  <2>10. a[j] = s
    <3>1. a[j].number = s.number
      BY <2>7, <2>9
    <3> QED BY <1>1, <2>2, <2>3, <2>9, <3>1 DEF IsTable, m
  <2>11. found'[p] = Channels(c, Programs[m])
    BY <2>1, <2>4 DEF GetsList
  <2> HIDE DEF m, a, c, k
  <2>12. KeysOf(ServicesOf(c[k])) \subseteq KeysOf(Channels(c, Programs[m]))
    BY <2>1, <2>8, PlaceListed
  <2>13. ServicesOf(c[k]) = s.services
    <3>1. s.intact
      BY <2>3 DEF IsTable, m
    <3> QED BY <2>9, <2>10, <3>1, FullPlace DEF ParseSdt
  <2> QED BY <2>11, <2>12, <2>13
<1>2. ReceiverInv =>
        \A p \in Scanners, v \in {s.version : s \in UNION {Sdt[m] : m \in DOMAIN Sdt}} :
          SdtComplete(p) /\ (\A i \in DOMAIN arrived[p] :
                                arrived[p][i].intact /\ arrived[p][i].version = v)
          => \A s \in Sdt[mux[p]] : s.version = v =>
                KeysOf(s.services) \subseteq KeysOf(found'[p])
  BY <1>1
<1> QED BY <1>2, ReceiverKept, PTL DEF TableComplete

-----------------------------------------------------------------------------
(* The file, and what is about to be written to it.                        *)

Documented(rec) ==
  OnFile(rec.key, rec.name) \/ (SentAs(rec.key, rec.name) /\ ~IsPlaceholder(rec.name))

Describes(d) == IsDocument(d) /\ \A i \in DOMAIN d : Documented(d[i])

Outputs(p) ==
  IF mode[p] \in {"merge", "add"} THEN Describes(output[p])
  ELSE output[p] \in Seq(Heard(mux[p]))

(* While p may truncate, what it has in memory covers the file, unless     *)
(* another wrote; from then on it covers what p truncated.                 *)
Covers(p) ==
  mode[p] # "force" /\ ~raced[p] =>
    /\ phase[p] = "ready" => DocumentKeys(file) \subseteq KeysOf(output[p])
    /\ phase[p] \in {"writing", "done"} => replaced[p] \subseteq KeysOf(output[p])

FileInv ==
  /\ file.kind = "document" => Describes(file.records)
  /\ \A p \in Scanners : Outputs(p) /\ Covers(p)

LEMMA EmptyDescribes == Describes(<<>>)
<1>1. <<>> \in Seq(Records(Strings)) /\ DOMAIN <<>> = {}
  OBVIOUS
<1> QED BY <1>1 DEF Describes, IsDocument

LEMMA FileInit == Init => FileInv
<1> SUFFICES ASSUME Init PROVE FileInv
  OBVIOUS
<1>1. file.kind = "document" => Describes(file.records)
  <2> SUFFICES ASSUME file.kind = "document" PROVE Describes(file.records)
    OBVIOUS
  <2>1. file \in StartFiles
    BY DEF Init
  <2>2. IsDocument(file.records)
    BY <2>1, ScanAssumption DEF ScanAssumption
  <2>3. \A i \in DOMAIN file.records : OnFile(file.records[i].key, file.records[i].name)
    BY <2>1 DEF OnFile
  <2> QED BY <2>2, <2>3 DEF Describes, Documented
<1>2. ASSUME NEW p \in Scanners PROVE Outputs(p) /\ Covers(p)
  <2>1. output[p] = <<>> /\ phase[p] = "pat"
    BY DEF Init
  <2>2. <<>> \in Seq(Heard(mux[p]))
    OBVIOUS
  <2> QED BY <2>1, <2>2, EmptyDescribes DEF Outputs, Covers
<1> QED BY <1>1, <1>2 DEF FileInv

(* A merge of what was heard into a document that Describes is one.        *)
LEMMA MergeDescribes ==
    ASSUME NEW m \in DOMAIN Sdt, NEW d, Describes(d), NEW list \in Seq(Heard(m)), NEW add
    PROVE  LET e == Merge(d, list, add).doc
           IN  Describes(e) /\ KeysOf(d) \subseteq KeysOf(e)
<1> DEFINE e == Merge(d, list, add).doc
<1>1. list \in Seq(Services)
  BY HeardAreServices
<1>2. /\ IsDocument(e) /\ KeysOf(d) \subseteq KeysOf(e)
      /\ \A i \in DOMAIN e : Comes(d, list, e[i])
  BY <1>1, MergeOfAny DEF Describes
<1> HIDE DEF e
<1>3. ASSUME NEW i \in DOMAIN e PROVE Documented(e[i])
  <2>1. CASE \E j \in DOMAIN d : d[j].key = e[i].key /\ d[j].name = e[i].name
    BY <2>1 DEF Describes, Documented
  <2>2. CASE \E j \in DOMAIN list :
               /\ list[j].key = e[i].key /\ list[j].name.base = e[i].name.base
               /\ ~IsPlaceholder(list[j].name) /\ ~IsPlaceholder(e[i].name)
    <3>1. PICK j \in DOMAIN list :
            /\ list[j].key = e[i].key /\ list[j].name.base = e[i].name.base
            /\ ~IsPlaceholder(list[j].name) /\ ~IsPlaceholder(e[i].name)
      BY <2>2
    <3>2. list[j] \in Heard(m)
      OBVIOUS
    <3>3. list[j] \in SentBy(m)
      BY <3>1, <3>2 DEF Heard, IsPlaceholder, Placeholder
    <3>4. SentAs(e[i].key, e[i].name)
      <4>1. PICK s \in Sdt[m] : \E k \in DOMAIN s.services : list[j] = s.services[k]
        BY <3>3 DEF SentBy
      <4>2. PICK k \in DOMAIN s.services : list[j] = s.services[k]
        BY <4>1
      <4>3. IsPlaceholder(s.services[k].name) = IsPlaceholder(e[i].name)
        BY <3>1, <4>2 DEF IsPlaceholder
      <4> QED BY <3>1, <4>2, <4>3 DEF SentAs
    <3> QED BY <3>1, <3>4 DEF Documented
  <2> QED BY <1>2, <2>1, <2>2 DEF Comes
<1> QED BY <1>2, <1>3 DEF Describes, e

LEMMA FileStep == ReceiverInv /\ FileInv /\ [Next]_vars => FileInv'
<1> SUFFICES ASSUME ReceiverInv, FileInv, [Next]_vars PROVE FileInv'
  OBVIOUS
<1>1. /\ PerScanner /\ \A q \in Scanners : Receives(q) /\ Outputs(q) /\ Covers(q)
      /\ file.kind = "document" => Describes(file.records)
  BY DEF ReceiverInv, FileInv
(* A step of the receiver leaves the file and the output, and who was to   *)
(* write is so still, or was killed.                                       *)
<1>2. ASSUME NEW p \in Scanners, UNCHANGED <<mux, mode, output, disk>>,
             \E to \in {"pat", "sdt", "found", "failed"} : Goes(p, to)
      PROVE  FileInv'
  <2>1. \A q \in Scanners : phase'[q] = phase[q] \/ phase'[q] \in {"pat", "sdt", "found", "failed"}
    BY <1>1, <1>2 DEF Goes, PerScanner
  <2>2. ASSUME NEW q \in Scanners PROVE Outputs(q)' /\ Covers(q)'
    <3>1. Outputs(q)'
      BY <1>1, <1>2 DEF Outputs
    <3>2. Covers(q)'
      BY <1>1, <1>2, <2>1 DEF Covers, disk
    <3> QED BY <3>1, <3>2
  <2> QED BY <1>1, <1>2, <2>2 DEF FileInv, disk
<1>3. CASE UNCHANGED <<mux, mode, phase, output, disk>>
  <2>1. ASSUME NEW q \in Scanners PROVE Outputs(q)' /\ Covers(q)'
    BY <1>1, <1>3 DEF Outputs, Covers, disk
  <2> QED BY <1>1, <1>3, <2>1 DEF FileInv, disk
(* A step that makes the output of p leaves the file, and the output is    *)
(* good if p is to write it.                                               *)
<1>4. ASSUME NEW p \in Scanners, UNCHANGED <<mux, mode, disk>>, NEW out,
             output' = [output EXCEPT ![p] = out],
             IF mode[p] \in {"merge", "add"} THEN Describes(out) ELSE out \in Seq(Heard(mux[p])),
             \/ Goes(p, "failed")
             \/ Goes(p, "ready") /\ (mode[p] # "force" => DocumentKeys(file) \subseteq KeysOf(out))
      PROVE  FileInv'
  <2>1. ASSUME NEW q \in Scanners PROVE Outputs(q)' /\ Covers(q)'
    <3>1. CASE q = p
      <4>1. output'[q] = out
        BY <1>1, <1>4, <3>1 DEF PerScanner
      <4>2. Outputs(q)'
        BY <1>4, <3>1, <4>1 DEF Outputs
      <4>3. \/ phase'[q] = "failed"
            \/ phase'[q] = "ready" /\ (mode[p] # "force" => DocumentKeys(file) \subseteq KeysOf(out))
        BY <1>1, <1>4, <3>1 DEF Goes, PerScanner
      <4>4. Covers(q)'
        BY <1>4, <3>1, <4>1, <4>3 DEF Covers, disk
      <4> QED BY <4>2, <4>4
    <3>2. CASE q # p
      <4>1. output'[q] = output[q] /\ phase'[q] = phase[q]
        BY <1>1, <1>4, <3>2 DEF PerScanner, Goes
      <4>2. Outputs(q)'
        BY <1>1, <1>4, <4>1 DEF Outputs
      <4>3. Covers(q)'
        BY <1>1, <1>4, <4>1 DEF Covers, disk
      <4> QED BY <4>2, <4>3
    <3> QED BY <3>1, <3>2
  <2> QED BY <1>1, <1>4, <2>1 DEF FileInv, disk
<1>5. ASSUME NEW p \in Scanners, LoadAndMerge(p) PROVE FileInv'
  <2> DEFINE e == Merge(file.records, found[p], mode[p] = "add").doc
  <2>1. CASE Loads(file)
    <3>1. Describes(file.records)
      BY <1>1, <2>1, EmptyDescribes DEF Loads
    <3>2. Describes(e) /\ KeysOf(file.records) \subseteq KeysOf(e)
      BY <1>1, <3>1, MergeDescribes DEF Receives
    <3>3. DocumentKeys(file) \subseteq KeysOf(e)
      BY <3>2 DEF DocumentKeys
    <3>4. /\ output' = [output EXCEPT ![p] = e] /\ Goes(p, "ready")
          /\ UNCHANGED <<mux, mode, disk>> /\ mode[p] \in {"merge", "add"}
      BY <1>5, <2>1 DEF LoadAndMerge
    <3> HIDE DEF e
    <3> QED BY <1>4, <3>2, <3>3, <3>4
  <2>2. CASE ~Loads(file)
    BY <1>2, <1>5, <2>2 DEF LoadAndMerge
  <2> QED BY <2>1, <2>2
<1>6. ASSUME NEW p \in Scanners, Guard(p) PROVE FileInv'
  <2>1. /\ output' = [output EXCEPT ![p] = found[p]] /\ UNCHANGED <<mux, mode, disk>>
        /\ mode[p] \in {"plain", "force"}
        /\ Goes(p, IF mode[p] = "plain" /\ Loads(file) THEN "failed" ELSE "ready")
    BY <1>6 DEF Guard
  <2>2. found[p] \in Seq(Heard(mux[p]))
    BY <1>1 DEF Receives
  <2>3. ~Loads(file) => DocumentKeys(file) = {}
    BY DEF Loads, DocumentKeys
  <2>4. \/ Goes(p, "failed")
        \/ Goes(p, "ready") /\ (mode[p] # "force" => DocumentKeys(file) \subseteq KeysOf(found[p]))
    BY <2>1, <2>3
  <2>5. ~(mode[p] \in {"merge", "add"})
    BY <2>1
  <2> QED BY <1>4, <2>1, <2>2, <2>4, <2>5
(* A step that changes the file: those who were to write it have raced.    *)
<1>7. ASSUME NEW p \in Scanners, NEW q \in Scanners, q # p, RaceWith(p),
             UNCHANGED <<mux, mode, output>>, phase'[q] = phase[q], replaced'[q] = replaced[q]
      PROVE  Outputs(q)' /\ Covers(q)'
  <2>1. Outputs(q)'
    BY <1>1, <1>7 DEF Outputs
  <2>2. raced'[q] = (raced[q] \/ (q # p /\ phase[q] \in {"ready", "writing"}))
    BY <1>7 DEF RaceWith
  <2>3. ~raced'[q] => ~raced[q] /\ phase[q] \notin {"ready", "writing"}
    BY <1>7, <2>2, Zenon
  <2>4. Covers(q)'
    BY <1>1, <1>7, <2>3 DEF Covers
  <2> QED BY <2>1, <2>4
<1>8. ASSUME NEW p \in Scanners, Truncate(p) PROVE FileInv'
  <2>1. file'.kind = "empty"
    BY <1>8 DEF Truncate
  <2>2. ASSUME NEW q \in Scanners PROVE Outputs(q)' /\ Covers(q)'
    <3>1. CASE q = p
      <4>1. /\ phase'[q] = "writing" /\ replaced'[q] = DocumentKeys(file)
            /\ phase[q] = "ready" /\ UNCHANGED <<mux, mode, output>>
        BY <1>1, <1>8, <3>1 DEF Truncate, Goes, PerScanner
      <4>2. raced'[q] = (raced[q] \/ (q # p /\ phase[q] \in {"ready", "writing"}))
        BY <1>8 DEF Truncate, RaceWith
      <4>3. ~raced'[q] => ~raced[q]
        BY <4>2, Zenon
      <4>4. Outputs(q)'
        BY <1>1, <4>1 DEF Outputs
      <4>5. Covers(q)'
        BY <1>1, <4>1, <4>3 DEF Covers
      <4> QED BY <4>4, <4>5
    <3>2. CASE q # p
      <4>1. phase'[q] = phase[q] /\ replaced'[q] = replaced[q]
        BY <1>1, <1>8, <3>2 DEF Truncate, Goes, PerScanner
      <4> QED BY <1>7, <1>8, <3>2, <4>1 DEF Truncate
    <3> QED BY <3>1, <3>2
  <2> QED BY <2>1, <2>2 DEF FileInv
<1>9. ASSUME NEW p \in Scanners, Write(p) PROVE FileInv'
  <2>1. file'.kind = "document" => Describes(file'.records)
    <3> SUFFICES ASSUME file'.kind = "document" PROVE Describes(file'.records)
      OBVIOUS
    <3>1. mode[p] \in {"merge", "add"} /\ file'.records = output[p]
      BY <1>9 DEF Write
    <3> QED BY <1>1, <3>1 DEF Outputs
  <2>2. ASSUME NEW q \in Scanners PROVE Outputs(q)' /\ Covers(q)'
    <3>1. CASE q = p
      <4>1. /\ phase'[q] = "done" /\ phase[q] = "writing"
            /\ UNCHANGED <<mux, mode, output, replaced>>
        BY <1>1, <1>9, <3>1 DEF Write, Goes, PerScanner
      <4>2. raced'[q] = (raced[q] \/ (q # p /\ phase[q] \in {"ready", "writing"}))
        BY <1>9 DEF Write, RaceWith
      <4>3. ~raced'[q] => ~raced[q]
        BY <4>2, Zenon
      <4>4. Outputs(q)'
        BY <1>1, <4>1 DEF Outputs
      <4>5. Covers(q)'
        BY <1>1, <4>1, <4>3 DEF Covers
      <4> QED BY <4>4, <4>5
    <3>2. CASE q # p
      <4>1. phase'[q] = phase[q] /\ replaced'[q] = replaced[q]
        BY <1>1, <1>9, <3>2 DEF Write, Goes, PerScanner
      <4> QED BY <1>7, <1>9, <3>2, <4>1 DEF Write
    <3> QED BY <3>1, <3>2
  <2> QED BY <2>1, <2>2 DEF FileInv
<1>10. ASSUME NEW p \in Scanners, NEW s, Hears(p, s) PROVE FileInv'
  <2>1. ASSUME NEW copy, SdtArrives(p, copy) PROVE FileInv'
    BY <1>3, <2>1 DEF SdtArrives
  <2>2. ASSUME NEW copy, ShortArrives(p, copy) PROVE FileInv'
    BY <1>2, <2>2 DEF ShortArrives, GetsList
  <2> QED BY <1>10, <2>1, <2>2 DEF Hears
<1>11. ASSUME NEW p \in Scanners, NEW intact \in BOOLEAN, PatArrives(p, intact)
       PROVE  FileInv'
  BY <1>2, <1>11 DEF PatArrives
<1>12. ASSUME NEW p \in Scanners, SdtComplete(p) \/ SdtTimeout(p) \/ Fails(p) \/ Kill(p)
       PROVE  FileInv'
  <2>1. UNCHANGED <<mux, mode, output, disk>>
    BY <1>12 DEF SdtComplete, SdtTimeout, Fails, Kill
  <2>2. Goes(p, "found") \/ Goes(p, "failed")
    BY <1>12 DEF SdtComplete, SdtTimeout, Fails, Kill, GetsList
  <2> QED BY <1>2, <2>1, <2>2
<1>13. CASE UNCHANGED vars
  BY <1>3, <1>13 DEF vars
<1> QED BY <1>5, <1>6, <1>8, <1>9, <1>10, <1>11, <1>12, <1>13 DEF Next

LEMMA FileKept == Spec => [](ReceiverInv /\ FileInv)
<1>1. Init => ReceiverInv /\ FileInv
  BY ReceiverInit, FileInit
<1>2. ReceiverInv /\ FileInv /\ [Next]_vars => (ReceiverInv /\ FileInv)'
  BY ReceiverStep, FileStep
<1> QED BY <1>1, <1>2, PTL DEF Spec

(* No scan that was not forced writes a document without a service of the  *)
(* one it truncated, unless another wrote since it read.                   *)
THEOREM NothingIsLost == Spec => []NothingLostUnraced
<1>1. FileInv => NothingLostUnraced
  BY DEF FileInv, Covers, NothingLostUnraced
<1> QED BY <1>1, FileKept, PTL

(* Whatever the damage on the air, the other scanners and what the file    *)
(* held, no list names a service as nothing ever named it.                 *)
THEOREM ListsStayBroadcast == Spec => []ListIsBroadcast
<1>1. ASSUME ReceiverInv, FileInv, NEW p \in Scanners, NEW i \in DOMAIN output[p],
             ~(mode[p] \in {"merge", "add"})
      PROVE  LET rec == output[p][i]
             IN  \/ SentAs(rec.key, rec.name)
                 \/ /\ \E j \in DOMAIN Programs[mux[p]] : rec.key = Programs[mux[p]][j]
                    /\ rec.name = Placeholder(rec.key)
  <2> DEFINE rec == output[p][i]
             m == mux[p]
  <2>1. rec \in Heard(m) /\ m \in DOMAIN Sdt
    <3>1. output[p] \in Seq(Heard(m))
      BY <1>1 DEF FileInv, Outputs
    <3>2. m \in DOMAIN Sdt
      BY <1>1 DEF ReceiverInv, Receives
    <3> QED BY <1>1, <3>1, <3>2
  <2> HIDE DEF rec
  <2>2. CASE rec \in SentBy(m)
    <3>1. PICK s \in Sdt[m] : \E k \in DOMAIN s.services : rec = s.services[k]
      BY <2>2 DEF SentBy
    <3>2. SentAs(rec.key, rec.name)
      BY <2>1, <3>1 DEF SentAs
    <3> QED BY <3>2 DEF rec
  <2>3. CASE rec \notin SentBy(m)
    <3>1. PICK j \in DOMAIN Programs[m] :
             rec = [key |-> Programs[m][j], name |-> Placeholder(Programs[m][j])]
      BY <2>1, <2>3 DEF Heard
    <3>2. rec.key = Programs[m][j] /\ rec.name = Placeholder(rec.key)
      BY <3>1
    <3> QED BY <3>2 DEF rec, m
  <2> QED BY <2>2, <2>3 DEF rec
<1>2. ReceiverInv /\ FileInv => ListIsBroadcast
  BY <1>1 DEF ListIsBroadcast, FileInv, Outputs, Describes, Documented
<1> QED BY <1>2, FileKept, PTL
=============================================================================
