------------------------------- MODULE Induction -------------------------------
(***************************************************************************)
(* Induction for the proofs about loops over lists and sets.  A predicate  *)
(* is given as the set of those it holds of, so that the provers need no   *)
(* operator for it.                                                        *)
(***************************************************************************)
EXTENDS Integers, FiniteSetTheorems, TLAPS

(* The initial segment of a number tells it apart from the lesser ones.    *)
LEMMA Segments ==
    ASSUME NEW x \in Nat, NEW y \in Nat, y < x
    PROVE  1 .. y \subseteq 1 .. x /\ 1 .. y # 1 .. x
<1>1. x \in 1 .. x /\ x \notin 1 .. y
  OBVIOUS
<1> QED BY <1>1

(* Every set of numbers has a least one.                                   *)
LEMMA LeastElement ==
    ASSUME NEW T, T \subseteq Nat, T # {}
    PROVE  \E x \in T : \A y \in T : x <= y
<1> DEFINE Up == {1 .. x : x \in T}
<1>1. Up \subseteq FiniteSubsetsOf(Nat) /\ Up # {}
  <2>1. ASSUME NEW x \in T PROVE 1 .. x \subseteq Nat /\ IsFiniteSet(1 .. x)
    BY FS_Interval
  <2> QED BY <2>1 DEF FiniteSubsetsOf
<1>2. IsWellFoundedOn(StrictSubsetOrdering(Nat), FiniteSubsetsOf(Nat))
  BY FS_StrictSubsetOrderingWellFounded
<1>3. PICK m \in Up : \A u \in Up : <<u, m>> \notin StrictSubsetOrdering(Nat)
  <2> HIDE DEF Up
  <2> QED BY <1>1, <1>2, WFMin, Zenon
<1>4. PICK x \in T : m = 1 .. x
  OBVIOUS
<1>5. ASSUME NEW y \in T, ~(x <= y) PROVE FALSE
  <2>1. 1 .. y \in Up /\ 1 .. x \subseteq Nat /\ 1 .. y \subseteq Nat
    OBVIOUS
  <2>2. <<1 .. y, m>> \in StrictSubsetOrdering(Nat)
    BY <2>1, <1>4, <1>5, Segments DEF StrictSubsetOrdering
  <2> QED BY <2>1, <2>2, <1>3
<1> QED BY <1>5

(* What holds of 0 and with each number of the next holds of all.          *)
LEMMA Induct ==
    ASSUME NEW S, 0 \in S, \A n \in Nat : n \in S => n + 1 \in S
    PROVE  Nat \subseteq S
<1> SUFFICES ASSUME Nat \ S # {} PROVE FALSE
  OBVIOUS
<1>1. PICK x \in Nat \ S : \A y \in Nat \ S : x <= y
  BY LeastElement
<1>2. x # 0 /\ x - 1 \in Nat
  <2>1. x # 0
    BY <1>1
  <2> QED BY <2>1
<1>3. x - 1 \in S
  BY <1>1, <1>2
<1>4. (x - 1) + 1 \in S
  BY <1>2, <1>3
<1> QED BY <1>1, <1>4

(* A loop of n steps from e: the i-th takes a value to step[<<i, value>>], *)
(* and inv[i] is the set of the values an invariant allows after i steps.  *)
IsRun(h, n, e, step) ==
  h = [i \in 0 .. n |-> IF i = 0 THEN e ELSE step[<<i, h[i - 1]>>]]
Keeps(step, n, inv) ==
  \A i \in 1 .. n : \A v \in inv[i - 1] : step[<<i, v>>] \in inv[i]
Within(h, n, inv) == \A i \in 0 .. n : h[i] \in inv[i]

(* There are the values the loop goes through, and the invariant holds of  *)
(* them.                                                                   *)
LEMMA Iteration ==
    ASSUME NEW n \in Nat, NEW inv, NEW e \in inv[0], NEW step, Keeps(step, n, inv)
    PROVE  \E h : IsRun(h, n, e, step) /\ Within(h, n, inv)
<1>0. \A i \in 1 .. n : \A v \in inv[i - 1] : step[<<i, v>>] \in inv[i]
  BY DEF Keeps
<1> DEFINE Goes(h, k) ==
             /\ h = [i \in 0 .. k |-> IF i = 0 THEN e ELSE step[<<i, h[i - 1]>>]]
             /\ \A i \in 0 .. k : h[i] \in inv[i]
           S == {k \in Nat : k <= n => \E h : Goes(h, k)}
<1>1. 0 \in S
  <2>1. Goes([i \in 0 .. 0 |-> e], 0)
    OBVIOUS
  <2> QED BY <2>1
<1>2. ASSUME NEW k \in Nat, k \in S PROVE k + 1 \in S
  <2> SUFFICES ASSUME k + 1 <= n PROVE \E h : Goes(h, k + 1)
    OBVIOUS
  <2>1. PICK h : Goes(h, k)
    BY <1>2
  <2> DEFINE g == [i \in 0 .. k + 1 |-> IF i = k + 1 THEN step[<<k + 1, h[k]>>] ELSE h[i]]
  <2>2. \A i \in 0 .. k : h[i] = IF i = 0 THEN e ELSE step[<<i, h[i - 1]>>]
    BY <2>1
  <2>3. \A i \in 0 .. k + 1 : g[i] = IF i = 0 THEN e ELSE step[<<i, g[i - 1]>>]
    <3>1. \A i \in 0 .. k : g[i] = h[i]
      OBVIOUS
    <3>2. g[k + 1] = step[<<k + 1, h[k]>>]
      OBVIOUS
    <3> SUFFICES ASSUME NEW i \in 0 .. k + 1
                 PROVE  g[i] = IF i = 0 THEN e ELSE step[<<i, g[i - 1]>>]
      OBVIOUS
    <3> HIDE DEF g
    <3>3. CASE i = k + 1
      <4>1. g[i - 1] = h[k] /\ i # 0
        BY <3>1, <3>3
      <4> QED BY <3>2, <3>3, <4>1
    <3>4. CASE i = 0
      <4>1. 0 \in 0 .. k
        OBVIOUS
      <4>2. g[0] = h[0] /\ h[0] = e
        BY <4>1, <3>1, <2>2, Zenon
      <4> QED BY <3>4, <4>2
    <3>5. CASE i \in 1 .. k
      <4>1. g[i] = h[i] /\ g[i - 1] = h[i - 1]
        BY <3>1, <3>5
      <4>2. h[i] = step[<<i, h[i - 1]>>]
        BY <3>5, <2>2
      <4> QED BY <3>5, <4>1, <4>2
    <3> QED BY <3>3, <3>4, <3>5
  <2>4. g = [i \in 0 .. k + 1 |-> IF i = 0 THEN e ELSE step[<<i, g[i - 1]>>]]
    <3> DEFINE f == [i \in 0 .. k + 1 |-> g[i]]
    <3>1. g = f
      OBVIOUS
    <3>2. f = [i \in 0 .. k + 1 |-> IF i = 0 THEN e ELSE step[<<i, g[i - 1]>>]]
      BY <2>3, Zenon
    <3> QED BY <3>1, <3>2
  <2>5. \A i \in 0 .. k + 1 : g[i] \in inv[i]
    <3>1. h[k] \in inv[k] /\ k = (k + 1) - 1 /\ k + 1 \in 1 .. n
      BY <2>1
    <3>2. step[<<k + 1, h[k]>>] \in inv[k + 1]
      BY <1>0, <3>1
    <3> QED BY <3>2, <2>1
  <2> QED BY <2>4, <2>5
<1>3. n \in S
  <2> HIDE DEF S
  <2> QED BY <1>1, <1>2, Induct
<1> QED BY <1>3 DEF IsRun, Within
=============================================================================
