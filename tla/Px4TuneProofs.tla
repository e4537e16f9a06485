----------------------------- MODULE Px4TuneProofs -----------------------------
(***************************************************************************)
(* The px4 backend for every packet size, stream, placement of stray sync  *)
(* bytes and way the reads cut them: the filter's invariants, and that a   *)
(* command tunes the channel it was given and stops what it started.       *)
(***************************************************************************)
EXTENDS Px4Tune, TLAPS

LEMMA Product ==
    ASSUME NEW i \in Nat
    PROVE  PacketSize * i \in Nat /\ i <= PacketSize * i
BY PidFilterAssumption DEF PidFilterAssumption

LEMMA Products ==
    ASSUME NEW i \in Nat, NEW j \in Nat
    PROVE  /\ PacketSize * (i + j) = PacketSize * i + PacketSize * j
           /\ i < j => PacketSize * i + PacketSize <= PacketSize * j
           /\ PacketSize * i < PacketSize * j => i < j
<1> USE PidFilterAssumption DEF PidFilterAssumption
<1>1. PacketSize * i \in Nat /\ i <= PacketSize * i
  BY Product
<1>2. PacketSize * (i + j) = PacketSize * i + PacketSize * j
  OBVIOUS
<1>3. ASSUME i < j PROVE PacketSize * i + PacketSize <= PacketSize * j
  <2>1. PICK d \in Nat : j = i + 1 + d
    <3>1. j - (i + 1) \in Nat /\ j = i + 1 + (j - (i + 1))
      BY <1>3
    <3> QED BY <3>1
  <2>2. PacketSize * j = PacketSize * i + PacketSize + PacketSize * d
    BY <2>1
  <2>3. PacketSize * d \in Nat
    OBVIOUS
  <2> QED BY <2>2, <2>3, <1>1
<1>4. ASSUME PacketSize * i < PacketSize * j, ~(i < j) PROVE FALSE
  <2>1. PICK d \in Nat : i = j + d
    <3>1. i - j \in Nat /\ i = j + (i - j)
      BY <1>4
    <3> QED BY <3>1
  <2>2. PacketSize * i = PacketSize * j + PacketSize * d
    BY <2>1
  <2>3. PacketSize * d \in Nat /\ PacketSize * j \in Nat
    OBVIOUS
  <2> QED BY <2>2, <2>3, <1>4
<1> QED BY <1>2, <1>3, <1>4

(* A packet start is a packet start any number of packets on.              *)
LEMMA AlignedOn ==
    ASSUME NEW p \in Nat, Aligned(p), NEW n \in Nat
    PROVE  Aligned(p + PacketSize * n)
<1>1. PICK i \in 0 .. p : p = PacketSize * i
  BY DEF Aligned
<1>2. p + PacketSize * n = PacketSize * (i + n)
  BY <1>1, Products
<1>3. PacketSize * (i + n) \in Nat /\ i + n <= PacketSize * (i + n)
  <2>1. i + n \in Nat
    OBVIOUS
  <2> QED BY <2>1, Product
<1>4. i + n \in 0 .. p + PacketSize * n
  BY <1>2, <1>3
<1> QED BY <1>2, <1>4 DEF Aligned

(* Every distance is some packets and less than one.                       *)
LEMMA Divide ==
    ASSUME NEW x \in Nat
    PROVE  \E j \in Nat : PacketSize * j <= x /\ x < PacketSize * j + PacketSize
<1> DEFINE j == x \div PacketSize
<1>1. j \in Nat /\ PacketSize * j <= x /\ x < PacketSize * j + PacketSize
  BY PidFilterAssumption, SMTT(60) DEF PidFilterAssumption
<1> QED BY <1>1

-----------------------------------------------------------------------------
(* What a batch of packets does to the carry.                              *)
LEMMA Batch ==
    ASSUME NEW from \in Nat, NEW t \in Nat, from <= t, windows \subseteq Nat,
           Consume(from, t)
    PROVE  /\ front' \in Nat /\ from <= front' /\ front' <= t
           /\ t - PacketSize < front'
           /\ windows \subseteq windows' /\ windows' \subseteq Nat
           /\ from \in Nat /\ Aligned(from) => Aligned(front')
           /\ \A p \in from .. front' : p < front' =>
                 \E w \in windows' : w <= p /\ p < w + PacketSize
<1>1. PICK n \in 0 .. t - from :
        /\ PacketSize * n <= t - from /\ t - from < PacketSize * n + PacketSize
        /\ front' = from + PacketSize * n
        /\ windows' = windows \cup {from + PacketSize * i : i \in 0 .. n - 1}
  BY DEF Consume
<1>2. n \in Nat /\ PacketSize * n \in Nat
  <2>1. n \in Nat
    OBVIOUS
  <2> QED BY <2>1, Product
<1>3. front' \in Nat /\ from <= front' /\ front' <= t /\ t - PacketSize < front'
  BY <1>1, <1>2, PidFilterAssumption DEF PidFilterAssumption
<1>4. windows \subseteq windows' /\ windows' \subseteq Nat
  <2>1. ASSUME NEW i \in 0 .. n - 1 PROVE from + PacketSize * i \in Nat
    <3>1. i \in Nat
      OBVIOUS
    <3> QED BY <3>1, Product
  <2> QED BY <1>1, <2>1
<1>5. Aligned(from) => Aligned(front')
  BY <1>1, AlignedOn
<1>6. ASSUME NEW p \in from .. front', p < front'
      PROVE  \E w \in windows' : w <= p /\ p < w + PacketSize
  <2>1. p - from \in Nat /\ p \in Nat
    BY <1>3
  <2>2. PICK j \in Nat :
          PacketSize * j <= p - from /\ p - from < PacketSize * j + PacketSize
    BY <2>1, Divide
  <2>3. PacketSize * j \in Nat
    BY Product
  <2>4. PacketSize * j < PacketSize * n
    <3>1. p < from + PacketSize * n
      BY <1>1, <1>6
    <3> QED BY <1>2, <2>1, <2>2, <2>3, <3>1
  <2>5. j \in 0 .. n - 1
    BY <1>2, <2>4, Products
  <2>6. from + PacketSize * j \in windows'
    BY <1>1, <2>5
  <2>7. from + PacketSize * j <= p /\ p < from + PacketSize * j + PacketSize
    BY <2>1, <2>2, <2>3, PidFilterAssumption DEF PidFilterAssumption
  <2> QED BY <2>6, <2>7
<1> QED BY <1>3, <1>4, <1>5, <1>6

(* One read: nothing is passed over on the way to where the carry starts.  *)
LEMMA IngestStep ==
    ASSUME FilterTypeOK, CarryBounded, NEW t \in Nat, back < t, Ingest(t)
    PROVE  /\ front' \in Nat /\ front <= front' /\ front' <= t
           /\ t - PacketSize <= front'
           /\ windows \subseteq windows' /\ windows' \subseteq Nat
           /\ Aligned(front) => Aligned(front')
           /\ \A p \in front .. front' : p < front' /\ Aligned(p) =>
                 \E w \in windows' : w <= p /\ p < w + PacketSize
<1> USE PidFilterAssumption DEF PidFilterAssumption, FilterTypeOK, CarryBounded
<1>1. CASE Looks(front) /\ Consume(front, t)
  <2>1. front \in Nat /\ front <= t /\ windows \subseteq Nat
    OBVIOUS
  <2> QED BY <1>1, <2>1, Batch
<1>2. CASE /\ ~Looks(front)
           /\ \E c \in front .. t - 1 : SyncAt(t, c) /\ Consume(c, t)
  <2>1. PICK c \in front .. t - 1 : SyncAt(t, c) /\ Consume(c, t)
    BY <1>2
  <2>2. /\ front \in Nat /\ c \in Nat /\ front <= c /\ c < t
        /\ windows \subseteq Nat
    BY <2>1
  <2>0. /\ front' \in Nat /\ c <= front' /\ front' <= t
        /\ t - PacketSize < front'
    BY <2>1, <2>2, Batch
  <2>3. /\ windows \subseteq windows' /\ windows' \subseteq Nat
        /\ \A p \in c .. front' : p < front' =>
              \E w \in windows' : w <= p /\ p < w + PacketSize
    BY <2>1, <2>2, Batch
  <2>4. c + PacketSize < t
    BY <2>1 DEF SyncAt, Confirmed
  <2>5. \A p \in front .. c - 1 : ~Aligned(p)
    <3> SUFFICES ASSUME NEW p \in front .. c - 1, Aligned(p) PROVE FALSE
      OBVIOUS
    <3>1. p \in Nat /\ p + PacketSize < t /\ PacketSize * 1 = PacketSize
      BY <2>2, <2>4
    <3>2. Aligned(p + PacketSize)
      BY <3>1, AlignedOn
    <3> QED BY <2>1, <3>1, <3>2 DEF SyncAt, Confirmed, Looks
  <2>6. \A p \in front .. front' : p < front' /\ Aligned(p) =>
            \E w \in windows' : w <= p /\ p < w + PacketSize
    <3> SUFFICES ASSUME NEW p \in front .. front', p < front', Aligned(p)
                 PROVE  \E w \in windows' : w <= p /\ p < w + PacketSize
      OBVIOUS
    <3>1. p \notin front .. c - 1
      BY <2>5
    <3>2. p \in c .. front'
      BY <2>0, <2>2, <3>1
    <3> QED BY <3>2, <2>3
  <2>7. ~Aligned(front)
    BY <1>2 DEF Looks
  <2>8. front <= front' /\ t - PacketSize <= front'
    BY <2>0, <2>2
  <2> QED BY <2>0, <2>3, <2>6, <2>7, <2>8
<1>3. CASE /\ ~Looks(front) /\ \A c \in front .. t - 1 : ~Confirmed(t, c)
           /\ KeepTail(t)
  <2>0. \/ t - PacketSize > front /\ front' = t - PacketSize
        \/ t - PacketSize <= front /\ front' = front
    <3>1. t - front > PacketSize <=> t - PacketSize > front
      OBVIOUS
    <3>2. t - PacketSize > front \/ t - PacketSize <= front
      OBVIOUS
    <3>3. front' = IF t - front > PacketSize THEN t - PacketSize ELSE front
      BY <1>3 DEF KeepTail
    <3>4. CASE t - front > PacketSize
      <4>1. front' = t - PacketSize
        BY <3>3, <3>4, Zenon
      <4> QED BY <3>1, <3>4, <4>1, Zenon
    <3>5. CASE ~(t - front > PacketSize)
      <4>1. front' = front
        BY <3>3, <3>5, Zenon
      <4> QED BY <3>1, <3>2, <3>5, <4>1, Zenon
    <3> QED BY <3>4, <3>5, Zenon
  <2>1. front' \in Nat /\ front <= front' /\ front' <= t /\ t - PacketSize <= front'
    BY <2>0
  <2>2. ASSUME NEW p \in front .. front', p < front', Aligned(p) PROVE FALSE
    <3>0. p \in Int /\ front <= p /\ p < t - PacketSize
      BY <2>0, <2>1, <2>2
    <3>1. p \in Nat /\ p \in front .. t - 1 /\ p + PacketSize < t
          /\ PacketSize * 1 = PacketSize
      BY <3>0
    <3>2. Aligned(p + PacketSize)
      BY <2>2, <3>1, AlignedOn
    <3> QED BY <1>3, <2>2, <3>1, <3>2 DEF Confirmed, Looks
  <2> QED BY <1>3, <2>1, <2>2 DEF KeepTail, Looks
<1> QED BY <1>1, <1>2, <1>3 DEF Ingest

-----------------------------------------------------------------------------
FilterInv == FilterTypeOK /\ CarryBounded /\ EveryPacketMet

LEMMA FilterStarts == FilterInit => FilterInv
BY PidFilterAssumption
   DEF PidFilterAssumption, FilterInit, FilterInv, FilterTypeOK, CarryBounded,
       EveryPacketMet

(* A read keeps the invariant, and a filter in step in step.               *)
LEMMA PullKeeps ==
    ASSUME FilterInv, Pull
    PROVE  FilterInv' /\ (Aligned(front) => Aligned(front'))
<1>1. PICK n \in 1 .. MaxRead : back' = back + n /\ Ingest(back')
  BY DEF Pull
<1>2. back' \in Nat /\ back < back'
  BY <1>1 DEF FilterInv, FilterTypeOK
<1>3. /\ front' \in Nat /\ front <= front' /\ front' <= back'
      /\ back' - PacketSize <= front'
      /\ windows \subseteq windows' /\ windows' \subseteq Nat
      /\ Aligned(front) => Aligned(front')
      /\ \A p \in front .. front' : p < front' /\ Aligned(p) =>
            \E w \in windows' : w <= p /\ p < w + PacketSize
  BY <1>1, <1>2, IngestStep DEF FilterInv
<1>4. strays' = strays /\ born' = born
  BY DEF Pull
<1>5. FilterTypeOK' /\ CarryBounded'
  <2>1. CarryBounded'
    BY <1>3 DEF CarryBounded
  <2>2. born' <= front'
    BY <1>3, <1>4 DEF FilterInv, FilterTypeOK
  <2> QED
    BY <1>2, <1>3, <1>4, <2>1, <2>2 DEF FilterInv, FilterTypeOK
<1>6. EveryPacketMet'
  <2> SUFFICES ASSUME NEW p \in born .. front', p < front', Aligned(p)
               PROVE  \E w \in windows' : w <= p /\ p < w + PacketSize
    BY <1>4 DEF EveryPacketMet
  <2>1. CASE p < front
    <3>1. p \in born .. front
      BY <2>1 DEF FilterInv, FilterTypeOK
    <3>2. PICK w \in windows : w <= p /\ p < w + PacketSize
      BY <2>1, <3>1 DEF FilterInv, EveryPacketMet
    <3>3. w \in windows'
      BY <1>3
    <3> QED BY <3>2, <3>3, Zenon
  <2>2. CASE ~(p < front)
    <3>0. front \in Nat /\ born \in Nat /\ front' \in Nat
      BY <1>3 DEF FilterInv, FilterTypeOK
    <3>1. p \in front .. front' /\ p < front' /\ Aligned(p)
      BY <2>2, <3>0
    <3>2. \A q \in front .. front' : q < front' /\ Aligned(q) =>
             \E w \in windows' : w <= q /\ q < w + PacketSize
      BY <1>3
    <3> QED BY <3>1, <3>2, Zenon
  <2> QED BY <2>1, <2>2
<1> QED BY <1>3, <1>5, <1>6 DEF FilterInv

LEMMA NewFilterKeeps == FilterInv /\ NewFilter => FilterInv'
BY PidFilterAssumption
   DEF PidFilterAssumption, FilterInv, FilterTypeOK, CarryBounded,
       EveryPacketMet, NewFilter

LEMMA FilterIdles == FilterInv /\ UNCHANGED filterVars => FilterInv'
BY DEF filterVars, FilterInv, FilterTypeOK, CarryBounded, EveryPacketMet

(* Every step of a command reads, makes a new filter or leaves it alone.   *)
LEMMA FilterSteps ==
    [Px4Next]_allVars => Pull \/ NewFilter \/ UNCHANGED filterVars
BY DEF Px4Next, allVars, Open, BadFrequency, SetChannel, StartStreaming,
       IoctlFails, Read, NextTable, Finish, Kill, NextCommand

(* For every packet size, stream and placement of stray sync bytes: what   *)
(* the filter carries between reads is bounded.                            *)
LEMMA FilterInvariant == Px4Spec => []FilterInv
<1>1. Px4Init => FilterInv
  BY FilterStarts DEF Px4Init
<1>2. FilterInv /\ [Px4Next]_allVars => FilterInv'
  BY FilterSteps, PullKeeps, NewFilterKeeps, FilterIdles
<1> QED BY <1>1, <1>2, PTL DEF Px4Spec

THEOREM CarryStaysBounded == Px4Spec => []CarryBounded
BY FilterInvariant, PTL DEF FilterInv

(* However the reads cut the stream, no packet is passed over but one that *)
(* lies within a misread one.                                              *)
THEOREM PacketsAreMet == Px4Spec => []EveryPacketMet
BY FilterInvariant, PTL DEF FilterInv

(* A filter once in step is in step for as long as it lives.               *)
THEOREM StaysInStep == Px4Spec => InStepForever
<1>1. FilterInv /\ [Px4Next]_allVars
        => [born' = born /\ Aligned(front) => Aligned(front')]_filterVars
  <2> SUFFICES ASSUME FilterInv, [Px4Next]_allVars, born' = born,
                      Aligned(front), ~UNCHANGED filterVars
               PROVE  Aligned(front')
    OBVIOUS
  <2>1. CASE Pull
    BY <2>1, PullKeeps
  <2>2. CASE NewFilter
    <3>1. front' = back /\ back = born
      BY <2>2 DEF NewFilter
    <3>2. front = front'
      BY <3>1 DEF FilterInv, FilterTypeOK
    <3> QED BY <3>2
  <2> QED BY <2>1, <2>2, FilterSteps
<1> QED BY <1>1, FilterInvariant, PTL DEF Px4Spec, InStepForever

-----------------------------------------------------------------------------
(* What was looked at lies behind `front', so a batch looks at what is new.*)
WindowsBehind == \A w \in windows : w < front
MisreadInv == FilterInv /\ WindowsBehind

LEMMA BatchMisreads ==
    ASSUME NEW from \in Nat, NEW t \in Nat, from <= t, windows \subseteq Nat,
           \A w \in windows : w < from, Looks(from), Consume(from, t)
    PROVE  /\ \A w \in windows' : w < front'
           /\ \A w \in windows' \ windows :
                Aligned(w) \/ \E s \in strays \cap (windows' \ windows) : s <= w
<1>1. PICK n \in 0 .. t - from :
        /\ front' = from + PacketSize * n
        /\ windows' = windows \cup {from + PacketSize * i : i \in 0 .. n - 1}
  BY DEF Consume
<1>2. n \in Nat /\ PacketSize * n \in Nat
  <2>1. n \in Nat
    OBVIOUS
  <2> QED BY <2>1, Product
<1>3. ASSUME NEW w \in windows' PROVE w < front'
  <2>1. CASE w \in windows
    BY <1>1, <1>2, <2>1
  <2>2. CASE w \notin windows
    <3>1. PICK i \in 0 .. n - 1 : w = from + PacketSize * i
      BY <1>1, <2>2
    <3>2. i \in Nat /\ i < n /\ PacketSize * i \in Nat
      <4>1. i \in Nat /\ i < n
        BY <1>2
      <4> QED BY <4>1, Product
    <3>3. PacketSize * i + PacketSize <= PacketSize * n
      BY <1>2, <3>2, Products
    <3>4. w < from + PacketSize * n
      BY <1>2, <3>1, <3>2, <3>3, PidFilterAssumption DEF PidFilterAssumption
    <3> QED BY <1>1, <3>4
  <2> QED BY <2>1, <2>2
<1>4. ASSUME NEW w \in windows' \ windows
      PROVE  Aligned(w) \/ \E s \in strays \cap (windows' \ windows) : s <= w
  <2>1. PICK i \in 0 .. n - 1 : w = from + PacketSize * i
    BY <1>1, <1>4
  <2>2. i \in Nat /\ 0 \in 0 .. n - 1 /\ PacketSize * 0 = 0 /\ PacketSize * i \in Nat
    <3>1. i \in Nat /\ 0 \in 0 .. n - 1
      BY <1>2
    <3>2. PacketSize * 0 = 0
      BY PidFilterAssumption DEF PidFilterAssumption
    <3> QED BY <3>1, <3>2, Product
  <2>3. CASE Aligned(from)
    BY <2>1, <2>2, <2>3, AlignedOn
  <2>4. CASE from \in strays
    <3>1. from \in windows'
      <4>1. from = from + PacketSize * 0
        BY <2>2
      <4> QED BY <1>1, <2>2, <4>1
    <3>2. from \notin windows /\ from <= w
      BY <2>1, <2>2
    <3> QED BY <2>4, <3>1, <3>2
  <2> QED BY <2>3, <2>4 DEF Looks
<1> QED BY <1>3, <1>4

LEMMA PullMisreads ==
    ASSUME MisreadInv, Pull
    PROVE  /\ WindowsBehind'
           /\ \A w \in windows' \ windows :
                Aligned(w) \/ \E s \in strays \cap (windows' \ windows) : s <= w
<1>1. PICK n \in 1 .. MaxRead : Ingest(back + n)
  BY DEF Pull
<1> DEFINE t == back + n
<1>2. /\ t \in Nat /\ back < t /\ front \in Nat /\ front <= t
      /\ windows \subseteq Nat /\ \A w \in windows : w < front
  BY DEF MisreadInv, FilterInv, FilterTypeOK, WindowsBehind
<1>3. Ingest(t)
  BY <1>1
<1> HIDE DEF t
<1>4. CASE Looks(front) /\ Consume(front, t)
  BY <1>2, <1>4, BatchMisreads DEF WindowsBehind
<1>5. CASE \E c \in front .. t - 1 : SyncAt(t, c) /\ Consume(c, t)
  <2>1. PICK c \in front .. t - 1 : SyncAt(t, c) /\ Consume(c, t)
    BY <1>5
  <2>2. c \in Nat /\ c <= t /\ Looks(c) /\ \A w \in windows : w < c
    BY <1>2, <2>1 DEF SyncAt, Confirmed
  <2> QED BY <1>2, <2>1, <2>2, BatchMisreads DEF WindowsBehind
<1>6. CASE KeepTail(t)
  <2>1. front \in Nat /\ front <= front' /\ front' \in Nat
    BY <1>2, <1>3, IngestStep DEF MisreadInv, FilterInv
  <2>2. windows' = windows
    BY <1>6 DEF KeepTail
  <2>3. \A w \in windows : w < front'
    BY <1>2, <2>1
  <2> QED BY <2>2, <2>3 DEF WindowsBehind
<1> QED BY <1>3, <1>4, <1>5, <1>6 DEF Ingest

LEMMA MisreadInvariant == Px4Spec => []MisreadInv
<1>1. Px4Init => WindowsBehind
  BY DEF Px4Init, FilterInit, WindowsBehind
<1>2. MisreadInv /\ [Px4Next]_allVars => WindowsBehind'
  <2> SUFFICES ASSUME MisreadInv, [Px4Next]_allVars PROVE WindowsBehind'
    OBVIOUS
  <2>1. CASE Pull
    BY <2>1, PullMisreads
  <2>2. CASE NewFilter \/ UNCHANGED filterVars
    BY <2>2 DEF NewFilter, filterVars, MisreadInv, WindowsBehind
  <2> QED BY <2>1, <2>2, FilterSteps
<1> QED BY <1>1, <1>2, FilterInvariant, PTL DEF Px4Spec, MisreadInv

(* What is not a packet is taken for one only behind a payload byte that   *)
(* looks like sync, taken for a start in the same batch.                   *)
THEOREM MisreadsAreStrays == Px4Spec => MisreadNeedsStray
<1>1. MisreadInv /\ [Px4Next]_allVars
        => [\A w \in windows' \ windows :
              Aligned(w) \/ \E s \in strays \cap (windows' \ windows) : s <= w]_filterVars
  <2> SUFFICES ASSUME MisreadInv, [Px4Next]_allVars, ~UNCHANGED filterVars
               PROVE  \A w \in windows' \ windows :
                        \/ Aligned(w)
                        \/ \E s \in strays \cap (windows' \ windows) : s <= w
    OBVIOUS
  <2>1. CASE Pull
    BY <2>1, PullMisreads
  <2>2. CASE NewFilter
    BY <2>2 DEF NewFilter
  <2> QED BY <2>1, <2>2, FilterSteps
<1> QED BY <1>1, MisreadInvariant, PTL DEF Px4Spec, MisreadNeedsStray

-----------------------------------------------------------------------------
(* A frequency on the plan is at most the tolerance above a centre.        *)
LEMMA PlanCentres ==
    ASSUME NEW f \in Nat, OnPlan(f)
    PROVE  \E ch \in FirstPhysical .. LastPhysical :
             Physical(f) = ch /\ Centre(ch) <= f /\ f <= Centre(ch) + Tolerance
<1> DEFINE d == f - 473142857
<1>1. d \in Nat
  BY SMT DEF OnPlan, UhfBase
<1>2. /\ Physical(f) = d \div 6000000 + 13
      /\ d \div 6000000 + 13 <= 62 /\ d % 6000000 <= 100000
  BY SMT DEF OnPlan, Physical, Offset, UhfBase, UhfSpacing, FirstPhysical,
             LastPhysical, Tolerance
<1>3. PICK q \in Nat, r \in Nat : /\ d = q * 6000000 + r
                                 /\ q = d \div 6000000 /\ r = d % 6000000
  BY <1>1, SMT
<1>4. q <= 49 /\ r <= 100000 /\ Physical(f) = q + 13
  BY <1>2, <1>3, SMT
<1>5. f = 473142857 + q * 6000000 + r
  BY <1>3, SMT
<1>6. q + 13 \in FirstPhysical .. LastPhysical
  BY <1>4, SMT DEF FirstPhysical, LastPhysical
<1>7. Centre(q + 13) <= f /\ f <= Centre(q + 13) + Tolerance
  BY <1>4, <1>5, SMT DEF Centre, UhfBase, UhfSpacing, FirstPhysical, Tolerance
<1> QED BY <1>4, <1>6, <1>7

Idle == {"closed", "open", "ended"}

(* The device knows that a stage that reads has a running tuner; another   *)
(* has one only if it was left that way.  Past "open" the tuner is set to  *)
(* the channel of an accepted frequency.                                   *)
Px4Inv ==
    /\ kind \in DOMAIN Stages /\ frequency \in Nat
    /\ stage \in Idle \cup {"set", "raw"} \cup Reading
    /\ driver \in [freqNo : Int, on : BOOLEAN]
    /\ stage \notin Idle =>
          OnPlan(frequency) /\ driver.freqNo = FreqNo(Physical(frequency))
    /\ streaming \in BOOLEAN /\ (streaming <=> stage \in Reading \cup {"raw"})
    /\ streaming => driver.on
    /\ unstopped \in BOOLEAN
    /\ driver.on /\ ~streaming => unstopped

LEMMA Px4Starts == Px4Init => Px4Inv
<1> SUFFICES ASSUME Px4Init PROVE Px4Inv
  OBVIOUS
<1>1. driver \in [freqNo : Int, on : BOOLEAN] /\ ~driver.on
  BY DEF Px4Init
<1>2. kind \in DOMAIN Stages /\ frequency \in Nat
  BY FrequencyAssumption DEF FrequencyAssumption, Px4Init
<1>3. stage = "closed" /\ streaming = FALSE /\ unstopped = FALSE
  BY DEF Px4Init
<1> QED BY <1>1, <1>2, <1>3 DEF Px4Inv, Idle, Reading

(* A driver that is left to itself at most stops.                          *)
LEMMA ClosesKeeps ==
    Px4Inv /\ Closes
      => driver' \in [freqNo : Int, on : BOOLEAN] /\ (driver'.on => driver.on)
BY DEF Px4Inv, Closes

(* The device stops on its way out what it started, or is refused.         *)
LEMMA DropStops == Px4Inv /\ Dropped => Px4Inv'
<1> SUFFICES ASSUME Px4Inv, Dropped PROVE Px4Inv'
  OBVIOUS
<1>1. driver' \in [freqNo : Int, on : BOOLEAN]
  BY ClosesKeeps DEF Dropped, StopStreaming, Px4Inv
<1>2. unstopped' \in BOOLEAN /\ (driver'.on => unstopped')
  BY ClosesKeeps DEF Dropped, StopStreaming, Px4Inv
<1> QED BY <1>1, <1>2 DEF Px4Inv, Dropped, Idle, Reading

(* A command that is killed stops nothing.                                 *)
LEMMA KillLeaves == Px4Inv /\ Kill => Px4Inv'
<1> SUFFICES ASSUME Px4Inv, Kill PROVE Px4Inv'
  OBVIOUS
<1>1. driver' \in [freqNo : Int, on : BOOLEAN] /\ (driver'.on => driver.on)
  BY ClosesKeeps DEF Kill
<1>2. unstopped' \in BOOLEAN /\ (driver'.on => unstopped')
  BY <1>1 DEF Kill, Px4Inv
<1> QED BY <1>1, <1>2 DEF Px4Inv, Kill, Idle, Reading

LEMMA StagesRead ==
    ASSUME NEW k \in DOMAIN Stages
    PROVE  /\ Head(Stages[k]) \in Reading \cup {"raw"}
           /\ \A i \in 1 .. Len(Stages[k]) - 1 : Stages[k][i + 1] \in Reading
<1>1. CASE k = "tune"
  BY <1>1 DEF Stages, Reading
<1>2. CASE k = "full"
  BY <1>2 DEF Stages, Reading
<1>3. CASE k = "scan"
  BY <1>3 DEF Stages, Reading
<1>4. CASE k = "epg"
  BY <1>4 DEF Stages, Reading
<1> QED BY <1>1, <1>2, <1>3, <1>4 DEF Stages

LEMMA Px4Keeps == Px4Inv /\ [Px4Next]_allVars => Px4Inv'
<1> SUFFICES ASSUME Px4Inv, [Px4Next]_allVars PROVE Px4Inv'
  OBVIOUS
<1>1. CASE Open
  BY <1>1 DEF Px4Inv, Open, Idle, Reading
<1>2. CASE BadFrequency
  BY <1>2, DropStops DEF BadFrequency
<1>3. CASE SetChannel
  <2>1. FreqNo(Physical(frequency)) \in Int
    BY DEF Px4Inv, FreqNo, Physical, Offset, UhfBase, UhfSpacing, FirstPhysical
  <2> QED BY <1>3, <2>1 DEF Px4Inv, SetChannel, Idle, Reading
<1>4. CASE StartStreaming
  <2>1. stage' \in Reading \cup {"raw"}
    BY <1>4, StagesRead DEF Px4Inv, StartStreaming
  <2>2. stage \notin Idle
    BY <1>4 DEF StartStreaming, Idle
  <2>3. driver' \in [freqNo : Int, on : BOOLEAN] /\ driver'.on
        /\ driver'.freqNo = driver.freqNo
    BY <1>4 DEF Px4Inv, StartStreaming
  <2> QED BY <1>4, <2>1, <2>2, <2>3 DEF Px4Inv, StartStreaming
<1>5. CASE IoctlFails
  BY <1>5, DropStops DEF IoctlFails
<1>6. CASE Read
  BY <1>6 DEF Px4Inv, Read, px4Vars
<1>7. CASE NextTable
  <2>1. stage' \in Reading
    BY <1>7, StagesRead DEF Px4Inv, NextTable
  <2>2. stage \notin Idle
    BY <1>7 DEF NextTable, Idle
  <2> QED BY <1>7, <2>1, <2>2 DEF Px4Inv, NextTable
<1>8. CASE Finish
  BY <1>8, DropStops DEF Finish
<1>9. CASE Kill
  BY <1>9, KillLeaves
<1>10. CASE NextCommand
  BY <1>10, FrequencyAssumption
  DEF FrequencyAssumption, Px4Inv, NextCommand, Idle, Reading
<1>11. CASE UNCHANGED allVars
  BY <1>11 DEF Px4Inv, allVars, px4Vars
<1> QED
  BY <1>1, <1>2, <1>3, <1>4, <1>5, <1>6, <1>7, <1>8, <1>9, <1>10, <1>11
  DEF Px4Next

LEMMA Px4Invariant == Px4Spec => []Px4Inv
BY Px4Starts, Px4Keeps, PTL DEF Px4Spec

(* Whichever step fails: a tuner is left on only by a kill or a refused    *)
(* STOP of the last command that started it.                               *)
THEOREM StreamsAreStopped == Px4Spec => []StopsWhatItStarted
<1>1. Px4Inv => StopsWhatItStarted
  BY DEF Px4Inv, StopsWhatItStarted, Reading
<1> QED BY <1>1, Px4Invariant, PTL

(* For every frequency a channel list may hold, and whatever was left      *)
(* streaming before: what a command reads is the one UHF channel that its  *)
(* frequency is the centre of.                                             *)
THEOREM TuneIsRight == Px4Spec => []TunesWhatWasAsked
<1>1. Px4Inv => TunesWhatWasAsked
  <2> SUFFICES ASSUME Px4Inv, stage \in Reading \cup {"raw"}
               PROVE  /\ driver.on
                      /\ \E ch \in FirstPhysical .. LastPhysical :
                           /\ driver.freqNo = ch + 50
                           /\ Centre(ch) <= frequency
                           /\ frequency <= Centre(ch) + Tolerance
    BY DEF TunesWhatWasAsked
  <2>1. OnPlan(frequency) /\ frequency \in Nat /\ driver.on
    BY DEF Px4Inv, Idle, Reading
  <2>2. driver.freqNo = Physical(frequency) + 50
    BY DEF Px4Inv, Idle, Reading, FreqNo
  <2>3. PICK ch \in FirstPhysical .. LastPhysical :
          /\ Physical(frequency) = ch
          /\ Centre(ch) <= frequency /\ frequency <= Centre(ch) + Tolerance
    BY <2>1, PlanCentres
  <2> QED BY <2>1, <2>2, <2>3
<1> QED BY <1>1, Px4Invariant, PTL
=============================================================================
