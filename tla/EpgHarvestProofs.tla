---------------------------- MODULE EpgHarvestProofs ----------------------------
(***************************************************************************)
(* The guide that `epg' prints, for any broadcast and any damage to it.    *)
(***************************************************************************)
EXTENDS EpgHarvest, SequenceTheorems, Induction

-----------------------------------------------------------------------------
(* The loop under them: the stall watchdog of `tune' tells the truth for   *)
(* every timeout, ring and pace of the output's consumer.                  *)

(* While the ring is empty `last_data' is no older than the last arrival:  *)
(* the read that emptied it reset the one, and only an arrival, which      *)
(* fills it, resets the other.                                             *)
WatchdogInv ==
    /\ TypeOK
    /\ buffered = 0 => lastData <= silence
    /\ outcome = "stall" => pc = "ended" /\ silence >= StallTicks

(* What the clocks need of the bounds on them.                             *)
LEMMA Clock ==
    /\ MaxTick \in Nat /\ StallTicks \in Nat /\ StallTicks <= MaxTick
    /\ \A t \in 0 .. MaxTick : Later(t) \in 0 .. MaxTick /\ t <= Later(t)
    /\ \A s, t \in 0 .. MaxTick : s <= t => Later(s) <= Later(t)
BY LoopAssumption DEF LoopAssumption, MaxTick, Later

(* The code sets `last_data' on entering the loop.                         *)
LEMMA WatchdogInit == Init => WatchdogInv
BY Clock, LoopAssumption DEF LoopAssumption, Init, WatchdogInv, TypeOK

(* Every step of the loop, the clock and the air keeps the invariant.      *)
LEMMA WatchdogStep == WatchdogInv /\ [Next]_vars => WatchdogInv'
<1> SUFFICES ASSUME WatchdogInv, [Next]_vars PROVE WatchdogInv'
  OBVIOUS
<1> USE LoopAssumption, Clock DEF LoopAssumption, WatchdogInv, TypeOK, air, clocks
<1>1. CASE Top
  BY <1>1 DEF Top, End
<1>2. CASE ReadData
  BY <1>2 DEF ReadData
<1>3. CASE ReadNothing
  <2>1. CASE command = "tune" /\ lastData >= StallTicks
    BY <1>3, <2>1 DEF ReadNothing, End
  <2>2. CASE ~(command = "tune" /\ lastData >= StallTicks)
    BY <1>3, <2>2 DEF ReadNothing
  <2> QED BY <2>1, <2>2
<1>4. CASE Wake \/ Written
  BY <1>4 DEF Wake, Written
<1>5. CASE Fails
  BY <1>5 DEF Fails, End
<1>6. CASE Tick
  <2>1. {lastData, silence, elapsed}' \subseteq 0 .. MaxTick /\ silence <= silence'
    BY <1>6 DEF Tick
  <2>2. (buffered = 0 => lastData <= silence)'
    BY <1>6 DEF Tick
  <2> QED BY <1>6, <2>1, <2>2 DEF Tick
<1>7. CASE Arrive
  BY <1>7 DEF Arrive
<1>8. CASE SignalChanges
  BY <1>8 DEF SignalChanges
<1>9. CASE Pull
  BY <1>9 DEF Pull
<1>10. CASE UNCHANGED vars
  BY <1>10 DEF vars
<1> QED
  BY <1>1, <1>2, <1>3, <1>4, <1>5, <1>6, <1>7, <1>8, <1>9, <1>10 DEF Next, Loop

(* For every timeout, ring and pace of the consumer: the watchdog reports  *)
(* a stall only if nothing arrived for the whole timeout.                  *)
THEOREM StallIsReal == Spec => []NoFalseStall
<1>1. WatchdogInv => NoFalseStall
  BY DEF WatchdogInv, NoFalseStall
<1> QED
  BY <1>1, WatchdogInit, WatchdogStep, PTL DEF Spec

(* Collecting and listing leave the loop alone: the watchdog is as true    *)
(* with the harvest beside it.                                             *)
THEOREM StallStaysReal == HarvestSpec => []NoFalseStall
<1>1. HarvestInit => WatchdogInv
  BY WatchdogInit DEF HarvestInit
<1>2. WatchdogInv /\ [HarvestNext]_<<vars, harvestVars>> => WatchdogInv'
  <2>1. [HarvestNext]_<<vars, harvestVars>> => [Next]_vars
    BY DEF HarvestNext, Collect, Report
  <2> QED BY <2>1, WatchdogStep
<1>3. WatchdogInv => NoFalseStall
  BY DEF WatchdogInv, NoFalseStall
<1> QED
  BY <1>1, <1>2, <1>3, PTL DEF HarvestSpec

-----------------------------------------------------------------------------
(* The dates of the formula, right or not, are in the order of their days. *)

DayOfYear(n) == n - 14956 - YearDays(n)

LEMMA DayNumbers == FirstDay \in Nat /\ LastDay \in Nat
BY SMT DEF FirstDay, LastDay

LEMMA DaysNatural == Days \subseteq Nat
BY DayNumbers DEF Days

LEMMA YearBounds ==
    ASSUME NEW n \in Days
    PROVE  /\ YearPrime(n) \in 0 .. 138
           /\ YearDays(n) \in Int
           /\ DayOfYear(n) \in 121 .. 487
<1> DEFINE y == YearPrime(n)
           w == YearDays(n)
           a == n - 15078
<1>0. n \in Int /\ a \in Int /\ a >= 1 /\ a <= 50456
  <2>1. n \in Nat /\ FirstDay <= n /\ n <= LastDay
    BY DayNumbers DEF Days
  <2> QED BY <2>1, SMT DEF FirstDay, LastDay
<1>1. y \in Int /\ 3652425 * y <= 10000 * a /\ 10000 * a < 3652425 * (y + 1)
  BY <1>0 DEF YearPrime
<1>2. w \in Int /\ 100 * w <= 36525 * y /\ 36525 * y < 100 * w + 76
  BY <1>1 DEF YearDays
<1>3. DayOfYear(n) = a + 122 - w
  BY <1>0, <1>2 DEF DayOfYear
<1> HIDE DEF y, w, a
<1>4. y >= 0
  BY <1>0, <1>1
<1>5. y <= 138
  BY <1>0, <1>1
<1>6. a - w >= -1
  BY <1>0, <1>1, <1>2, <1>4, <1>5
<1>7. a - w <= 365
  BY <1>0, <1>1, <1>2, <1>4, <1>5
<1>8. DayOfYear(n) \in 121 .. 487
  BY <1>0, <1>2, <1>3, <1>6, <1>7
<1>9. y \in 0 .. 138
  BY <1>1, <1>4, <1>5
<1> QED BY <1>2, <1>8, <1>9 DEF y, w

LEMMA MonthBounds ==
    ASSUME NEW n \in Days
    PROVE  LET q == DayOfYear(n)
               m == MonthPrime(n)
               b == (m * 306001) \div 10000
           IN  /\ m \in 3 .. 15
               /\ 306001 * m <= 10000 * q /\ 10000 * q < 306001 * (m + 1)
               /\ b \in Nat /\ 10000 * b <= 306001 * m /\ 306001 * m < 10000 * (b + 1)
<1> DEFINE q == DayOfYear(n)
           m == MonthPrime(n)
<1>1. q \in 121 .. 487
  BY YearBounds
<1>2. m = (q * 10000) \div 306001
  BY DEF MonthPrime, DayOfYear
<1> HIDE DEF q, m
<1>3. m \in 3 .. 15 /\ 306001 * m <= 10000 * q /\ 10000 * q < 306001 * (m + 1)
  BY <1>1, <1>2
<1> QED BY <1>3 DEF q, m

LEMMA DayAfter ==
    ASSUME NEW n \in Days, n + 1 \in Days
    PROVE  Before(DateOf(n), DateOf(n + 1))
<1> DEFINE y == YearPrime(n)
           z == YearPrime(n + 1)
           q == DayOfYear(n)
           r == DayOfYear(n + 1)
           m == MonthPrime(n)
           k == MonthPrime(n + 1)
           b == (m * 306001) \div 10000
           c == (k * 306001) \div 10000
<1>1. /\ DateOf(n) = [year |-> y + 1900 + Carry(n), month |-> m - 1 - Carry(n) * 12, day |-> q - b]
      /\ DateOf(n + 1) = [year |-> z + 1900 + Carry(n + 1),
                          month |-> k - 1 - Carry(n + 1) * 12, day |-> r - c]
  BY DEF DateOf, DayOfYear
<1>2. /\ Carry(n) = IF m \in {14, 15} THEN 1 ELSE 0
      /\ Carry(n + 1) = IF k \in {14, 15} THEN 1 ELSE 0
  BY DEF Carry
<1>0. n \in Nat /\ n >= 15078
  <2>1. n \in Nat /\ FirstDay <= n
    BY DayNumbers DEF Days
  <2> QED BY <2>1, SMT DEF FirstDay
<1>3. z = y \/ z = y + 1
  BY <1>0 DEF YearPrime
<1>4. z = y => r = q + 1
  <2> SUFFICES ASSUME z = y PROVE r = q + 1
    OBVIOUS
  <2>1. YearPrime(n + 1) = YearPrime(n)
    OBVIOUS
  <2>2. YearDays(n + 1) = YearDays(n)
    BY <2>1 DEF YearDays
  <2>3. YearDays(n) \in Int
    BY YearBounds
  <2> QED BY <1>0, <2>2, <2>3 DEF DayOfYear
<1>5. /\ y \in Nat /\ z \in Nat /\ q \in 121 .. 487 /\ r \in 121 .. 487
  BY YearBounds
<1>6. /\ m \in 3 .. 15 /\ 306001 * m <= 10000 * q /\ 10000 * q < 306001 * (m + 1)
      /\ b \in Nat /\ 10000 * b <= 306001 * m /\ 306001 * m < 10000 * (b + 1)
  BY MonthBounds
<1>7. /\ k \in 3 .. 15 /\ 306001 * k <= 10000 * r /\ 10000 * r < 306001 * (k + 1)
      /\ c \in Nat /\ 10000 * c <= 306001 * k /\ 306001 * k < 10000 * (c + 1)
  BY MonthBounds
<1> HIDE DEF y, z, q, r, m, k, b, c
<1>8. CASE z = y
  <2>1. k = m \/ k = m + 1
    BY <1>4, <1>5, <1>6, <1>7, <1>8
  <2>2. CASE k = m
    <3>1. c = b
      BY <2>2 DEF b, c
    <3> QED BY <1>1, <1>2, <1>4, <1>5, <1>6, <1>8, <2>2, <3>1 DEF Before
  <2>3. CASE k = m + 1
    BY <1>1, <1>2, <1>5, <1>6, <1>7, <1>8, <2>3 DEF Before
  <2> QED BY <2>1, <2>2, <2>3
<1>9. CASE z = y + 1
  <2>1. CASE m = 15 /\ k = 3
    <3>1. q - b <= 28
      BY <1>5, <1>6, <2>1
    <3>2. r - c >= 30
      BY <1>5, <1>7, <2>1
    <3> QED BY <1>1, <1>2, <1>5, <1>6, <1>7, <1>9, <2>1, <3>1, <3>2 DEF Before
  <2>2. CASE ~(m = 15 /\ k = 3)
    BY <1>1, <1>2, <1>5, <1>6, <1>7, <1>9, <2>2 DEF Before
  <2> QED BY <2>1, <2>2
<1> QED BY <1>3, <1>8, <1>9

LEMMA DateTyped ==
    ASSUME NEW n \in Days
    PROVE  DateOf(n).year \in Int /\ DateOf(n).month \in Int /\ DateOf(n).day \in Int
<1>1. YearPrime(n) \in Int /\ YearDays(n) \in Int
  BY YearBounds
<1>2. n \in Int
  BY DaysNatural
<1>3. MonthPrime(n) \in Int
  BY MonthBounds
<1>4. (MonthPrime(n) * 306001) \div 10000 \in Int
  BY <1>3
<1>5. Carry(n) \in Int
  BY DEF Carry
<1> QED BY <1>1, <1>2, <1>3, <1>4, <1>5 DEF DateOf

LEMMA DayBetween ==
    ASSUME NEW a \in Days, NEW n \in Nat, a <= n, n + 1 \in Days
    PROVE  n \in Days
BY DayNumbers DEF Days

LEMMA DatesInOrder ==
    ASSUME NEW a \in Days, NEW b \in Days, a < b
    PROVE  Before(DateOf(a), DateOf(b))
<1>1. a \in Nat /\ b \in Nat
  BY DaysNatural
<1> DEFINE S == {n \in Nat : n \in Days /\ a < n => Before(DateOf(a), DateOf(n))}
<1>2. 0 \in S
  BY <1>1
<1>3. ASSUME NEW n \in Nat, n \in S PROVE n + 1 \in S
  <2> SUFFICES ASSUME n + 1 \in Days, a < n + 1 PROVE Before(DateOf(a), DateOf(n + 1))
    OBVIOUS
  <2>1. a <= n
    BY <1>1
  <2>2. n \in Days
    BY <2>1, DayBetween
  <2>3. Before(DateOf(n), DateOf(n + 1))
    BY <2>2, DayAfter
  <2>4. CASE a = n
    BY <2>3, <2>4
  <2>5. CASE a < n
    <3>1. Before(DateOf(a), DateOf(n))
      BY <1>3, <2>2, <2>5
    <3> QED BY <2>2, <2>3, <3>1, DateTyped DEF Before
  <2> QED BY <1>1, <2>1, <2>4, <2>5
<1>4. Nat \subseteq S
  <2> HIDE DEF S
  <2> QED BY <1>2, <1>3, Induct
<1> QED BY <1>1, <1>4

-----------------------------------------------------------------------------
(* Collecting.                                                             *)

(* Every section that was heard and asked for is kept, in the version that *)
(* came first, and the listing is made of them once the loop has ended.    *)
Kept ==
    /\ heard \subseteq Broadcast
    /\ allSections \in Seq(heard)
    /\ \A i \in DOMAIN allSections : Relevant(allSections[i])
    /\ \A s \in heard : Relevant(s) => Seen(s)

Printed ==
    /\ reported => command = "epg" /\ pc = "ended" /\ listing \in Orders(Guide)
    /\ ~reported => listing = <<>>

LEMMA HarvestInitKept ==
    ASSUME HarvestInit
    PROVE  Kept /\ Printed
<1>1. <<>> \in Seq({})
  OBVIOUS
<1> QED BY <1>1 DEF HarvestInit, Kept, Printed

LEMMA CollectKept ==
    ASSUME Kept, NEW raw \in Broadcast, NEW intact \in BOOLEAN, Collect(raw, intact)
    PROVE  Kept'
<1>1. Parse(raw, intact) = IF intact THEN {raw} ELSE {}
  BY DEF Parse
<1>2. UNCHANGED <<schedule, only>>
  BY DEF Collect, options
<1>3. \A s : Relevant(s)' <=> Relevant(s)
  BY <1>2 DEF Relevant, WantedTable, WantedService
<1>4. heard' = IF intact THEN heard \cup {raw} ELSE heard
  BY DEF Collect
<1>5. allSections \in Seq(heard) /\ Len(allSections) \in Nat
      /\ DOMAIN allSections = 1 .. Len(allSections)
  BY DEF Kept
<1>6. CASE intact /\ Relevant(raw) /\ ~Seen(raw)
  <2>1. allSections' = allSections \o <<raw>>
    BY <1>1, <1>6 DEF Collect, Relevant
  <2>2. allSections \in Seq(heard') /\ raw \in heard'
    BY <1>4, <1>5, <1>6
  <2>3. allSections' = Append(allSections, raw)
    BY <2>1, <2>2, AppendIsConcat
  <2>4. /\ allSections' \in Seq(heard') /\ Len(allSections') = Len(allSections) + 1
        /\ \A i \in 1 .. Len(allSections) : allSections'[i] = allSections[i]
        /\ allSections'[Len(allSections) + 1] = raw
    BY <2>2, <2>3, AppendProperties
  <2>5. DOMAIN allSections' = (1 .. Len(allSections)) \cup {Len(allSections) + 1}
    BY <1>5, <2>4
  <2>6. (\A i \in DOMAIN allSections : Relevant(allSections[i]))'
    <3>1. \A i \in DOMAIN allSections' : Relevant(allSections'[i])
      BY <1>5, <1>6, <2>4, <2>5 DEF Kept
    <3> QED BY <1>2, <3>1 DEF Relevant, WantedTable, WantedService
  <2>7. \A s \in heard' : Relevant(s)' => Seen(s)'
    <3> SUFFICES ASSUME NEW s \in heard', Relevant(s)
                 PROVE  \E i \in 1 .. Len(allSections') : Numbering(allSections'[i]) = Numbering(s)
      BY <1>3 DEF Seen
    <3>1. CASE s = raw
      <4>1. Len(allSections) + 1 \in 1 .. Len(allSections')
        BY <1>5, <2>4
      <4> QED BY <2>4, <3>1, <4>1
    <3>2. CASE s \in heard
      <4>1. PICK i \in 1 .. Len(allSections) : Numbering(allSections[i]) = Numbering(s)
        BY <3>2 DEF Kept, Seen
      <4>2. i \in 1 .. Len(allSections')
        BY <1>5, <2>4
      <4> QED BY <2>4, <4>1, <4>2
    <3> QED BY <1>4, <3>1, <3>2
  <2> QED BY <1>4, <2>4, <2>6, <2>7 DEF Kept
<1>7. CASE ~(intact /\ Relevant(raw) /\ ~Seen(raw))
  <2>1. allSections' = allSections
    BY <1>1, <1>7 DEF Collect, Relevant
  <2>2. allSections \in Seq(heard')
    BY <1>4, <1>5
  <2>3. \A s \in heard' : Relevant(s)' => Seen(s)'
    BY <1>3, <1>4, <1>7, <2>1 DEF Kept, Seen
  <2>4. (\A i \in DOMAIN allSections : Relevant(allSections[i]))'
    BY <1>2, <2>1 DEF Kept, Relevant, WantedTable, WantedService
  <2> QED BY <1>4, <2>1, <2>2, <2>3, <2>4 DEF Kept
<1> QED BY <1>6, <1>7

LEMMA HarvestKept == HarvestSpec => [](Kept /\ Printed)
<1>1. HarvestInit => Kept /\ Printed
  BY HarvestInitKept
<1>2. (Kept /\ Printed) /\ [HarvestNext]_<<vars, harvestVars>> => (Kept /\ Printed)'
  <2> SUFFICES ASSUME Kept, Printed, [HarvestNext]_<<vars, harvestVars>>
               PROVE  Kept' /\ Printed'
    OBVIOUS
  <2>1. ASSUME UNCHANGED harvestVars, UNCHANGED <<command, pc>> \/ pc # "ended"
        PROVE  Kept' /\ Printed'
    <3>1. /\ UNCHANGED <<schedule, only, includeEmpty, allSections, listing, reported, heard>>
      BY <2>1 DEF harvestVars, options
    <3>2. \A s : (Relevant(s)' <=> Relevant(s)) /\ (Seen(s)' <=> Seen(s))
      BY <3>1 DEF Relevant, WantedTable, WantedService, Seen
    <3>3. Kept'
      BY <3>1, <3>2 DEF Kept
    <3>4. Guide' = Guide
      BY <3>1 DEF Guide, Copies
    <3>5. Orders(Guide)' = Orders(Guide)
      BY <3>4 DEF Orders
    <3>6. Printed'
      BY <2>1, <3>1, <3>5 DEF Printed
    <3> QED BY <3>3, <3>6
  <2>2. CASE Next /\ UNCHANGED harvestVars
    <3>1. pc # "ended" \/ UNCHANGED <<command, pc>>
      BY <2>2 DEF Next, Loop, Top, ReadData, Pull, ReadNothing, Wake, Written, Fails,
         Tick, Arrive, SignalChanges
    <3> QED BY <2>1, <2>2, <3>1
  <2>3. ASSUME NEW raw \in Broadcast, NEW intact \in BOOLEAN, Collect(raw, intact)
        PROVE  Kept' /\ Printed'
    <3>1. Kept'
      BY <2>3, CollectKept
    <3>2. Printed'
      BY <2>3 DEF Collect, Printed
    <3> QED BY <3>1, <3>2
  <2>4. CASE Report
    <3>1. /\ UNCHANGED <<schedule, only, includeEmpty, allSections, heard, command, pc>>
          /\ reported' /\ command = "epg" /\ pc = "ended" /\ listing' \in Orders(Guide)
      BY <2>4 DEF Report, options, vars
    <3>2. \A s : (Relevant(s)' <=> Relevant(s)) /\ (Seen(s)' <=> Seen(s))
      BY <3>1 DEF Relevant, WantedTable, WantedService, Seen
    <3>3. Kept'
      BY <3>1, <3>2 DEF Kept
    <3>4. Guide' = Guide
      BY <3>1 DEF Guide, Copies
    <3>5. Orders(Guide)' = Orders(Guide)
      BY <3>4 DEF Orders
    <3>6. Printed'
      BY <3>1, <3>5 DEF Printed
    <3> QED BY <3>3, <3>6
  <2>5. CASE UNCHANGED <<vars, harvestVars>>
    <3>1. UNCHANGED harvestVars /\ UNCHANGED <<command, pc>>
      BY <2>5 DEF vars
    <3> QED BY <2>1, <3>1
  <2> QED BY <2>2, <2>3, <2>4, <2>5 DEF HarvestNext
<1> QED BY <1>1, <1>2, PTL DEF HarvestSpec

-----------------------------------------------------------------------------
(* The copies of the events that were kept.                                *)

LEMMA CopyOf ==
    ASSUME Kept, NEW c \in Copies
    PROVE  /\ c.at \in DOMAIN allSections /\ c.at \in Nat
           /\ allSections[c.at] \in heard /\ allSections[c.at] \in Broadcast
           /\ Relevant(allSections[c.at])
           /\ c.service = allSections[c.at].service
           /\ c.event \in allSections[c.at].events
           /\ c = [service |-> c.service, event |-> c.event, at |-> c.at]
           /\ IsEvent(c.event) /\ Score(c.event) \in Int
<1>1. allSections \in Seq(heard) /\ DOMAIN allSections = 1 .. Len(allSections)
      /\ Len(allSections) \in Nat
  BY DEF Kept
<1>2. PICK i \in 1 .. Len(allSections) :
         \E e \in allSections[i].events :
            c = [service |-> allSections[i].service, event |-> e, at |-> i]
  BY DEF Copies
<1> PICK e \in allSections[i].events :
         c = [service |-> allSections[i].service, event |-> e, at |-> i]
  BY <1>2
<1>3. i \in DOMAIN allSections /\ i \in Nat /\ allSections[i] \in heard
  BY <1>1
<1>4. allSections[i] \in Broadcast /\ Relevant(allSections[i])
  BY <1>3 DEF Kept
<1>5. IsEvent(e)
  BY <1>2, <1>4, BroadcastAssumption
<1>6. Score(e) \in Int
  BY <1>5 DEF IsEvent, Score
<1> QED BY <1>2, <1>3, <1>4, <1>5, <1>6

LEMMA CopyMade ==
    \A i \in 1 .. Len(allSections) : \A e \in allSections[i].events :
       [service |-> allSections[i].service, event |-> e, at |-> i] \in Copies
BY DEF Copies

(* A section holds one copy of an event.                                   *)
LEMMA OneCopyEach ==
    ASSUME Kept, NEW c \in Copies, NEW d \in Copies, SameEvent(c, d), c.at = d.at
    PROVE  c = d
<1>1. /\ c.event \in allSections[c.at].events /\ allSections[c.at] \in Broadcast
      /\ c = [service |-> c.service, event |-> c.event, at |-> c.at]
  BY CopyOf
<1>2. /\ d.event \in allSections[d.at].events
      /\ d = [service |-> d.service, event |-> d.event, at |-> d.at]
  BY CopyOf
<1>3. c.event.id = d.event.id /\ c.service = d.service
  BY DEF SameEvent
<1>4. c.event = d.event
  BY <1>1, <1>2, <1>3, BroadcastAssumption
<1> QED BY <1>1, <1>2, <1>3, <1>4

(* Of the copies of an event there is one preferred to all the others.     *)
LEMMA RichestCopy ==
    ASSUME Kept, NEW given \in Copies
    PROVE  \E c \in Copies :
              /\ SameEvent(c, given)
              /\ \A o \in Copies : SameEvent(c, o) /\ o # c => Preferred(c, o)
<1> DEFINE K == {c \in Copies : SameEvent(c, given)}
           Best(c, n) == \A o \in K : o.at <= n /\ o # c => Preferred(c, o)
           S == {n \in Nat : (\E c \in K : c.at <= n) => \E c \in K : c.at <= n /\ Best(c, n)}
<1>1. \A c \in K : c.at \in Nat /\ Score(c.event) \in Int
  BY CopyOf
<1>2. \A c, d \in K : c.at = d.at => c = d
  <2>1. \A c, d \in K : SameEvent(c, d)
    BY DEF SameEvent
  <2> QED BY <2>1, OneCopyEach
<1> HIDE DEF K
<1>3. 0 \in S
  <2>1. \A c, o \in K : c.at <= 0 /\ o.at <= 0 => c = o
    BY <1>1, <1>2
  <2> QED BY <2>1
<1>4. ASSUME NEW n \in Nat, n \in S PROVE n + 1 \in S
  <2> SUFFICES ASSUME NEW x \in K, x.at <= n + 1
               PROVE  \E c \in K : c.at <= n + 1 /\ Best(c, n + 1)
    OBVIOUS
  <2>1. CASE \E y \in K : y.at = n + 1
    <3>1. PICK y \in K : y.at = n + 1
      BY <2>1
    <3>2. \A o \in K : o.at <= n + 1 => o = y \/ o.at <= n
      BY <1>1, <1>2, <3>1
    <3>3. CASE \E c \in K : c.at <= n
      <4>1. PICK c \in K : c.at <= n /\ Best(c, n)
        BY <1>4, <3>3
      <4>2. CASE Score(y.event) > Score(c.event)
        <5>1. Best(y, n + 1)
          <6> SUFFICES ASSUME NEW o \in K, o.at <= n + 1, o # y PROVE Preferred(y, o)
            OBVIOUS
          <6>1. Score(c.event) >= Score(o.event)
            BY <1>1, <3>2, <4>1 DEF Preferred
          <6> QED BY <1>1, <4>2, <6>1 DEF Preferred
        <5> QED BY <3>1, <5>1
      <4>3. CASE ~(Score(y.event) > Score(c.event))
        <5>1. Preferred(c, y)
          BY <1>1, <3>1, <4>1, <4>3 DEF Preferred
        <5>2. Best(c, n + 1)
          BY <3>2, <4>1, <5>1
        <5>3. c.at <= n + 1
          BY <1>1, <4>1
        <5> QED BY <5>2, <5>3
      <4> QED BY <4>2, <4>3
    <3>4. CASE ~\E c \in K : c.at <= n
      <4>1. Best(y, n + 1)
        BY <3>2, <3>4
      <4> QED BY <3>1, <4>1
    <3> QED BY <3>3, <3>4
  <2>2. CASE ~\E y \in K : y.at = n + 1
    <3>1. \A o \in K : o.at <= n + 1 <=> o.at <= n
      BY <1>1, <2>2
    <3>2. PICK c \in K : c.at <= n /\ Best(c, n)
      BY <1>4, <3>1
    <3>3. Best(c, n + 1)
      BY <3>1, <3>2
    <3> QED BY <3>1, <3>2, <3>3
  <2> QED BY <2>1, <2>2
<1>5. Nat \subseteq S
  <2> HIDE DEF S
  <2> QED BY <1>3, <1>4, Induct
<1>6. Len(allSections) \in Nat /\ \A c \in K : c.at <= Len(allSections)
  <2>1. Len(allSections) \in Nat /\ DOMAIN allSections = 1 .. Len(allSections)
    BY DEF Kept
  <2>2. \A c \in K : c.at \in DOMAIN allSections
    BY CopyOf DEF K
  <2> QED BY <2>1, <2>2
<1>7. given \in K
  BY DEF K, SameEvent
<1>8. Len(allSections) \in S
  BY <1>5, <1>6
<1>9. PICK c \in K : Best(c, Len(allSections))
  BY <1>6, <1>7, <1>8
<1>10. \A o \in Copies : SameEvent(c, o) => o \in K
  BY <1>9 DEF K, SameEvent
<1> QED BY <1>6, <1>9, <1>10 DEF K

-----------------------------------------------------------------------------
(* The listing.                                                            *)

LEMMA ImageFinite ==
    ASSUME NEW S, IsFiniteSet(S), NEW f
    PROVE  IsFiniteSet({f[x] : x \in S})
<1> DEFINE g == [x \in S |-> f[x]]
           T == {f[x] : x \in S}
<1>1. g \in Surjection(S, T)
  <2>1. g \in [S -> T]
    OBVIOUS
  <2>2. \A t \in T : \E x \in S : g[x] = t
    OBVIOUS
  <2> QED BY <2>1, <2>2 DEF Surjection
<1> QED BY <1>1, FS_Surjection

LEMMA GuideEntry ==
    ASSUME NEW g \in Guide
    PROVE  \E c \in Copies :
              /\ g = [service |-> c.service, event |-> c.event]
              /\ \A o \in Copies : SameEvent(c, o) /\ o # c => Preferred(c, o)
BY DEF Guide

LEMMA GuideFinite ==
    ASSUME Kept
    PROVE  IsFiniteSet(Guide)
<1> DEFINE places == 1 .. Len(allSections)
           serviceAt == [i \in places |-> allSections[i].service]
           eventsAt == [i \in places |-> allSections[i].events]
           A == {serviceAt[i] : i \in places}
           E == UNION {eventsAt[i] : i \in places}
           pair == [p \in A \X E |-> [service |-> p[1], event |-> p[2]]]
<1>1. Len(allSections) \in Nat /\ DOMAIN allSections = places
  BY DEF Kept
<1>2. IsFiniteSet(places)
  BY <1>1, FS_Interval
<1>3. IsFiniteSet(A)
  <2> HIDE DEF serviceAt, places
  <2> QED BY <1>2, ImageFinite
<1>4. IsFiniteSet(E)
  <2>1. \A i \in places : IsFiniteSet(eventsAt[i])
    <3> SUFFICES ASSUME NEW i \in places PROVE IsFiniteSet(allSections[i].events)
      OBVIOUS
    <3>1. allSections[i] \in Broadcast
      BY <1>1 DEF Kept
    <3> QED BY <3>1, BroadcastAssumption
  <2> HIDE DEF eventsAt, places
  <2>2. IsFiniteSet({eventsAt[i] : i \in places})
    BY <1>2, ImageFinite
  <2> QED BY <2>1, <2>2, FS_UNION
<1>5. IsFiniteSet(A \X E)
  <2> HIDE DEF A, E
  <2> QED BY <1>3, <1>4, FS_Product
<1>6. Guide \subseteq {pair[p] : p \in A \X E}
  <2> SUFFICES ASSUME NEW g \in Guide PROVE g \in {pair[p] : p \in A \X E}
    OBVIOUS
  <2>1. PICK c \in Copies : g = [service |-> c.service, event |-> c.event]
    BY GuideEntry
  <2>2. /\ c.at \in places /\ c.service = serviceAt[c.at]
        /\ c.event \in eventsAt[c.at]
    BY <1>1, CopyOf
  <2>3. <<c.service, c.event>> \in A \X E
    BY <2>2
  <2>4. pair[<<c.service, c.event>>] = g
    BY <2>1, <2>3
  <2> HIDE DEF pair, A, E
  <2> QED BY <2>3, <2>4
<1>7. IsFiniteSet({pair[p] : p \in A \X E})
  <2> HIDE DEF pair, A, E
  <2> QED BY <1>5, ImageFinite
<1> QED BY <1>6, <1>7, FS_Subset

(* The listing holds the whole guide, each entry once.                     *)
LEMMA ListedGuide ==
    ASSUME Kept, listing \in Orders(Guide)
    PROVE  /\ DOMAIN listing = 1 .. Len(listing)
           /\ \A i \in DOMAIN listing : listing[i] \in Guide
           /\ \A i, j \in DOMAIN listing : i # j => listing[i] # listing[j]
           /\ Listed = Guide
<1> DEFINE n == Cardinality(Guide)
<1>1. IsFiniteSet(Guide) /\ n \in Nat
  BY GuideFinite, FS_CardinalityType
<1> HIDE DEF n
<1>2. listing \in [1 .. n -> Guide] /\ DOMAIN listing = 1 .. n
  BY DEF Orders, n
<1>3. listing \in Seq(Guide) /\ Len(listing) = n
  BY <1>1, <1>2
<1>4. \A i, j \in DOMAIN listing : i # j => listing[i] # listing[j]
  <2> SUFFICES ASSUME NEW i \in 1 .. n, NEW j \in 1 .. n, i # j
               PROVE  listing[i] # listing[j]
    BY <1>2
  <2>1. i < j \/ j < i
    BY <1>1
  <2> QED BY <1>2, <2>1 DEF Orders
<1>5. listing \in Injection(1 .. n, Guide)
  BY <1>2, <1>4 DEF Injection, IsInjective
<1>6. Cardinality(1 .. n) = Cardinality(Guide)
  BY <1>1, FS_Interval DEF n
<1>7. listing \in Surjection(1 .. n, Guide)
  BY <1>1, <1>5, <1>6, FS_Injection
<1> QED BY <1>2, <1>3, <1>4, <1>7 DEF Listed, Surjection

LEMMA NothingListed ==
    ASSUME Printed, ~reported
    PROVE  DOMAIN listing = {} /\ Listed = {}
BY DEF Printed, Listed

(* What is listed was broadcast for the service it is listed for, in a     *)
(* table that was asked for, and no event is listed twice: neither damage  *)
(* nor the numbering that services share brings in another's.              *)
THEOREM GuideStaysBroadcast == HarvestSpec => []GuideIsBroadcast
<1>1. ASSUME Kept, Printed PROVE GuideIsBroadcast
  <2>1. CASE ~reported
    BY <1>1, <2>1, NothingListed DEF GuideIsBroadcast
  <2>2. CASE reported
    <3>1. /\ \A i \in DOMAIN listing : listing[i] \in Guide
          /\ \A i, j \in DOMAIN listing : i # j => listing[i] # listing[j]
          /\ Listed = Guide
      BY <1>1, <2>2, ListedGuide DEF Printed
    <3>2. ASSUME NEW g \in Guide
          PROVE  \E s \in heard : Relevant(s) /\ s.service = g.service /\ g.event \in s.events
      <4>1. PICK c \in Copies : g = [service |-> c.service, event |-> c.event]
        BY GuideEntry
      <4>2. g.service = c.service /\ g.event = c.event
        BY <4>1
      <4> QED BY <1>1, <4>2, CopyOf
    <3>3. ASSUME NEW g \in Guide, NEW h \in Guide, g.service = h.service,
                 g.event.id = h.event.id
          PROVE  g = h
      <4>1. PICK c \in Copies :
              /\ g = [service |-> c.service, event |-> c.event]
              /\ \A o \in Copies : SameEvent(c, o) /\ o # c => Preferred(c, o)
        BY GuideEntry
      <4>2. PICK d \in Copies :
              /\ h = [service |-> d.service, event |-> d.event]
              /\ \A o \in Copies : SameEvent(d, o) /\ o # d => Preferred(d, o)
        BY GuideEntry
      <4>3. SameEvent(c, d) /\ SameEvent(d, c)
        BY <3>3, <4>1, <4>2 DEF SameEvent
      <4>4. c = d
        <5> SUFFICES ASSUME c # d PROVE FALSE
          OBVIOUS
        <5>1. Preferred(c, d) /\ Preferred(d, c)
          BY <4>1, <4>2, <4>3
        <5>2. /\ Score(c.event) \in Int /\ Score(d.event) \in Int
              /\ c.at \in Nat /\ d.at \in Nat
          BY <1>1, CopyOf
        <5> QED BY <5>1, <5>2 DEF Preferred
      <4> QED BY <4>1, <4>2, <4>4
    <3>4. ASSUME NEW i \in DOMAIN listing, NEW j \in DOMAIN listing, i # j
          PROVE  <<listing[i].service, listing[i].event.id>>
                   # <<listing[j].service, listing[j].event.id>>
      BY <3>1, <3>3, <3>4
    <3> QED BY <3>1, <3>2, <3>4 DEF GuideIsBroadcast
  <2> QED BY <2>1, <2>2
<1> QED BY <1>1, HarvestKept, PTL

(* The listing is in the order of the days the events start on.            *)
THEOREM GuideStaysChronological == HarvestSpec => []GuideChronological
<1>1. ASSUME Kept, Printed PROVE GuideChronological
  <2>1. CASE ~reported
    BY <1>1, <2>1, NothingListed DEF GuideChronological
  <2>2. CASE reported
    <3> SUFFICES ASSUME NEW i \in DOMAIN listing, NEW j \in DOMAIN listing, i < j
                 PROVE  listing[i].event.start <= listing[j].event.start
      BY DEF GuideChronological
    <3> DEFINE a == listing[i].event.start
               b == listing[j].event.start
    <3>1. listing[i] \in Guide /\ listing[j] \in Guide
      BY <1>1, <2>2, ListedGuide DEF Printed
    <3>2. NotAfter(listing[i], listing[j])
      BY <1>1, <2>2 DEF Printed, Orders
    <3>3. \A g \in Guide : g.event.start \in Days
      <4> SUFFICES ASSUME NEW g \in Guide PROVE g.event.start \in Days
        OBVIOUS
      <4>1. PICK c \in Copies : g = [service |-> c.service, event |-> c.event]
        BY GuideEntry
      <4> QED BY <1>1, <4>1, CopyOf DEF IsEvent
    <3>4. a \in Days /\ b \in Days
      BY <3>1, <3>3
    <3>5. Before(DateOf(a), DateOf(b)) \/ DateOf(a) = DateOf(b)
      BY <3>2 DEF NotAfter
    <3> HIDE DEF a, b
    <3>6. ~(b < a)
      <4> SUFFICES ASSUME b < a PROVE FALSE
        OBVIOUS
      <4>1. Before(DateOf(b), DateOf(a))
        BY <3>4, DatesInOrder
      <4> QED BY <3>4, <3>5, <4>1, DateTyped DEF Before
    <3>7. a <= b
      BY <3>4, <3>6, DaysNatural
    <3> QED BY <3>7 DEF a, b
  <2> QED BY <2>1, <2>2
<1> QED BY <1>1, HarvestKept, PTL

(* Every section heard is in the guide with all its events, in one of the  *)
(* versions heard; only an event whose richest copy has neither title nor  *)
(* text is left out.                                                       *)
THEOREM GuideStaysComplete == HarvestSpec => []GuideComplete
<1>1. ASSUME Kept, Printed PROVE GuideComplete
  <2> SUFFICES ASSUME reported, NEW s \in heard, Relevant(s)
               PROVE  \E t \in heard :
                         /\ <<t.service, t.table, t.number>> = <<s.service, s.table, s.number>>
                         /\ \A e \in t.events :
                               \/ \E c \in Listed : c.service = s.service /\ c.event.id = e.id
                               \/ /\ ~includeEmpty
                                  /\ \E u \in heard : \E f \in u.events :
                                        /\ u.service = s.service /\ f.id = e.id
                                        /\ f.letters = 0 /\ Score(f) >= Score(e)
    BY DEF GuideComplete
  <2>1. PICK i \in 1 .. Len(allSections) : Numbering(allSections[i]) = Numbering(s)
    BY <1>1 DEF Kept, Seen
  <2> DEFINE t == allSections[i]
  <2>2. t \in heard /\ <<t.service, t.table, t.number>> = <<s.service, s.table, s.number>>
    BY <1>1, <2>1 DEF Kept, Numbering
  <2>3. ASSUME NEW e \in t.events
        PROVE  \/ \E c \in Listed : c.service = s.service /\ c.event.id = e.id
               \/ /\ ~includeEmpty
                  /\ \E u \in heard : \E f \in u.events :
                        /\ u.service = s.service /\ f.id = e.id
                        /\ f.letters = 0 /\ Score(f) >= Score(e)
    <3> DEFINE given == [service |-> t.service, event |-> e, at |-> i]
    <3>1. given \in Copies
      BY <2>3, CopyMade
    <3>2. given.service = s.service /\ given.event = e
      BY <2>2
    <3> HIDE DEF given, t
    <3>3. PICK c \in Copies :
            /\ SameEvent(c, given)
            /\ \A o \in Copies : SameEvent(c, o) /\ o # c => Preferred(c, o)
      BY <1>1, <3>1, RichestCopy
    <3>4. c.service = s.service /\ c.event.id = e.id
      BY <3>2, <3>3 DEF SameEvent
    <3>5. CASE includeEmpty \/ c.event.letters > 0
      <4>1. [service |-> c.service, event |-> c.event] \in Guide
        BY <3>3, <3>5 DEF Guide
      <4>2. [service |-> c.service, event |-> c.event] \in Listed
        BY <1>1, <4>1, ListedGuide DEF Printed
      <4> QED BY <3>4, <4>2
    <3>6. CASE ~(includeEmpty \/ c.event.letters > 0)
      <4>1. c.event.letters = 0
        BY <1>1, <3>6, CopyOf DEF IsEvent
      <4>2. Score(c.event) >= Score(e)
        <5>1. Score(c.event) \in Int /\ Score(given.event) \in Int
          BY <1>1, <3>1, CopyOf
        <5>2. c = given \/ Preferred(c, given)
          BY <3>1, <3>3
        <5>3. Score(c.event) >= Score(given.event)
          BY <5>1, <5>2 DEF Preferred
        <5> QED BY <3>2, <5>3
      <4>3. /\ allSections[c.at] \in heard /\ c.event \in allSections[c.at].events
            /\ allSections[c.at].service = c.service
        BY <1>1, CopyOf
      <4> QED BY <3>4, <3>6, <4>1, <4>2, <4>3
    <3> QED BY <3>5, <3>6
  <2> QED BY <2>2, <2>3
<1> QED BY <1>1, HarvestKept, PTL
=============================================================================
