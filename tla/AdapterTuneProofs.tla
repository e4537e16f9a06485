-------------------------- MODULE AdapterTuneProofs --------------------------
(***************************************************************************)
(* Proofs about AdapterTune, for any set of processes, muxes and programs  *)
(* and any size of the filter table.                                       *)
(***************************************************************************)
EXTENDS AdapterTune, FiniteSetTheorems, TLAPS

(* Every variable keeps its type: in particular a process reads SI only    *)
(* from a PID and taps only PIDs.                                          *)
THEOREM TypeCorrect == Spec => []TypeOK
<1>1. Init => TypeOK
  BY ConstantsAssumption DEF Init, TypeOK, PCs, Active, Setup, Output, NoRead, Tables, Pids
<1>2. TypeOK /\ [Next]_vars => TypeOK'
  <2> SUFFICES ASSUME TypeOK, [Next]_vars
               PROVE  TypeOK'
    OBVIOUS
  <2> USE ConstantsAssumption DEF TypeOK, PCs, Active, Setup, Output, Tables, Pids, NoRead, TapsOf,
          Goto, BeginRead, CloseTaps, Forget, procVars, feVars
  <2>1. CASE UNCHANGED vars
    BY <2>1 DEF vars
  <2>2. CASE Settle \/ SignalLoss
    BY <2>2 DEF Settle, SignalLoss
  <2>3. ASSUME NEW p \in Procs, NEW j \in Jobs, Start(p, j)
        PROVE  TypeOK'
    BY <2>3 DEF Start
  <2>4. ASSUME NEW p \in Procs, Step(p)
        PROVE  TypeOK'
    <3>1. CASE CallFails(p) \/ NoShortcut(p) \/ LockTimeout(p) \/ TapsOpen(p) \/ OpenDvr(p)
      BY <3>1 DEF CallFails, NoShortcut, LockTimeout, TapsOpen, OpenDvr
    <3>2. CASE TryShortcut(p)
      BY <3>2 DEF TryShortcut
    <3>3. CASE TuneFrontend(p)
      <4>1. job[p].mux \in Muxes
        BY DEF Kinds
      <4> QED BY <3>3, <4>1 DEF TuneFrontend
    <3>4. CASE LockSeen(p)
      <4>1. CASE job[p].kind \in {"tune", "scan"} /\ BeginRead(p, "pat", PatPid) /\ UNCHANGED pids
        BY <3>4, <4>1 DEF LockSeen, FixedPids
      <4>2. CASE UNCHANGED read
        <5>1. pc' \in [Procs -> PCs]
          BY <3>4, <4>2 DEF LockSeen, FixedPids
        <5>2. pids' \in [Procs -> SUBSET Pids]
          <6>1. {FullPid} \in SUBSET Nat /\ EitPids \in SUBSET Nat
            OBVIOUS
          <6>2. FixedPids(job[p]) \in SUBSET Pids
            BY <6>1 DEF FixedPids
          <6>3. pids' = pids \/ pids' = [pids EXCEPT ![p] = FixedPids(job[p])]
            BY <3>4 DEF LockSeen
          <6>4. pids \in [Procs -> SUBSET Pids]
            OBVIOUS
          <6> HIDE DEF Pids, FixedPids, TypeOK
          <6> QED BY <6>2, <6>3, <6>4
        <5> QED BY <3>4, <4>2, <5>1, <5>2 DEF LockSeen, FixedPids
      <4> QED BY <3>4, <4>1, <4>2 DEF LockSeen, FixedPids
    <3>5. CASE SiOpen(p)
      BY <3>5 DEF SiOpen
    <3>6. CASE SiFails(p) \/ TapFails(p)
      BY <3>6 DEF SiFails, TapFails
    <3>7. CASE PatForService(p)
      <4>1. PICK prog \in Programs : BeginRead(p, "pmt", prog.pmt)
        BY <3>7 DEF PatForService
      <4>2. prog.pmt \in Nat
        OBVIOUS
      <4> QED BY <3>7, <4>1, <4>2 DEF PatForService, Arrives
    <3>8. CASE PmtForService(p)
      <4>1. PICK prog \in Programs : pids' = [pids EXCEPT ![p] = ServicePids(prog)]
        BY <3>8 DEF PmtForService
      <4>2. ServicePids(prog) \in SUBSET Nat
        BY DEF ServicePids
      <4> QED BY <3>8, <4>1, <4>2 DEF PmtForService, Arrives
    <3>9. CASE PatForScan(p)
      BY <3>9 DEF PatForScan, Arrives
    <3>10. CASE SdtForScan(p)
      <4>1. {prog.sid : prog \in {q \in Programs : q.mux = delivering}} \subseteq Sids
        OBVIOUS
      <4> QED BY <3>10, <4>1 DEF SdtForScan, Arrives
    <3>11. CASE OpenTap(p)
      BY <3>11 DEF OpenTap, Untapped
    <3>12. CASE Exit(p)
      BY <3>12 DEF Exit
    <3> QED BY <2>4, <3>1, <3>2, <3>3, <3>4, <3>5, <3>6, <3>7, <3>8, <3>9, <3>10, <3>11, <3>12
            DEF Step
  <2>5. ASSUME NEW p \in Procs, LoopEnds(p) \/ Kill(p) \/ Kernel(p)
        PROVE  TypeOK'
    <3>1. CASE LoopEnds(p) \/ Kill(p)
      BY <3>1 DEF LoopEnds, Kill
    <3>2. CASE KernelUnlocks(p) \/ KernelClosesTaps(p)
      BY <3>2 DEF KernelUnlocks, KernelClosesTaps
    <3>3. CASE KernelReaps(p)
      BY <3>3 DEF KernelReaps
    <3> QED BY <2>5, <3>1, <3>2, <3>3 DEF Kernel
  <2> HIDE DEF TypeOK
  <2>6. CASE Next
    BY <2>2, <2>3, <2>4, <2>5, <2>6 DEF Next
  <2> QED BY <2>1, <2>6
<1> QED BY <1>1, <1>2, PTL DEF Spec

-----------------------------------------------------------------------------
(* The flock: a running command that locks holds it, and it is held only by*)
(* a process that locks and has not been reaped.                           *)
LockInv ==
    /\ \A p \in Procs \ Unlocked : pc[p] \in Active => lock = p
    /\ lock # NoProc => lock \in Procs \ Unlocked /\ pc[lock] # "idle"

LEMMA LockInvariant == Spec => []LockInv
<1>1. Init => LockInv
  BY ConstantsAssumption DEF Init, LockInv, Active, Setup, Output
<1>2. TypeOK /\ LockInv /\ [Next]_vars => LockInv'
  <2> SUFFICES ASSUME TypeOK, LockInv, [Next]_vars
               PROVE  LockInv'
    OBVIOUS
  <2> USE ConstantsAssumption DEF PCs, Active, Setup, Output
  <2>1. CASE UNCHANGED vars
    BY <2>1 DEF vars, procVars, LockInv
  <2>2. CASE Settle \/ SignalLoss
    BY <2>2 DEF Settle, SignalLoss, procVars, LockInv
  <2>3. ASSUME NEW p \in Procs, NEW j \in Jobs, Start(p, j)
        PROVE  LockInv'
    BY <2>3 DEF Start, Goto, LockInv, TypeOK
  <2>4. ASSUME NEW p \in Procs, pc[p] \in Active, lock' = lock,
               \E where \in Active \cup {"dying"} : Goto(p, where)
        PROVE  LockInv'
    BY <2>4 DEF Goto, LockInv, TypeOK
  <2>5. ASSUME NEW p \in Procs, Step(p), ~Exit(p)
        PROVE  LockInv'
    <3>1. CASE OpenTap(p)
      BY <3>1 DEF OpenTap, procVars, LockInv
    <3>2. CASE ~OpenTap(p)
      <4>1. pc[p] \in Active /\ lock' = lock
        BY <2>5, <3>2 DEF Step, CallFails, TryShortcut, NoShortcut, TuneFrontend, LockSeen, FixedPids,
           LockTimeout, SiOpen, SiFails, Arrives, PatForService, PmtForService, PatForScan,
           SdtForScan, TapsOpen, TapFails, OpenDvr
      <4>2. \E where \in Active \cup {"dying"} : Goto(p, where)
        BY <2>5, <3>2 DEF Step, CallFails, TryShortcut, NoShortcut, TuneFrontend, LockSeen, FixedPids,
           LockTimeout, SiOpen, SiFails, PatForService, PmtForService, PatForScan,
           SdtForScan, TapsOpen, TapFails, OpenDvr, BeginRead
      <4> QED BY <2>4, <4>1, <4>2
    <3> QED BY <3>1, <3>2
  <2>6. ASSUME NEW p \in Procs, LoopEnds(p) \/ Kill(p)
        PROVE  LockInv'
    BY <2>4, <2>6 DEF LoopEnds, Kill
  <2>7. ASSUME NEW p \in Procs, Exit(p)
        PROVE  LockInv'
    BY <2>7 DEF Exit, Forget, LockInv, TypeOK
  <2>8. ASSUME NEW p \in Procs, Kernel(p)
        PROVE  LockInv'
    BY <2>8 DEF Kernel, KernelUnlocks, KernelClosesTaps, KernelReaps, Forget, procVars,
                LockInv, TypeOK
  <2> HIDE DEF LockInv
  <2>9. CASE Next
    BY <2>2, <2>3, <2>5, <2>6, <2>7, <2>8, <2>9 DEF Next
  <2> QED BY <2>1, <2>9
<1> QED BY <1>1, <1>2, TypeCorrect, PTL DEF Spec

-----------------------------------------------------------------------------
(* The filter table.                                                       *)

(* Opening a demux adds one tap to its process and none to another.        *)
LEMMA AddTap ==
    ASSUME NEW p \in Procs, NEW pid, filters' = filters \cup {<<p, pid>>}
    PROVE  /\ TapsOf(p)' = TapsOf(p) \cup {<<p, pid>>}
           /\ \A q \in Procs : q # p => TapsOf(q)' = TapsOf(q)
BY DEF TapsOf

(* Dropping its demuxes leaves a process none and the others theirs.       *)
LEMMA DropTaps ==
    ASSUME NEW p \in Procs, CloseTaps(p)
    PROVE  /\ TapsOf(p)' = {}
           /\ \A q \in Procs : q # p => TapsOf(q)' = TapsOf(q)
           /\ filters' \subseteq filters
BY DEF TapsOf, CloseTaps

(* TapsAccounted for one process, and the table it shares.                 *)
TapsAt(p) ==
    /\ pc[p] \in {"idle", "open", "tune", "waitLock", "siOpen", "exit"} => TapsOf(p) = {}
    /\ pc[p] = "siWait" => TapsOf(p) = {<<p, read[p].pid>>}
    /\ pc[p] = "taps" => TapsOf(p) \subseteq {p} \X pids[p]
    /\ pc[p] \in {"dvr"} \cup Output => TapsOf(p) = {p} \X pids[p]

TableFits == IsFiniteSet(filters) /\ Cardinality(filters) <= FilterTable

LEMMA TableStep ==
    ASSUME TableFits,
           \/ filters' \subseteq filters
           \/ \E x : Cardinality(filters) < FilterTable /\ filters' = filters \cup {x}
    PROVE  TableFits'
<1>1. Cardinality(filters) \in Nat
  BY FS_CardinalityType DEF TableFits
<1>2. CASE filters' \subseteq filters
  <2>1. IsFiniteSet(filters') /\ Cardinality(filters') <= Cardinality(filters)
    BY <1>2, FS_Subset DEF TableFits
  <2>2. Cardinality(filters') \in Nat
    BY <2>1, FS_CardinalityType
  <2> QED BY <1>1, <2>1, <2>2, ConstantsAssumption DEF TableFits
<1>3. ASSUME NEW x, Cardinality(filters) < FilterTable, filters' = filters \cup {x}
      PROVE  TableFits'
  <2>1. IsFiniteSet(filters')
    BY <1>3, FS_AddElement DEF TableFits
  <2>2. \/ Cardinality(filters') = Cardinality(filters)
        \/ Cardinality(filters') = Cardinality(filters) + 1
    BY <1>3, FS_AddElement DEF TableFits
  <2> QED BY <1>1, <1>3, <2>1, <2>2, ConstantsAssumption DEF TableFits
<1> QED BY <1>2, <1>3

(* What p does to its own state and taps leaves the others' accounts as    *)
(* they were.                                                              *)
LEMMA OthersKeepTaps ==
    ASSUME NEW p \in Procs, NEW q \in Procs, q # p, TapsAt(q),
           pc'[q] = pc[q], read'[q] = read[q], pids'[q] = pids[q],
           TapsOf(q)' = TapsOf(q)
    PROVE  TapsAt(q)'
BY DEF TapsAt

TapsInv == TableFits /\ \A p \in Procs : TapsAt(p)

(* The filter table is never overrun and no demux is leaked, whichever call*)
(* of the command fails and whenever it is killed: TapsAccounted in every  *)
(* state, with or without the adapter lock.                                *)
THEOREM TapsAreAccounted == Spec => []TapsAccounted
<1> USE DEF PCs, Active, Setup, Output
<1>1. Init => TapsInv
  <2> SUFFICES ASSUME Init PROVE TapsInv
    OBVIOUS
  <2>1. IsFiniteSet(filters) /\ Cardinality(filters) = 0
    BY FS_EmptySet DEF Init
  <2> QED BY <2>1, ConstantsAssumption DEF Init, TapsInv, TableFits, TapsAt, TapsOf
<1>2. TypeOK /\ TapsInv /\ [Next]_vars => TapsInv'
  <2> SUFFICES ASSUME TypeOK, TapsInv, [Next]_vars
               PROVE  TapsInv'
    OBVIOUS
  <2>1. CASE UNCHANGED <<pc, read, pids, filters>>
    BY <2>1 DEF TapsInv, TableFits, TapsAt, TapsOf
  <2>2. ASSUME NEW p \in Procs,
               \A q \in Procs : q # p =>
                  /\ pc'[q] = pc[q] /\ read'[q] = read[q] /\ pids'[q] = pids[q]
                  /\ TapsOf(q)' = TapsOf(q),
               TableFits', TapsAt(p)'
        PROVE  TapsInv'
    BY <2>2, OthersKeepTaps DEF TapsInv
  <2>3. ASSUME filters' = filters PROVE TableFits' /\ \A q \in Procs : TapsOf(q)' = TapsOf(q)
    BY <2>3 DEF TapsInv, TableFits, TapsOf
  (* Between two phases that hold no tap.                                  *)
  <2>4. ASSUME NEW p \in Procs, filters' = filters,
               pc[p] \in {"idle", "open", "tune", "waitLock"} \/ TapsOf(p) = {},
               NEW where \in {"idle", "open", "tune", "waitLock", "siOpen", "taps", "exit"},
               Goto(p, where),
               \/ UNCHANGED <<read, pids>>
               \/ \E x : read' = [read EXCEPT ![p] = x] /\ UNCHANGED pids
               \/ \E x : pids' = [pids EXCEPT ![p] = x] /\ UNCHANGED read
               \/ \E x, y : /\ pids' = [pids EXCEPT ![p] = x]
                            /\ read' = [read EXCEPT ![p] = y]
        PROVE  TapsInv'
    <3>1. TapsOf(p) = {}
      BY <2>4 DEF TapsInv, TapsAt
    <3>2. pc'[p] = where /\ \A q \in Procs : q # p =>
                pc'[q] = pc[q] /\ read'[q] = read[q] /\ pids'[q] = pids[q]
      BY <2>4 DEF Goto, TypeOK
    <3>3. TapsAt(p)'
      BY <2>3, <2>4, <3>1, <3>2 DEF TapsAt
    <3> QED BY <2>2, <2>3, <2>4, <3>2, <3>3
  (* Closing every tap of p.                                               *)
  <2>5. ASSUME NEW p \in Procs, CloseTaps(p),
               NEW where \in {"tune", "siOpen", "taps", "exit", "dying"}, Goto(p, where),
               \/ UNCHANGED <<read, pids>>
               \/ \E x : read' = [read EXCEPT ![p] = x] /\ UNCHANGED pids
               \/ \E x : pids' = [pids EXCEPT ![p] = x] /\ UNCHANGED read
        PROVE  TapsInv'
    <3>1. /\ TapsOf(p)' = {} /\ filters' \subseteq filters
          /\ \A q \in Procs : q # p => TapsOf(q)' = TapsOf(q)
      BY <2>5, DropTaps
    <3>2. pc'[p] = where /\ \A q \in Procs : q # p =>
                pc'[q] = pc[q] /\ read'[q] = read[q] /\ pids'[q] = pids[q]
      BY <2>5 DEF Goto, TypeOK
    <3>3. TapsAt(p)'
      BY <3>1, <3>2, <2>5 DEF TapsAt
    <3> QED BY <2>2, <3>1, <3>2, <3>3, TableStep DEF TapsInv
  <2>6. ASSUME NEW p \in Procs, NEW j \in Jobs, Start(p, j)
        PROVE  TapsInv'
    BY <2>4, <2>6 DEF Start
  <2>7. ASSUME NEW p \in Procs, Step(p)
        PROVE  TapsInv'
    <3>1. CASE CallFails(p) \/ NoShortcut(p) \/ LockTimeout(p)
      BY <2>4, <3>1 DEF CallFails, NoShortcut, LockTimeout
    <3>2. CASE TryShortcut(p)
      BY <2>4, <3>2 DEF TryShortcut, BeginRead
    <3>3. CASE TuneFrontend(p)
      BY <2>4, <3>3 DEF TuneFrontend
    <3>4. CASE LockSeen(p)
      BY <2>4, <3>4 DEF LockSeen, FixedPids, BeginRead
    <3>5. CASE SiOpen(p)
      <4>1. TapsOf(p) = {}
        BY <3>5 DEF SiOpen, TapsInv, TapsAt
      <4>2. /\ TapsOf(p)' = {<<p, read[p].pid>>}
            /\ \A q \in Procs : q # p => TapsOf(q)' = TapsOf(q)
        BY <3>5, <4>1, AddTap DEF SiOpen
      <4>3. pc'[p] = "siWait" /\ \A q \in Procs : q # p => pc'[q] = pc[q]
        BY <3>5 DEF SiOpen, Goto, TypeOK
      <4>4. TapsAt(p)'
        BY <3>5, <4>2, <4>3 DEF SiOpen, TapsAt
      <4>5. TableFits'
        BY <3>5, TableStep DEF SiOpen, TapsInv
      <4> QED BY <2>2, <3>5, <4>2, <4>3, <4>4, <4>5 DEF SiOpen
    <3>6. CASE SiFails(p) \/ TapFails(p)
      BY <2>5, <3>6 DEF SiFails, TapFails
    <3>7. CASE PatForService(p) \/ PatForScan(p)
      BY <2>5, <3>7 DEF PatForService, PatForScan, Arrives, BeginRead
    <3>8. CASE PmtForService(p) \/ SdtForScan(p)
      BY <2>5, <3>8 DEF PmtForService, SdtForScan, Arrives
    <3>9. CASE OpenTap(p)
      <4>1. PICK pid \in Untapped(p) : filters' = filters \cup {<<p, pid>>}
        BY <3>9 DEF OpenTap
      <4>2. pid \in pids[p] /\ TapsOf(p) \subseteq {p} \X pids[p]
        BY <3>9, <4>1 DEF OpenTap, Untapped, TapsInv, TapsAt
      <4>3. /\ TapsOf(p)' = TapsOf(p) \cup {<<p, pid>>}
            /\ \A q \in Procs : q # p => TapsOf(q)' = TapsOf(q)
        BY <4>1, AddTap
      <4>4. TapsAt(p)'
        BY <3>9, <4>2, <4>3 DEF OpenTap, TapsAt, procVars
      <4>5. TableFits'
        BY <3>9, <4>1, TableStep DEF OpenTap, TapsInv
      <4> QED BY <2>2, <3>9, <4>3, <4>4, <4>5 DEF OpenTap, procVars
    <3>10. CASE TapsOpen(p)
      <4>1. TapsOf(p) = {p} \X pids[p]
        BY <3>10 DEF TapsOpen, Untapped, TapsInv, TapsAt, TapsOf
      <4>2. pc'[p] = "dvr" /\ \A q \in Procs : q # p => pc'[q] = pc[q]
        BY <3>10 DEF TapsOpen, Goto, TypeOK
      <4>3. TapsAt(p)'
        BY <2>3, <3>10, <4>1, <4>2 DEF TapsOpen, TapsAt
      <4> QED BY <2>2, <2>3, <3>10, <4>2, <4>3 DEF TapsOpen
    <3>11. CASE OpenDvr(p)
      <4>1. TapsOf(p) = {p} \X pids[p]
        BY <3>11 DEF OpenDvr, TapsInv, TapsAt
      <4>2. pc'[p] \in Output /\ \A q \in Procs : q # p => pc'[q] = pc[q]
        BY <3>11 DEF OpenDvr, Goto, TypeOK
      <4>3. TapsAt(p)'
        BY <2>3, <3>11, <4>1, <4>2 DEF OpenDvr, TapsAt
      <4> QED BY <2>2, <2>3, <3>11, <4>2, <4>3 DEF OpenDvr
    <3>12. CASE Exit(p)
      <4>1. TapsOf(p) = {}
        BY <3>12 DEF Exit, TapsInv, TapsAt
      <4> QED BY <2>4, <3>12, <4>1 DEF Exit, Forget, Goto
    <3> QED BY <2>7, <3>1, <3>2, <3>3, <3>4, <3>5, <3>6, <3>7, <3>8, <3>9, <3>10, <3>11, <3>12
            DEF Step
  <2>8. ASSUME NEW p \in Procs, LoopEnds(p)
        PROVE  TapsInv'
    BY <2>5, <2>8 DEF LoopEnds
  <2>9. ASSUME NEW p \in Procs, Kill(p)
        PROVE  TapsInv'
    <3>1. pc'[p] = "dying" /\ \A q \in Procs : q # p => pc'[q] = pc[q]
      BY <2>9 DEF Kill, Goto, TypeOK
    <3>2. TapsAt(p)'
      BY <3>1 DEF TapsAt
    <3> QED BY <2>2, <2>3, <2>9, <3>1, <3>2 DEF Kill
  <2>10. ASSUME NEW p \in Procs, KernelClosesTaps(p)
         PROVE  TapsInv'
    <3>1. Goto(p, "dying")
      BY <2>10 DEF KernelClosesTaps, procVars, Goto, TypeOK
    <3> QED BY <2>5, <2>10, <3>1 DEF KernelClosesTaps, procVars
  <2>11. ASSUME NEW p \in Procs, KernelReaps(p)
         PROVE  TapsInv'
    BY <2>4, <2>11 DEF KernelReaps, Forget, Goto
  <2>12. CASE Next
    BY <2>1, <2>6, <2>7, <2>8, <2>9, <2>10, <2>11, <2>12
       DEF Next, Kernel, KernelUnlocks, Settle, SignalLoss, procVars
  <2> QED BY <2>1, <2>12 DEF vars, procVars
<1>3. TapsInv => TapsAccounted
  BY DEF TapsInv, TableFits, TapsAt, TapsAccounted
<1> QED BY <1>1, <1>2, <1>3, TypeCorrect, PTL DEF Spec

(* The DVR of a running command that locks carries no tap of another such  *)
(* command, except one the kernel is tearing down: DvrIsPrivate always     *)
(* holds, however many processes skip the lock.                            *)
THEOREM DvrStaysPrivate == Spec => []DvrIsPrivate
<1>1. TypeOK /\ LockInv /\ TapsAccounted => DvrIsPrivate
  <2> SUFFICES ASSUME TypeOK, LockInv, TapsAccounted,
                      NEW p \in Procs \ Unlocked, NEW q \in Procs \ Unlocked,
                      p # q, pc[p] \in Active, TapsOf(q) # {}
               PROVE  pc[q] = "dying"
    BY DEF DvrIsPrivate
  <2>1. lock = p
    BY DEF LockInv
  <2>2. pc[q] \notin Active
    BY <2>1 DEF LockInv
  <2>3. pc[q] # "idle"
    BY DEF TapsAccounted
  <2> QED BY <2>2, <2>3 DEF TypeOK, PCs
<1> QED BY <1>1, TypeCorrect, LockInvariant, TapsAreAccounted, PTL

-----------------------------------------------------------------------------
(* From the shortcut or the tune on, the frontend is tuned for the command;*)
(* what it read of the mux, and what it will tap, is its own service's.    *)
AfterTune == {"waitLock", "siOpen", "siWait", "taps", "dvr"} \cup Output

Owns(p, prog) == prog.mux = job[p].mux /\ prog.sid = job[p].sid

MuxAt(p) ==
    /\ pc[p] \in AfterTune => tuned = job[p].mux
    /\ pc[p] \in {"siOpen", "siWait"} /\ read[p].table = "sdt" => job[p].kind = "scan"
    /\ pc[p] \in {"siOpen", "siWait"} /\ read[p].table = "pmt" =>
          /\ job[p].kind = "tune"
          /\ delivering \in {NoMux, job[p].mux}
          /\ \E prog \in Programs : Owns(p, prog) /\ prog.pmt = read[p].pid
    /\ pc[p] \in {"taps", "dvr"} \cup Output =>
          [mux |-> job[p].mux, pids |-> pids[p]] \in Wanted(job[p])
    /\ pc[p] \notin {"exit", "dying"} => found[p] = {}
    /\ ~Lingers =>
          \A sid \in found[p] : \E prog \in Programs : prog.mux = job[p].mux /\ prog.sid = sid

MuxInv ==
    Unlocked = {} =>
        /\ ~Lingers => delivering \in {NoMux, tuned}
        /\ \A p \in Procs : MuxAt(p)

(* A step that leaves q and the tuned frequency alone, and delivers nothing*)
(* but what was or should be delivered, keeps q's part.                    *)
LEMMA OthersKeepMux ==
    ASSUME NEW q \in Procs, MuxAt(q),
           pc'[q] = pc[q], job'[q] = job[q], read'[q] = read[q],
           pids'[q] = pids[q], found'[q] = found[q],
           pc[q] \in AfterTune => tuned' = tuned /\ delivering' \in {NoMux, delivering, tuned}
    PROVE  MuxAt(q)'
<1> USE DEF AfterTune, Owns
<1>1. (pc[q] \in AfterTune => tuned = job[q].mux)'
  BY DEF MuxAt
<1>2. (pc[q] \in {"siOpen", "siWait"} /\ read[q].table = "pmt" =>
          /\ job[q].kind = "tune"
          /\ delivering \in {NoMux, job[q].mux}
          /\ \E prog \in Programs : Owns(q, prog) /\ prog.pmt = read[q].pid)'
  BY DEF MuxAt
<1>3. (pc[q] \in {"taps", "dvr"} \cup Output =>
          [mux |-> job[q].mux, pids |-> pids[q]] \in Wanted(job[q]))'
  <2>1. (Wanted(job[q]))' = Wanted(job[q])
    BY Zenon DEF Wanted, FixedPids
  <2>2. ([mux |-> job[q].mux, pids |-> pids[q]])' = [mux |-> job[q].mux, pids |-> pids[q]]
    OBVIOUS
  <2> QED BY <2>1, <2>2 DEF MuxAt
<1> QED BY <1>1, <1>2, <1>3 DEF MuxAt

(* Two commands are never past their lock at once when every process locks.*)
LEMMA Alone ==
    ASSUME LockInv, Unlocked = {}, NEW p \in Procs, NEW q \in Procs,
           pc[p] \in Active, pc[q] \in Active
    PROVE  p = q
BY DEF LockInv

LEMMA MuxInvariant == Spec => []MuxInv
<1> USE DEF PCs, Active, Setup, Output, AfterTune
<1>1. Init => MuxInv
  <2> SUFFICES ASSUME Init PROVE MuxInv
    OBVIOUS
  <2>1. ASSUME NEW p \in Procs PROVE pc[p] = "idle" /\ found[p] = {}
    BY DEF Init
  <2>2. delivering \in {NoMux, tuned}
    BY DEF Init
  <2> QED BY <2>1, <2>2 DEF MuxInv, MuxAt
<1>2. TypeOK /\ LockInv /\ MuxInv /\ [Next]_vars => MuxInv'
  <2> SUFFICES ASSUME TypeOK, LockInv, MuxInv, [Next]_vars, Unlocked = {}
               PROVE  (/\ ~Lingers => delivering \in {NoMux, tuned}
                       /\ \A p \in Procs : MuxAt(p))'
    BY DEF MuxInv
  <2> DEFINE Goal == (/\ ~Lingers => delivering \in {NoMux, tuned}
                      /\ \A p \in Procs : MuxAt(p))'
  <2>1. (~Lingers => delivering \in {NoMux, tuned}) /\ \A p \in Procs : MuxAt(p)
    BY DEF MuxInv
  <2>2. ASSUME UNCHANGED <<procVars, tuned>>, delivering' \in {NoMux, delivering, tuned}
        PROVE  Goal
    BY <2>1, <2>2, OthersKeepMux DEF procVars
  (* p moves, the frontend does not.                                       *)
  <2>3. ASSUME NEW p \in Procs, UNCHANGED feVars, MuxAt(p)',
               \A q \in Procs : q # p =>
                  /\ pc'[q] = pc[q] /\ job'[q] = job[q] /\ read'[q] = read[q]
                  /\ pids'[q] = pids[q] /\ found'[q] = found[q]
        PROVE  Goal
    BY <2>1, <2>3, OthersKeepMux DEF feVars
  <2>4. ASSUME NEW p \in Procs, NEW j \in Jobs, Start(p, j)
        PROVE  Goal
    <3>1. /\ pc'[p] = "open" /\ found'[p] = {}
          /\ \A q \in Procs : q # p => pc'[q] = pc[q] /\ job'[q] = job[q]
      BY <2>1, <2>4 DEF Start, Goto, TypeOK, MuxAt
    <3>2. MuxAt(p)'
      BY <3>1 DEF MuxAt
    <3> QED BY <2>3, <2>4, <3>1, <3>2 DEF Start
  (* p stops reading and tapping.                                          *)
  <2>5. ASSUME NEW p \in Procs, UNCHANGED <<job, read, pids, found, feVars>>,
               NEW where \in {"tune", "exit", "dying"}, Goto(p, where),
               where = "tune" => pc[p] \notin {"exit", "dying"}
        PROVE  Goal
    <3>1. pc'[p] = where /\ \A q \in Procs : q # p => pc'[q] = pc[q]
      BY <2>5 DEF Goto, TypeOK
    <3>2. MuxAt(p)'
      BY <2>1, <2>5, <3>1 DEF MuxAt
    <3> QED BY <2>3, <2>5, <3>1, <3>2
  (* p goes on with the PID set it has.                                    *)
  <2>6. ASSUME NEW p \in Procs, UNCHANGED <<job, read, pids, found, feVars>>,
               \/ pc[p] \in {"taps", "dvr"} /\ \E where \in {"dvr", "stream", "collect"} : Goto(p, where)
               \/ pc[p] = "siOpen" /\ Goto(p, "siWait")
        PROVE  Goal
    <3>1. /\ \/ pc'[p] \in {"dvr", "stream", "collect"} /\ pc[p] \in {"taps", "dvr"}
             \/ pc'[p] = "siWait" /\ pc[p] = "siOpen"
          /\ \A q \in Procs : q # p => pc'[q] = pc[q]
      BY <2>6 DEF Goto, TypeOK
    <3>2. tuned' = tuned /\ delivering' = delivering /\ MuxAt(p)
      BY <2>1, <2>6 DEF feVars
    <3>3. (Wanted(job[p]))' = Wanted(job[p])
      <4>1. job' = job
        BY <2>6
      <4> QED BY <4>1, Zenon DEF Wanted, FixedPids
    <3>4. MuxAt(p)'
      BY <2>6, <3>1, <3>2, <3>3 DEF MuxAt, Owns
    <3> QED BY <2>3, <2>6, <3>1, <3>4
  (* p begins the read of a PAT or an SDT.                                 *)
  <2>7. ASSUME NEW p \in Procs, UNCHANGED <<job, pids, found, feVars>>,
               NEW t \in {"pat", "sdt"}, NEW pid, BeginRead(p, t, pid),
               pc[p] \notin {"exit", "dying"}, tuned = job[p].mux,
               t = "sdt" => job[p].kind = "scan"
        PROVE  Goal
    <3>1. /\ pc'[p] = "siOpen" /\ read'[p].table = t
          /\ \A q \in Procs : q # p => pc'[q] = pc[q] /\ read'[q] = read[q]
      BY <2>7 DEF BeginRead, Goto, TypeOK
    <3>2. MuxAt(p)'
      BY <2>1, <2>7, <3>1 DEF MuxAt, feVars
    <3> QED BY <2>3, <2>7, <3>1, <3>2
  (* p has its PID set.                                                    *)
  <2>8. ASSUME NEW p \in Procs, UNCHANGED <<job, read, found, feVars>>,
               pc[p] \in AfterTune, NEW set, pids' = [pids EXCEPT ![p] = set],
               Goto(p, "taps"), [mux |-> job[p].mux, pids |-> set] \in Wanted(job[p])
        PROVE  Goal
    <3>1. /\ pc'[p] = "taps" /\ pids'[p] = set
          /\ \A q \in Procs : q # p => pc'[q] = pc[q] /\ pids'[q] = pids[q]
      BY <2>8 DEF Goto, TypeOK
    <3>2. (Wanted(job[p]))' = Wanted(job[p])
      <4>1. job' = job
        BY <2>8
      <4> QED BY <4>1, Zenon DEF Wanted, FixedPids
    <3>3. MuxAt(p)'
      BY <2>1, <2>8, <3>1, <3>2 DEF MuxAt, feVars
    <3> QED BY <2>3, <2>8, <3>1, <3>3
  <2>9. ASSUME NEW p \in Procs, Step(p)
        PROVE  Goal
    <3>1. CASE CallFails(p) \/ LockTimeout(p) \/ NoShortcut(p) \/ SiFails(p) \/ TapFails(p)
      BY <2>5, <3>1 DEF CallFails, LockTimeout, NoShortcut, SiFails, TapFails
    <3>2. CASE TryShortcut(p)
      BY <2>7, <3>2 DEF TryShortcut, LooksTuned
    <3>3. CASE TuneFrontend(p)
      <4>1. /\ pc'[p] = "waitLock" /\ pc[p] = "tune"
            /\ \A q \in Procs : q # p => pc'[q] = pc[q] /\ pc[q] \notin Active
        BY <3>3, Alone DEF TuneFrontend, Goto, TypeOK
      <4>2. MuxAt(p)'
        BY <2>1, <3>3, <4>1 DEF TuneFrontend, MuxAt
      <4>3. \A q \in Procs : q # p => MuxAt(q)'
        BY <2>1, <3>3, <4>1, OthersKeepMux DEF TuneFrontend
      <4> QED BY <3>3, <4>2, <4>3 DEF TuneFrontend
    <3>4. CASE LockSeen(p)
      <4>1. tuned = job[p].mux
        BY <2>1, <3>4 DEF LockSeen, FixedPids, MuxAt
      <4>2. CASE job[p].kind \in {"tune", "scan"} /\ BeginRead(p, "pat", PatPid) /\ UNCHANGED pids
        BY <2>7, <3>4, <4>1, <4>2 DEF LockSeen, FixedPids
      <4>3. CASE job[p].kind \in {"full", "epg"}
        <5> DEFINE set == IF job[p].kind = "full" THEN {FullPid} ELSE EitPids
        <5>1. [mux |-> job[p].mux, pids |-> set] \in Wanted(job[p])
          BY <4>3 DEF Wanted, FixedPids
        <5>2. pids' = [pids EXCEPT ![p] = set] /\ Goto(p, "taps") /\ pc[p] = "waitLock"
              /\ UNCHANGED <<job, read, found, feVars>>
          BY <3>4, <4>3 DEF LockSeen, FixedPids
        <5> HIDE DEF set
        <5> QED BY <2>8, <5>1, <5>2
      <4> QED BY <3>4, <4>2, <4>3 DEF LockSeen, FixedPids
    <3>5. CASE SiOpen(p) \/ TapsOpen(p) \/ OpenDvr(p)
      BY <2>6, <3>5 DEF SiOpen, TapsOpen, OpenDvr
    <3>6. CASE PatForService(p)
      <4>1. PICK prog \in Programs :
                /\ prog.mux = delivering /\ prog.sid = job[p].sid
                /\ BeginRead(p, "pmt", prog.pmt)
        BY <3>6 DEF PatForService
      <4>2. /\ pc'[p] = "siOpen" /\ read'[p] = [table |-> "pmt", pid |-> prog.pmt]
            /\ \A q \in Procs : q # p => pc'[q] = pc[q] /\ read'[q] = read[q]
        BY <4>1 DEF BeginRead, Goto, TypeOK
      <4>3. /\ tuned = job[p].mux /\ job[p].kind = "tune" /\ delivering # NoMux
            /\ found[p] = {} /\ job[p] \in Jobs
        BY <2>1, <3>6 DEF PatForService, Arrives, MuxAt, TypeOK
      <4>4. delivering = job[p].mux
        BY <2>1, <4>1, <4>3, LingerAssumption
      <4>5. MuxAt(p)'
        BY <3>6, <4>1, <4>2, <4>3, <4>4 DEF PatForService, MuxAt, Owns, feVars
      <4> QED BY <2>3, <3>6, <4>2, <4>5 DEF PatForService
    <3>7. CASE PmtForService(p)
      <4>1. PICK prog \in Programs :
                /\ prog.mux = delivering /\ prog.pmt = read[p].pid
                /\ pids' = [pids EXCEPT ![p] = ServicePids(prog)]
        BY <3>7 DEF PmtForService
      <4>2. PICK mine \in Programs : Owns(p, mine) /\ mine.pmt = read[p].pid
        BY <2>1, <3>7 DEF PmtForService, Arrives, MuxAt
      <4>3. delivering = job[p].mux /\ job[p].kind = "tune"
        BY <2>1, <3>7 DEF PmtForService, Arrives, MuxAt
      <4>4. prog = mine
        BY <4>1, <4>2, <4>3, ProgramsAssumption DEF Owns
      <4>5. [mux |-> job[p].mux, pids |-> ServicePids(prog)] \in Wanted(job[p])
        BY <4>2, <4>3, <4>4 DEF Wanted, FixedPids, Owns
      <4>6. pc[p] \in AfterTune /\ Goto(p, "taps") /\ UNCHANGED <<job, read, found, feVars>>
        BY <3>7 DEF PmtForService, Arrives
      <4> QED BY <2>8, <4>1, <4>5, <4>6
    <3>8. CASE PatForScan(p)
      <4>1. tuned = job[p].mux
        BY <2>1, <3>8 DEF PatForScan, Arrives, MuxAt
      <4> QED BY <2>7, <3>8, <4>1 DEF PatForScan, Arrives
    <3>9. CASE SdtForScan(p)
      <4>1. /\ pc'[p] = "exit"
            /\ \A q \in Procs : q # p => pc'[q] = pc[q] /\ found'[q] = found[q]
        BY <3>9 DEF SdtForScan, Goto, TypeOK
      <4>2. ~Lingers => delivering = job[p].mux
        BY <2>1, <3>9 DEF SdtForScan, Arrives, MuxAt
      <4>3. found'[p] \subseteq {prog.sid : prog \in {q \in Programs : q.mux = delivering}}
        BY <3>9 DEF SdtForScan, TypeOK
      <4>4. job' = job
        BY <3>9 DEF SdtForScan
      <4>5. (~Lingers => \A sid \in found[p] :
                \E prog \in Programs : prog.mux = job[p].mux /\ prog.sid = sid)'
        BY <4>2, <4>3, <4>4
      <4>6. MuxAt(p)'
        BY <4>1, <4>5 DEF MuxAt
      <4> QED BY <2>3, <3>9, <4>1, <4>6 DEF SdtForScan
    <3>10. CASE OpenTap(p)
      BY <2>2, <3>10 DEF OpenTap, feVars
    <3>11. CASE Exit(p)
      <4>1. /\ pc'[p] = "idle" /\ found'[p] = {}
            /\ \A q \in Procs : q # p => /\ pc'[q] = pc[q] /\ read'[q] = read[q]
                                         /\ pids'[q] = pids[q] /\ found'[q] = found[q]
        BY <3>11 DEF Exit, Forget, TypeOK
      <4>2. MuxAt(p)'
        BY <4>1 DEF MuxAt
      <4> QED BY <2>3, <3>11, <4>1, <4>2 DEF Exit, Forget
    <3> QED BY <2>9, <3>1, <3>2, <3>3, <3>4, <3>5, <3>6, <3>7, <3>8, <3>9, <3>10, <3>11 DEF Step
  <2>10. ASSUME NEW p \in Procs, LoopEnds(p) \/ Kill(p)
         PROVE  Goal
    BY <2>5, <2>10 DEF LoopEnds, Kill
  <2>11. ASSUME NEW p \in Procs, Kernel(p)
         PROVE  Goal
    <3>1. CASE KernelReaps(p)
      <4>1. /\ pc'[p] = "idle" /\ found'[p] = {}
            /\ \A q \in Procs : q # p => /\ pc'[q] = pc[q] /\ read'[q] = read[q]
                                         /\ pids'[q] = pids[q] /\ found'[q] = found[q]
        BY <3>1 DEF KernelReaps, Forget, TypeOK
      <4>2. MuxAt(p)'
        BY <4>1 DEF MuxAt
      <4> QED BY <2>3, <3>1, <4>1, <4>2 DEF KernelReaps, Forget
    <3>2. CASE KernelUnlocks(p) \/ KernelClosesTaps(p)
      BY <2>2, <3>2 DEF KernelUnlocks, KernelClosesTaps, feVars
    <3> QED BY <2>11, <3>1, <3>2 DEF Kernel
  <2>12. ASSUME Settle \/ SignalLoss PROVE Goal
    BY <2>2, <2>12 DEF Settle, SignalLoss
  <2>13. ASSUME UNCHANGED vars PROVE Goal
    BY <2>2, <2>13 DEF vars, feVars
  <2> HIDE DEF Goal
  <2>14. ASSUME Next PROVE Goal
    BY <2>4, <2>9, <2>10, <2>11, <2>12, <2>14 DEF Next
  <2>15. Goal
    BY <2>13, <2>14
  <2> QED BY <2>15 DEF Goal
<1> QED BY <1>1, <1>2, TypeCorrect, LockInvariant, PTL DEF Spec

(* A stream is that of the service asked for, on its frequency: for every  *)
(* set of programs whose PAT and PMT PIDs are well formed, every lock flag *)
(* and every demodulator the linger assumption allows.                     *)
THEOREM StreamsRight == Spec => []StreamsWhatWasAsked
<1>1. TypeOK /\ MuxInv => StreamsWhatWasAsked
  <2> SUFFICES ASSUME TypeOK, MuxInv, Unlocked = {}, NEW p \in Procs, pc[p] \in Output
               PROVE  /\ tuned = job[p].mux
                      /\ job[p].kind = "tune" =>
                           \E prog \in Programs :
                              /\ prog.mux = job[p].mux /\ prog.sid = job[p].sid
                              /\ pids[p] = ServicePids(prog)
    BY DEF StreamsWhatWasAsked
  <2>1. MuxAt(p)
    BY DEF MuxInv
  <2>2. tuned = job[p].mux
    BY <2>1 DEF MuxAt, AfterTune
  <2>3. [mux |-> job[p].mux, pids |-> pids[p]] \in Wanted(job[p])
    BY <2>1 DEF MuxAt
  <2>4. ASSUME job[p].kind = "tune"
        PROVE  \E prog \in Programs :
                  /\ prog.mux = job[p].mux /\ prog.sid = job[p].sid
                  /\ pids[p] = ServicePids(prog)
    BY <2>3, <2>4 DEF Wanted, FixedPids
  <2> QED BY <2>2, <2>4
<1> QED BY <1>1, TypeCorrect, MuxInvariant, PTL

(* What a scan found is on the frequency it is filed under, if the         *)
(* demodulator stops delivering the old mux when it is retuned.            *)
THEOREM ScansRight == Spec => []ScanFilesRightMux
<1>1. MuxInv => ScanFilesRightMux
  BY DEF MuxInv, MuxAt, ScanFilesRightMux
<1> QED BY <1>1, MuxInvariant, PTL

(* Only the holder of the adapter retunes the frontend, and nobody streams *)
(* while it does.                                                          *)
THEOREM RetunesAlone == Spec => NoRetuneUnderStream
<1>1. TypeOK /\ LockInv /\ [Next]_vars =>
        [Unlocked = {} /\ tuned' # tuned =>
          /\ lock # NoProc /\ pc[lock] = "tune"
          /\ \A p \in Procs : pc[p] \notin Output]_vars
  <2> SUFFICES ASSUME TypeOK, LockInv, Next, Unlocked = {}, tuned' # tuned
               PROVE  /\ lock # NoProc /\ pc[lock] = "tune"
                      /\ \A p \in Procs : pc[p] \notin Output
    BY DEF vars, feVars
  <2>1. PICK p \in Procs : TuneFrontend(p)
    BY DEF Next, Start, Step, CallFails, TryShortcut, NoShortcut, LockSeen, LockTimeout,
       SiOpen, SiFails, Arrives, PatForService, PmtForService, PatForScan, SdtForScan,
       OpenTap, TapsOpen, TapFails, OpenDvr, LoopEnds, Exit, Kill, Kernel, KernelUnlocks,
       KernelClosesTaps, KernelReaps, Settle, SignalLoss, feVars
  <2>2. pc[p] = "tune" /\ p \in Procs \ Unlocked
    BY <2>1 DEF TuneFrontend
  <2>3. lock = p
    BY <2>2 DEF LockInv, Active, Setup
  <2>4. ASSUME NEW q \in Procs PROVE pc[q] \notin Output
    BY <2>2, <2>4, Alone DEF Active, Setup, Output
  <2> QED BY <2>2, <2>3, <2>4, ConstantsAssumption
<1> QED BY <1>1, TypeCorrect, LockInvariant, PTL DEF Spec, NoRetuneUnderStream

-----------------------------------------------------------------------------
(* The owner and what it serves, as the INSTANCE in AdapterTune maps them. *)
Owner   == IF lock = NoProc THEN {} ELSE {[by |-> lock, job |-> job[lock]]}
Serving == IF lock # NoProc /\ pc[lock] \in Output
           THEN {[mux |-> tuned, pids |-> pids[lock]]} ELSE {}

(* When every process locks, the processes implement the lease: one command*)
(* at a time, served with what it asked for, and stopped before the adapter*)
(* passes on -- by a clean exit, an error or a kill.                       *)
THEOREM LeaseKept == ASSUME Unlocked = {} PROVE Spec => ImplementsLease
<1> USE DEF Owner, Serving
<1>1. Init => Lease!LeaseInit
  BY DEF Init, Lease!LeaseInit
<1>2. TypeOK /\ LockInv /\ MuxInv /\ [Next]_vars => [Lease!LeaseNext]_(Lease!leaseVars)
  <2> SUFFICES ASSUME TypeOK, LockInv, MuxInv, [Next]_vars
               PROVE  Lease!LeaseNext \/ (Owner' = Owner /\ Serving' = Serving)
    BY DEF Lease!leaseVars
  <2> USE ConstantsAssumption
  <2>1. ASSUME NEW p \in Procs, pc[p] \in Active
        PROVE  lock = p /\ lock # NoProc
    BY <2>1 DEF LockInv
  <2>2. ASSUME NEW p \in Procs, NEW j \in Jobs, Start(p, j)
        PROVE  Lease!Claim(p, j)
    <3>1. lock = NoProc /\ lock' = p /\ p # NoProc
      BY <2>2 DEF Start
    <3>2. job'[p] = j /\ pc'[p] = "open"
      BY <2>2 DEF Start, Goto, TypeOK
    <3> QED BY <3>1, <3>2 DEF Lease!Claim, Output
  (* p moves on without output before or after.                            *)
  <2>3. ASSUME NEW p \in Procs, pc[p] \in Active \ Output, NEW where \in PCs \ Output,
               Goto(p, where), UNCHANGED <<job, lock>>
        PROVE  Owner' = Owner /\ Serving' = Serving
    <3>1. pc'[p] \notin Output
      BY <2>3 DEF Goto, TypeOK
    <3> QED BY <2>1, <2>3, <3>1
  <2>4. ASSUME NEW p \in Procs, Step(p)
        PROVE  Lease!LeaseNext \/ (Owner' = Owner /\ Serving' = Serving)
    <3>1. CASE OpenTap(p)
      BY <2>1, <3>1 DEF OpenTap, procVars, feVars
    <3>2. CASE Exit(p)
      <4>1. lock = p /\ lock # NoProc /\ lock' = NoProc /\ pc[p] = "exit"
        BY <2>1, <3>2 DEF Exit, Active
      <4>2. Lease!Leave
        BY <4>1 DEF Lease!Leave, Output
      <4> QED BY <4>2 DEF Lease!LeaseNext
    <3>3. CASE OpenDvr(p)
      <4>1. lock = p /\ lock # NoProc /\ pc[p] = "dvr"
        BY <2>1, <3>3 DEF OpenDvr, Active, Setup
      <4>2. /\ pc'[p] \in Output
            /\ UNCHANGED <<job, pids, lock, tuned>>
        BY <3>3 DEF OpenDvr, Goto, TypeOK, Output, feVars
      <4>3. /\ tuned = job[p].mux
            /\ [mux |-> job[p].mux, pids |-> pids[p]] \in Wanted(job[p])
        BY <4>1 DEF MuxInv, MuxAt, AfterTune
      <4>4. job[p] \in Jobs
        BY DEF TypeOK
      <4>5. Lease!Serve
        BY <4>1, <4>2, <4>3, <4>4 DEF Lease!Serve, Output
      <4> QED BY <4>5 DEF Lease!LeaseNext
    <3>4. CASE ~OpenTap(p) /\ ~Exit(p) /\ ~OpenDvr(p)
      <4>1. pc[p] \in Active \ Output /\ UNCHANGED <<job, lock>>
        BY <2>4, <3>4 DEF Step, CallFails, TryShortcut, NoShortcut, TuneFrontend, LockSeen, FixedPids,
           LockTimeout, SiOpen, SiFails, Arrives, PatForService, PmtForService, PatForScan,
           SdtForScan, TapsOpen, TapFails, Active, Setup, Output
      <4>2. \E where \in PCs \ Output : Goto(p, where)
        BY <2>4, <3>4 DEF Step, CallFails, TryShortcut, NoShortcut, TuneFrontend, LockSeen, FixedPids,
           LockTimeout, SiOpen, SiFails, PatForService, PmtForService, PatForScan,
           SdtForScan, TapsOpen, TapFails, BeginRead, PCs, Active, Setup, Output
      <4> QED BY <2>3, <4>1, <4>2
    <3> QED BY <3>1, <3>2, <3>3, <3>4
  <2>5. ASSUME NEW p \in Procs, LoopEnds(p) \/ Kill(p)
        PROVE  Lease!LeaseNext \/ (Owner' = Owner /\ Serving' = Serving)
    <3>1. /\ pc[p] \in Active /\ lock = p /\ lock # NoProc
          /\ pc'[p] \in {"exit", "dying"} /\ UNCHANGED <<job, lock>>
      BY <2>1, <2>5 DEF LoopEnds, Kill, Goto, TypeOK, Active
    <3>2. Owner' = Owner /\ Serving' = {}
      BY <3>1 DEF Output
    <3>3. Serving # {} => Lease!Stop
      BY <3>2 DEF Lease!Stop
    <3> QED BY <3>2, <3>3 DEF Lease!LeaseNext
  <2>6. ASSUME NEW p \in Procs, Kernel(p)
        PROVE  Lease!LeaseNext \/ (Owner' = Owner /\ Serving' = Serving)
    <3>1. CASE KernelUnlocks(p)
      <4>1. lock = p /\ lock # NoProc /\ lock' = NoProc /\ pc[p] = "dying"
        BY <3>1 DEF KernelUnlocks
      <4>2. Lease!Leave
        BY <4>1 DEF Lease!Leave, Output
      <4> QED BY <4>2 DEF Lease!LeaseNext
    <3>2. CASE KernelClosesTaps(p)
      BY <3>2 DEF KernelClosesTaps, procVars, feVars
    <3>3. CASE KernelReaps(p)
      <4>1. lock # p /\ UNCHANGED <<job, lock, tuned>>
        BY <3>3 DEF KernelReaps, Forget, feVars
      <4>2. lock # NoProc => pc'[lock] = pc[lock] /\ pids'[lock] = pids[lock]
        BY <3>3, <4>1 DEF KernelReaps, Forget, TypeOK
      <4> QED BY <4>1, <4>2
    <3> QED BY <2>6, <3>1, <3>2, <3>3 DEF Kernel
  <2>7. ASSUME UNCHANGED vars \/ Settle \/ SignalLoss
        PROVE  Owner' = Owner /\ Serving' = Serving
    BY <2>7 DEF vars, Settle, SignalLoss, procVars, feVars
  <2>8. ASSUME Next PROVE Lease!LeaseNext \/ (Owner' = Owner /\ Serving' = Serving)
    <3>1. ASSUME NEW p \in Procs, NEW j \in Jobs, Start(p, j) PROVE Lease!LeaseNext
      BY <2>2, <3>1 DEF Lease!LeaseNext
    <3> QED BY <2>4, <2>5, <2>6, <2>7, <2>8, <3>1 DEF Next
  <2> QED BY <2>7, <2>8
<1> QED BY <1>1, <1>2, TypeCorrect, LockInvariant, MuxInvariant, PTL
        DEF Spec, ImplementsLease, Lease!LeaseSpec
=============================================================================
