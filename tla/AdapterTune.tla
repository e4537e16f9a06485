----------------------------- MODULE AdapterTune -----------------------------
(***************************************************************************)
(* The `dvbr` processes that share one DVB adapter (src/src/main.rs,       *)
(* tuner.rs, demux.rs, si_reader.rs): each takes the adapter's flock, may  *)
(* find the frontend already tuned and confirm that by reading SI, else    *)
(* tunes it, reads PAT and PMT (or PAT and SDT) through a one-PID tap,     *)
(* opens its PID taps one at a time in the adapter's filter table, opens   *)
(* the DVR and streams.  Any process may be killed between two steps; the  *)
(* frontend keeps the tuning, and perhaps the lock flag, that a dead       *)
(* process left in it.                                                     *)
(***************************************************************************)
EXTENDS Integers, FiniteSets

CONSTANTS
    Procs,          \* the processes; one that ended may start again
    Unlocked,       \* those run with DVBR_SKIP_ADAPTER_LOCK set
    NoProc,
    Muxes,          \* the transports, named by their frequency
    NoMux,
    Sids,           \* service ids
    Programs,       \* what is on the air: [mux, sid, pmt, es]
    Jobs,           \* the command lines: [kind, mux, sid]
    PatPid, SdtPid, FullPid, EitPids,
    FilterTable,    \* demux filters of the adapter, all processes together
    Lingers         \* a retuned demodulator may still deliver its old mux

Kinds  == {"tune", "full", "scan", "epg"}
Tables == {"pat", "pmt", "sdt"}
Pids   == Nat

ASSUME ConstantsAssumption ==
    /\ Unlocked \subseteq Procs /\ NoProc \notin Procs
    /\ NoMux \notin Muxes
    /\ Programs \subseteq [mux : Muxes, sid : Sids, pmt : Pids, es : SUBSET Pids]
    /\ Jobs \subseteq [kind : Kinds, mux : Muxes, sid : Sids]
    /\ PatPid \in Pids /\ SdtPid \in Pids /\ FullPid \in Pids
    /\ EitPids \subseteq Pids
    /\ FilterTable \in Nat
    /\ Lingers \in BOOLEAN

(* A PAT lists a program number once, and no two programs of a mux share a *)
(* PMT PID: service_pids_from_pat_pmt takes the first PMT on that PID and  *)
(* never compares its program number.                                      *)
ASSUME ProgramsAssumption ==
    \A a, b \in Programs :
        a.mux = b.mux /\ (a.sid = b.sid \/ a.pmt = b.pmt) => a = b

(* A demodulator that may still deliver the old mux is survivable only     *)
(* because a PAT that names the service is that of the channel's mux: the  *)
(* program compares nothing but the service id.                            *)
ASSUME LingerAssumption ==
    Lingers =>
        \A j \in Jobs, prog \in Programs :
            j.kind = "tune" /\ prog.sid = j.sid => prog.mux = j.mux

VARIABLES
    pc,         \* where each process is
    job,        \* its command line
    fast,       \* TRUE while it tests the already-tuned shortcut
    read,       \* the SI table it reads and the PID it reads it from
    pids,       \* the PID set it streams (Cmd::Tune's `pids`)
    found,      \* the services its scan found
    lock,       \* holder of /tmp/dvbr-adapterN.lock
    tuned,      \* what FE_GET_PROPERTY reports
    delivering, \* the mux whose packets really arrive
    hasLock,    \* what FE_READ_STATUS reports
    filters     \* the open demux filters: <<process, PID>>

procVars == <<pc, job, fast, read, pids, found>>
feVars   == <<tuned, delivering, hasLock>>
vars     == <<procVars, lock, feVars, filters>>

Setup  == {"open", "tune", "waitLock", "siOpen", "siWait", "taps", "dvr"}
Output == {"stream", "collect"}
Active == Setup \cup Output \cup {"exit"}
PCs    == Active \cup {"idle", "dying"}

NoRead == [table |-> "pat", pid |-> PatPid]
TapsOf(p) == {f \in filters : f[1] = p}

(* main.rs service_pids; the caller passes the program its PMT described.  *)
ServicePids(prog) == {PatPid, prog.pmt} \cup prog.es

Init ==
    /\ pc = [p \in Procs |-> "idle"]
    /\ job \in [Procs -> Jobs]
    /\ fast = [p \in Procs |-> FALSE]
    /\ read = [p \in Procs |-> NoRead]
    /\ pids = [p \in Procs |-> {}]
    /\ found = [p \in Procs |-> {}]
    /\ lock = NoProc
    /\ tuned \in Muxes \cup {NoMux}
    /\ delivering \in {NoMux, tuned}
    /\ hasLock \in BOOLEAN
    /\ filters = {}

Goto(p, where) == pc' = [pc EXCEPT ![p] = where]

-----------------------------------------------------------------------------
(* The command up to the frontend.                                         *)

(* Fault: only streaming commands take the flock, a scan does not.         *)
StartScanUnlocked(p, j) ==
    /\ pc[p] = "idle"
    /\ IF p \in Unlocked \/ j.kind = "scan" THEN lock' = lock
                                           ELSE lock = NoProc /\ lock' = p
    /\ job' = [job EXCEPT ![p] = j]
    /\ Goto(p, "open")
    /\ UNCHANGED <<fast, read, pids, found, feVars, filters>>

(* acquire_adapter_lock: LOCK_EX | LOCK_NB.  A process that finds the lock *)
(* taken ends at once, which leaves nothing behind.                        *)
Start(p, j) ==
    /\ pc[p] = "idle"
    /\ IF p \in Unlocked THEN lock' = lock
                         ELSE lock = NoProc /\ lock' = p
    /\ job' = [job EXCEPT ![p] = j]
    /\ Goto(p, "open")
    /\ UNCHANGED <<fast, read, pids, found, feVars, filters>>

(* Any call that fails before the taps: the channel list, the output file, *)
(* Frontend::open_rw, FE_SET_PROPERTY or FE_READ_STATUS.                   *)
CallFails(p) ==
    /\ pc[p] \in {"open", "tune", "waitLock"}
    /\ Goto(p, "exit")
    /\ UNCHANGED <<job, fast, read, pids, found, lock, feVars, filters>>

(* Fault: the lock flag alone, without the frequency.                      *)
HasLockFlag(p) == hasLock

LooksTuned(p) == tuned = job[p].mux /\ hasLock

(* Begin a read_section / read_sections call.                              *)
BeginRead(p, t, pid) ==
    /\ Goto(p, "siOpen")
    /\ read' = [read EXCEPT ![p] = [table |-> t, pid |-> pid]]

(* Cmd::Tune's shortcut: already_tuned is believed only far enough to read *)
(* PAT and PMT on a short budget.                                          *)
TryShortcut(p) ==
    /\ pc[p] = "open" /\ job[p].kind = "tune" /\ LooksTuned(p)
    /\ BeginRead(p, "pat", PatPid)
    /\ fast' = [fast EXCEPT ![p] = TRUE]
    /\ UNCHANGED <<job, pids, found, lock, feVars, filters>>

(* Fault: a locked frontend is not retuned for any command.                *)
NoShortcutIfLocked(p) ==
    /\ pc[p] = "open"
    /\ Goto(p, IF hasLock THEN "waitLock" ELSE "tune")
    /\ UNCHANGED <<job, fast, read, pids, found, lock, feVars, filters>>

(* Every other command, and a frontend that does not look tuned.  A        *)
(* frontend that cannot be asked, or reports another bandwidth, does not   *)
(* look tuned either, so this is open to every process.                    *)
NoShortcut(p) ==
    /\ pc[p] = "open"
    /\ Goto(p, "tune")
    /\ UNCHANGED <<job, fast, read, pids, found, lock, feVars, filters>>

(* tune_frontend / build_props_simple_isdbt: FE_SET_PROPERTY returns before*)
(* anything is acquired, and some drivers keep the flag of the last tune.  *)
TuneFrontend(p) ==
    /\ pc[p] = "tune"
    /\ tuned' = job[p].mux
    /\ delivering' \in IF Lingers THEN {NoMux, delivering} ELSE {NoMux}
    /\ hasLock' \in {hasLock, FALSE}
    /\ Goto(p, "waitLock")
    /\ UNCHANGED <<job, fast, read, pids, found, lock, filters>>

(* The PIDs of the commands that read no table first: epg taps both EIT     *)
(* PIDs, the full-mux capture one wildcard PID.                             *)
FixedPids(j) == IF j.kind = "full" THEN {FullPid} ELSE EitPids

(* wait_lock sees FE_HAS_LOCK; what follows depends on the command.        *)
LockSeen(p) ==
    /\ pc[p] = "waitLock" /\ hasLock
    /\ \/ /\ job[p].kind \in {"tune", "scan"}
          /\ BeginRead(p, "pat", PatPid)
          /\ UNCHANGED pids
       \/ /\ job[p].kind \in {"full", "epg"}
          /\ Goto(p, "taps")
          /\ pids' = [pids EXCEPT ![p] = FixedPids(job[p])]
          /\ UNCHANGED read
    /\ UNCHANGED <<job, fast, found, lock, feVars, filters>>

(* wait_lock gives up: the flag was down on the poll after the timeout.    *)
LockTimeout(p) ==
    /\ pc[p] = "waitLock" /\ ~hasLock
    /\ Goto(p, "exit")
    /\ UNCHANGED <<job, fast, read, pids, found, lock, feVars, filters>>

-----------------------------------------------------------------------------
(* One SI read: open a demux, tap one PID, read the DVR, drop the demux.   *)

SiOpen(p) ==
    /\ pc[p] = "siOpen" /\ Cardinality(filters) < FilterTable
    /\ filters' = filters \cup {<<p, read[p].pid>>}
    /\ Goto(p, "siWait")
    /\ UNCHANGED <<job, fast, read, pids, found, lock, feVars>>

CloseTaps(p) == filters' = filters \ TapsOf(p)

(* Fault: a read that never times out once its filter is open.             *)
SiFailsEarly(p) ==
    /\ pc[p] = "siOpen"
    /\ CloseTaps(p)
    /\ Goto(p, IF fast[p] THEN "tune" ELSE "exit")
    /\ fast' = [fast EXCEPT ![p] = FALSE]
    /\ UNCHANGED <<job, read, pids, found, lock, feVars>>

(* The read ends in an error: no filter left, no section in time, a bad    *)
(* CRC, or a PAT that does not name the service.  On the shortcut that     *)
(* means tuning for real; anywhere else it ends the command.               *)
SiFails(p) ==
    /\ pc[p] \in {"siOpen", "siWait"}
    /\ CloseTaps(p)
    /\ Goto(p, IF fast[p] THEN "tune" ELSE "exit")
    /\ fast' = [fast EXCEPT ![p] = FALSE]
    /\ UNCHANGED <<job, read, pids, found, lock, feVars>>

(* The packets of the PID tapped come from whatever mux is delivered.      *)
Arrives(p, t) ==
    /\ pc[p] = "siWait" /\ read[p].table = t
    /\ delivering # NoMux
    /\ CloseTaps(p)

(* Fault: a service that is not in the PAT is read from "PID -1".          *)
PatSentinel(p) ==
    /\ Arrives(p, "pat") /\ job[p].kind = "tune"
    /\ \E prog \in Programs :
          /\ prog.mux = delivering
          /\ BeginRead(p, "pmt", IF prog.sid = job[p].sid THEN prog.pmt ELSE -1)
    /\ UNCHANGED <<job, fast, pids, found, lock, feVars>>

(* service_pids_from_pat_pmt, first half: find_pmt_pid in the PAT.         *)
PatForService(p) ==
    /\ Arrives(p, "pat") /\ job[p].kind = "tune"
    /\ \E prog \in Programs :
          /\ prog.mux = delivering /\ prog.sid = job[p].sid
          /\ BeginRead(p, "pmt", prog.pmt)
    /\ UNCHANGED <<job, fast, pids, found, lock, feVars>>

(* Second half: whichever PMT comes first on that PID.                     *)
PmtForService(p) ==
    /\ Arrives(p, "pmt")
    /\ \E prog \in Programs :
          /\ prog.mux = delivering /\ prog.pmt = read[p].pid
          /\ pids' = [pids EXCEPT ![p] = ServicePids(prog)]
    /\ fast' = [fast EXCEPT ![p] = FALSE]
    /\ Goto(p, "taps")
    /\ UNCHANGED <<job, read, found, lock, feVars>>

(* scan_current_transport: any PAT will do, then the SDT.                  *)
PatForScan(p) ==
    /\ Arrives(p, "pat") /\ job[p].kind = "scan"
    /\ BeginRead(p, "sdt", SdtPid)
    /\ UNCHANGED <<job, fast, pids, found, lock, feVars>>

(* The sections that arrived in time, perhaps not all of them; their       *)
(* services are recorded under the frequency the command asked for.        *)
SdtForScan(p) ==
    /\ Arrives(p, "sdt")
    /\ \E some \in SUBSET {prog.sid : prog \in {q \in Programs : q.mux = delivering}} :
          found' = [found EXCEPT ![p] = some]
    /\ Goto(p, "exit")
    /\ UNCHANGED <<job, fast, read, pids, lock, feVars>>

-----------------------------------------------------------------------------
(* PidTaps::start, DvrReader::open_ro and the read loops.                  *)

Untapped(p) == {pid \in pids[p] : <<p, pid>> \notin filters}

(* The PIDs are sorted and opened one demux each.                          *)
OpenTap(p) ==
    /\ pc[p] = "taps" /\ Cardinality(filters) < FilterTable
    /\ \E pid \in Untapped(p) :
          /\ \A other \in Untapped(p) : pid <= other
          /\ filters' = filters \cup {<<p, pid>>}
    /\ UNCHANGED <<procVars, lock, feVars>>

TapsOpen(p) ==
    /\ pc[p] = "taps" /\ Untapped(p) = {}
    /\ Goto(p, "dvr")
    /\ UNCHANGED <<job, fast, read, pids, found, lock, feVars, filters>>

(* Fault: the demuxes already open are forgotten, not closed.              *)
TapFailsLeaks(p) ==
    /\ \/ pc[p] = "taps" /\ Untapped(p) # {}
       \/ pc[p] = "dvr"
    /\ Goto(p, "exit")
    /\ UNCHANGED <<job, fast, read, pids, found, lock, feVars, filters>>

(* A tap or the DVR cannot be opened: dropping the Vec of demuxes closes   *)
(* the taps already open.                                                  *)
TapFails(p) ==
    /\ \/ pc[p] = "taps" /\ Untapped(p) # {}
       \/ pc[p] = "dvr"
    /\ CloseTaps(p)
    /\ Goto(p, "exit")
    /\ UNCHANGED <<job, fast, read, pids, found, lock, feVars>>

(* Fault: the lock guard is bound to `_` and dropped at once.              *)
OpenDvrUnlocked(p) ==
    /\ pc[p] = "dvr"
    /\ lock' = IF lock = p THEN NoProc ELSE lock
    /\ Goto(p, IF job[p].kind = "epg" THEN "collect" ELSE "stream")
    /\ UNCHANGED <<job, fast, read, pids, found, feVars, filters>>

OpenDvr(p) ==
    /\ pc[p] = "dvr"
    /\ Goto(p, IF job[p].kind = "epg" THEN "collect" ELSE "stream")
    /\ UNCHANGED <<job, fast, read, pids, found, lock, feVars, filters>>

(* Fault: the lock guard drops before the taps.                            *)
LoopEndsLockFirst(p) ==
    /\ pc[p] \in Output
    /\ lock' = IF lock = p THEN NoProc ELSE lock
    /\ Goto(p, "dying")
    /\ UNCHANGED <<job, fast, read, pids, found, feVars, filters>>

(* The loop ends (stall, read or write error, EPG deadline); locals drop in*)
(* reverse order, so the taps close while the lock is still held.          *)
LoopEnds(p) ==
    /\ pc[p] \in Output
    /\ CloseTaps(p)
    /\ Goto(p, "exit")
    /\ UNCHANGED <<job, fast, read, pids, found, lock, feVars>>

(* `_lock`, the first local of the command, drops last.                    *)
Forget(p) ==
    /\ pc' = [pc EXCEPT ![p] = "idle"]
    /\ fast' = [fast EXCEPT ![p] = FALSE]
    /\ read' = [read EXCEPT ![p] = NoRead]
    /\ pids' = [pids EXCEPT ![p] = {}]
    /\ found' = [found EXCEPT ![p] = {}]
    /\ UNCHANGED job

Exit(p) ==
    /\ pc[p] = "exit"
    /\ lock' = IF lock = p THEN NoProc ELSE lock
    /\ Forget(p)
    /\ UNCHANGED <<feVars, filters>>

-----------------------------------------------------------------------------
(* Outside the program: signals, the kernel and the air.                   *)

(* A signal ends the process without running a destructor ...              *)
Kill(p) ==
    /\ pc[p] \in Active
    /\ Goto(p, "dying")
    /\ UNCHANGED <<job, fast, read, pids, found, lock, feVars, filters>>

(* ... and the kernel closes its files, the lock file and the demuxes in   *)
(* either order.  The frontend keeps the tune.                             *)
KernelUnlocks(p) ==
    /\ pc[p] = "dying" /\ lock = p
    /\ lock' = NoProc
    /\ UNCHANGED <<procVars, feVars, filters>>

KernelClosesTaps(p) ==
    /\ pc[p] = "dying" /\ TapsOf(p) # {}
    /\ CloseTaps(p)
    /\ UNCHANGED <<procVars, lock, feVars>>

KernelReaps(p) ==
    /\ pc[p] = "dying" /\ lock # p /\ TapsOf(p) = {}
    /\ Forget(p)
    /\ UNCHANGED <<lock, feVars, filters>>

(* The demodulator acquires what it was told to, if that is on the air.    *)
Settle ==
    /\ tuned # NoMux
    /\ delivering' = tuned /\ hasLock' = TRUE
    /\ UNCHANGED <<procVars, lock, tuned, filters>>

(* The signal goes; smsusb never clears FE_HAS_LOCK, other drivers do.     *)
SignalLoss ==
    /\ delivering # NoMux
    /\ delivering' = NoMux
    /\ hasLock' \in {hasLock, FALSE}
    /\ UNCHANGED <<procVars, lock, tuned, filters>>

-----------------------------------------------------------------------------
Step(p) ==
    \/ CallFails(p)
    \/ TryShortcut(p) \/ NoShortcut(p)
    \/ TuneFrontend(p) \/ LockSeen(p) \/ LockTimeout(p)
    \/ SiOpen(p) \/ SiFails(p)
    \/ PatForService(p) \/ PmtForService(p)
    \/ PatForScan(p) \/ SdtForScan(p)
    \/ OpenTap(p) \/ TapsOpen(p) \/ TapFails(p) \/ OpenDvr(p)
    \/ Exit(p)

Kernel(p) == KernelUnlocks(p) \/ KernelClosesTaps(p) \/ KernelReaps(p)

Next ==
    \/ \E p \in Procs :
          \/ \E j \in Jobs : Start(p, j)
          \/ Step(p) \/ LoopEnds(p)
          \/ Kill(p) \/ Kernel(p)
    \/ Settle \/ SignalLoss

Spec == Init /\ [][Next]_vars

(* A process that can take a step takes one: every wait of the setup has a *)
(* timeout.  The kernel finishes closing a dead process.  Nothing promises *)
(* that a signal is acquired, that a loop ends or that a command starts.   *)
Fairness == \A p \in Procs : WF_vars(Step(p)) /\ WF_vars(Kernel(p))

FairSpec == Spec /\ Fairness

-----------------------------------------------------------------------------
TypeOK ==
    /\ pc \in [Procs -> PCs]
    /\ job \in [Procs -> Jobs]
    /\ fast \in [Procs -> BOOLEAN]
    /\ read \in [Procs -> [table : Tables, pid : Pids]]
    /\ pids \in [Procs -> SUBSET Pids]
    /\ found \in [Procs -> SUBSET Sids]
    /\ lock \in Procs \cup {NoProc}
    /\ tuned \in Muxes \cup {NoMux}
    /\ delivering \in Muxes \cup {NoMux}
    /\ hasLock \in BOOLEAN
    /\ filters \subseteq Procs \X Pids

(* The adapter's filter table never holds more than the driver has, and a  *)
(* process has exactly the demuxes open that its place in the code calls   *)
(* for: none outside an SI read and its streaming phase, one during a read,*)
(* all of `pids` from the DVR on -- whatever failed on the way there       *)
(* (demux.rs PidTaps::start, si_reader.rs read_sections, Drop for Demux).  *)
TapsAccounted ==
    /\ Cardinality(filters) <= FilterTable
    /\ \A p \in Procs :
          /\ pc[p] \in {"idle", "open", "tune", "waitLock", "siOpen", "exit"}
                => TapsOf(p) = {}
          /\ pc[p] = "siWait" => TapsOf(p) = {<<p, read[p].pid>>}
          /\ pc[p] = "taps" => TapsOf(p) \subseteq {p} \X pids[p]
          /\ pc[p] \in {"dvr"} \cup Output => TapsOf(p) = {p} \X pids[p]

(* The DVR device mixes the packets of every tap of the adapter, so a      *)
(* command's output is its own only if nobody else has a tap open while it *)
(* reads.  Of the processes that lock, only one the kernel is still tearing*)
(* down may (acquire_adapter_lock, held from before the first tap to after *)
(* the last).                                                              *)
DvrIsPrivate ==
    \A p, q \in Procs \ Unlocked :
        p # q /\ pc[p] \in Active /\ TapsOf(q) # {} => pc[q] = "dying"

(* Whoever streams a service streams the PID set of that very service, on  *)
(* the frequency its channel names: through a lock flag left by a dead     *)
(* process, the shortcut and its fallback, and a signal that comes and     *)
(* goes (Cmd::Tune, already_tuned, service_pids_from_pat_pmt).             *)
StreamsWhatWasAsked ==
    Unlocked = {} =>
        \A p \in Procs :
            pc[p] \in Output =>
                /\ tuned = job[p].mux
                /\ job[p].kind = "tune" =>
                      \E prog \in Programs :
                          /\ prog.mux = job[p].mux /\ prog.sid = job[p].sid
                          /\ pids[p] = ServicePids(prog)

(* A scan files services under the frequency it asked for only if they are *)
(* on that frequency -- true of a demodulator that stops delivering the old*)
(* mux when it is retuned (scan_current_transport believes FE_HAS_LOCK and *)
(* never compares the PAT with anything).                                  *)
ScanFilesRightMux ==
    Unlocked = {} /\ ~Lingers =>
        \A p \in Procs : \A sid \in found[p] :
            \E prog \in Programs : prog.mux = job[p].mux /\ prog.sid = sid

(* The frontend is retuned only by a process that holds the adapter, and   *)
(* never while another one streams (tune_frontend under the flock).        *)
NoRetuneUnderStream ==
    [][Unlocked = {} /\ tuned' # tuned =>
          /\ lock # NoProc /\ pc[lock] = "tune"
          /\ \A p \in Procs : pc[p] \notin Output]_vars

(* A command that took the adapter streams or gives it back, whatever the  *)
(* aerial and the drivers do: no wait of the setup is unbounded and the    *)
(* flock dies with its holder.                                             *)
LockComesBack ==
    \A p \in Procs : lock = p ~> (lock # p \/ pc[p] \in Output)

(* What a job may be served with, for the abstract adapter.                *)
Wanted(j) ==
    {[mux |-> j.mux, pids |-> set] : set \in
        IF j.kind = "tune"
        THEN {ServicePids(prog) : prog \in
                {q \in Programs : q.mux = j.mux /\ q.sid = j.sid}}
        ELSE {FixedPids(j)}}

Lease == INSTANCE AdapterLease WITH
    Promised <- [j \in Jobs |-> Wanted(j)],
    owner    <- IF lock = NoProc THEN {} ELSE {[by |-> lock, job |-> job[lock]]},
    serving  <- IF lock # NoProc /\ pc[lock] \in Output
                THEN {[mux |-> tuned, pids |-> pids[lock]]} ELSE {}

(* Every step of the processes is a step of the lease or none at all: the  *)
(* flock passes on only once the holder's loop has stopped, and what a     *)
(* loop serves is what its command line asked for.                         *)
ImplementsLease == Lease!LeaseSpec
=============================================================================
