------------------------------ MODULE StreamLoop ------------------------------
(***************************************************************************)
(* The loops that read the transport stream once it is set up (main.rs):   *)
(* the relay of `tune` on both backends with its stall watchdog, and       *)
(* `epg`'s collection with its deadline.  They differ in what a read does  *)
(* when nothing has arrived: the DVR of the DVB backend blocks; the px4    *)
(* device is nonblocking, but its PID filter (px4.rs) goes on reading while*)
(* packets of other PIDs come.  Time is counted in ticks.                  *)
(***************************************************************************)
EXTENDS Integers

CONSTANTS
    Blocking,       \* the source is DvrReader::open_ro
    StallTicks,     \* DVR_STALL_TIMEOUT
    CollectTicks,   \* --collect-secs
    Ring,           \* bound: reads' worth of data the driver buffers
    Pulls           \* device reads the filter makes within one read

ASSUME LoopAssumption ==
    /\ Blocking \in BOOLEAN
    /\ StallTicks \in Nat \ {0} /\ CollectTicks \in Nat \ {0}
    /\ Ring \in Nat \ {0} /\ Pulls \in Nat \ {0}

VARIABLES
    command,        \* "tune" or "epg"
    pc,             \* "top", "read", "asleep", "write", "ended"
    outcome,        \* why the loop ended
    buffered,       \* reads' worth of wanted packets waiting in the driver
    onAir,          \* packets of the wanted PIDs are arriving
    foreign,        \* packets of other PIDs are
    pulled,         \* device reads the filter has made in this read
    lastData,       \* ticks since last_data
    silence,        \* ticks since a wanted packet arrived
    elapsed         \* ticks since `epg` computed its deadline

clocks == <<lastData, silence, elapsed>>
air    == <<buffered, onAir, foreign>>
vars   == <<command, pc, outcome, air, pulled, clocks>>

MaxTick == IF StallTicks > CollectTicks THEN StallTicks ELSE CollectTicks
Later(t) == IF t < MaxTick THEN t + 1 ELSE t

(* `last_data = Instant::now()` on entry; whatever arrived just before is  *)
(* at most as old.  `epg` computes its deadline before it tunes and waits  *)
(* for the lock, so some or all of the budget may be gone already.         *)
Init ==
    /\ command \in {"tune", "epg"}
    /\ pc = "top" /\ outcome = "none"
    /\ buffered \in 0 .. Ring /\ onAir \in BOOLEAN /\ foreign \in BOOLEAN
    /\ pulled = 0
    /\ lastData = 0 /\ silence = 0
    /\ elapsed \in 0 .. MaxTick /\ (command = "tune" => elapsed = 0)

End(why) == pc' = "ended" /\ outcome' = why

(* The deadline is looked at once per round, before the read.              *)
Top ==
    /\ pc = "top"
    /\ IF command = "epg" /\ elapsed >= CollectTicks
       THEN End("deadline") /\ UNCHANGED pulled
       ELSE pc' = "read" /\ pulled' = 0 /\ UNCHANGED outcome
    /\ UNCHANGED <<command, air, clocks>>

(* Fault: last_data is set once, before the loop.                          *)
ReadDataUntimed ==
    /\ pc = "read" /\ buffered > 0
    /\ \E n \in 1 .. buffered : buffered' = buffered - n
    /\ pc' = "write"
    /\ UNCHANGED <<command, outcome, onAir, foreign, pulled, clocks>>

(* The read returns n > 0 bytes: last_data = now, before the write.        *)
ReadData ==
    /\ pc = "read" /\ buffered > 0
    /\ \E n \in 1 .. buffered : buffered' = buffered - n
    /\ lastData' = 0
    /\ pc' = "write"
    /\ UNCHANGED <<command, outcome, onAir, foreign, pulled, silence, elapsed>>

(* Fault: the filter pulls until it has a kept packet.                     *)
PullForever ==
    /\ pc = "read" /\ buffered = 0 /\ ~Blocking /\ foreign
    /\ pulled' = IF pulled < Pulls THEN pulled + 1 ELSE 0
    /\ UNCHANGED <<command, pc, outcome, air, clocks>>

(* The px4 filter reads packets of other PIDs only, and reads again; after *)
(* 4096 of them it gives up (TsPidFilter::read).                           *)
Pull ==
    /\ pc = "read" /\ buffered = 0 /\ ~Blocking /\ foreign /\ pulled < Pulls
    /\ pulled' = pulled + 1
    /\ UNCHANGED <<command, pc, outcome, air, clocks>>

(* Ok(0) or WouldBlock: the device has nothing now, or the filter gave up. *)
(* The watchdog of `tune`, else sleep.  A blocking read does not return.   *)
ReadNothing ==
    /\ pc = "read" /\ buffered = 0 /\ ~Blocking
    /\ IF command = "tune" /\ lastData >= StallTicks
       THEN End("stall")
       ELSE pc' = "asleep" /\ UNCHANGED outcome
    /\ UNCHANGED <<command, air, pulled, clocks>>

(* Fault: after the sleep the read is retried without the deadline check.  *)
WakeToRead ==
    /\ pc = "asleep" /\ pc' = "read" /\ pulled' = 0
    /\ UNCHANGED <<command, outcome, air, clocks>>

Wake ==
    /\ pc = "asleep" /\ pc' = "top"
    /\ UNCHANGED <<command, outcome, air, pulled, clocks>>

(* out.write_all, or the sections parsed; the consumer may take its time.  *)
Written ==
    /\ pc = "write" /\ pc' = "top"
    /\ UNCHANGED <<command, outcome, air, pulled, clocks>>

(* A read or a write error other than Interrupted ends the loop.           *)
Fails ==
    /\ pc \in {"read", "write"} /\ (pc = "write" => command = "tune")
    /\ End("error")
    /\ UNCHANGED <<command, air, pulled, clocks>>

-----------------------------------------------------------------------------
(* Outside the loop.                                                       *)

(* `tune' keeps last_data, `epg' its deadline.                             *)
Tick ==
    /\ pc # "ended"
    /\ IF command = "tune"
       THEN lastData' = Later(lastData) /\ silence' = Later(silence)
            /\ UNCHANGED elapsed
       ELSE elapsed' = Later(elapsed) /\ UNCHANGED <<lastData, silence>>
    /\ UNCHANGED <<command, pc, outcome, air, pulled>>

(* A full ring drops what arrives.                                         *)
Arrive ==
    /\ onAir /\ pc # "ended"
    /\ buffered' = IF buffered < Ring THEN buffered + 1 ELSE buffered
    /\ silence' = 0
    /\ UNCHANGED <<command, pc, outcome, onAir, foreign, pulled, lastData, elapsed>>

SignalChanges ==
    /\ pc # "ended"
    /\ onAir' \in BOOLEAN /\ foreign' \in BOOLEAN
    /\ UNCHANGED <<command, pc, outcome, buffered, pulled, clocks>>

Loop == Top \/ ReadData \/ Pull \/ ReadNothing \/ Wake \/ Written
Next == Loop \/ Fails \/ Tick \/ Arrive \/ SignalChanges

Spec == Init /\ [][Next]_vars

(* The process is scheduled, the consumer of its output reads on, and time *)
(* passes.  Nothing makes packets arrive, or stop arriving.                *)
Fairness == WF_vars(Loop) /\ WF_vars(Tick)
FairSpec == Spec /\ Fairness

-----------------------------------------------------------------------------
TypeOK ==
    /\ command \in {"tune", "epg"}
    /\ pc \in {"top", "read", "asleep", "write", "ended"}
    /\ outcome \in {"none", "deadline", "stall", "error"}
    /\ buffered \in 0 .. Ring /\ onAir \in BOOLEAN /\ foreign \in BOOLEAN
    /\ pulled \in 0 .. Pulls
    /\ {lastData, silence, elapsed} \subseteq 0 .. MaxTick

(* The watchdog never fires on a stream that is alive: if it reports a     *)
(* stall, no wanted packet arrived for the whole timeout, however long the *)
(* consumer of the output kept the loop in its writes.                     *)
NoFalseStall == outcome = "stall" => silence >= StallTicks

(* A stream that falls silent for good ends the tune, though the rest of   *)
(* the mux goes on arriving: DVR_STALL_TIMEOUT's purpose (DRIVERS.md,      *)
(* "zero bytes on a locked frontend is the failure mode the                *)
(* DVR_STALL_TIMEOUT watchdog exists for"; the filter's bound, px4.rs).    *)
SilenceEndsTune == command = "tune" /\ <>[]~onAir => <>(pc = "ended")

(* Collection ends, whether or not anything is on the air, wanted or not   *)
(* ("a silent frontend reads as WouldBlock until the deadline, same as the *)
(* DVB path's Ok(0)", collect_eit_from_dvr).                               *)
CollectionEnds == command = "epg" => <>(pc = "ended")
=============================================================================
