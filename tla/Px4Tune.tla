-------------------------------- MODULE Px4Tune --------------------------------
(***************************************************************************)
(* Commands on the px4 backend (px4.rs; main.rs tune_stream_px4 and        *)
(* Cmd::Epg; scan.rs scan_current_transport_px4), one after another as the *)
(* adapter's lock lets them: a command opens the device, turns the         *)
(* channel's frequency into a physical channel, tunes, starts the stream   *)
(* and reads it through one PID filter after another.  What it leaves the  *)
(* driver doing, its successor finds.                                      *)
(***************************************************************************)
EXTENDS PidFilter, UhfPlan, Sequences

CONSTANT Frequencies    \* what channels.json and --frequency may say

ASSUME FrequencyAssumption == Frequencies \subseteq Nat

VARIABLES
    kind,           \* "tune", "full", "scan" or "epg"
    frequency,
    stage,          \* where the command is
    streaming,      \* Px4Device.streaming
    driver,         \* what the driver does: [freqNo, on]
    unstopped       \* history: the last stream ended by a kill or a refused STOP

px4Vars == <<kind, frequency, stage, streaming, driver, unstopped>>
allVars == <<filterVars, px4Vars>>

(* Reading stages in the order each command goes through them; "raw" reads *)
(* the device without a filter.                                            *)
Stages ==
    [tune |-> <<"pat", "pmt", "relay">>, full |-> <<"raw">>,
     scan |-> <<"pat", "sdt">>,          epg  |-> <<"collect">>]

Reading == {"pat", "pmt", "sdt", "relay", "collect"}

Px4Init ==
    /\ FilterInit
    /\ kind \in DOMAIN Stages /\ frequency \in Frequencies
    /\ stage = "closed" /\ streaming = FALSE
    /\ driver = [freqNo |-> 0, on |-> FALSE] /\ unstopped = FALSE

(* The device closes: a driver may stop what still streams, or go on.      *)
Closes == driver' \in {driver, [driver EXCEPT !.on = FALSE]}

(* The STOP ioctl, whose error is discarded: the flag is cleared anyway.   *)
StopStreaming ==
    /\ streaming
    /\ \/ driver' = [driver EXCEPT !.on = FALSE] /\ UNCHANGED unstopped
       \/ Closes /\ unstopped' = TRUE

(* Drop for Px4Device: stop_streaming if it was started.                   *)
Dropped ==
    /\ \/ StopStreaming
       \/ ~streaming /\ Closes /\ UNCHANGED unstopped
    /\ stage' = "ended" /\ streaming' = FALSE
    /\ UNCHANGED <<kind, frequency>>

(* SIGINT, SIGTERM, SIGKILL: no handler is installed and nothing is        *)
(* dropped; the kernel closes the device.                                  *)
Kill ==
    /\ stage \notin {"closed", "ended"}
    /\ Closes /\ unstopped' = (unstopped \/ streaming)
    /\ stage' = "ended" /\ streaming' = FALSE
    /\ UNCHANGED <<filterVars, kind, frequency>>

(* Another command on the same device.                                     *)
NextCommand ==
    /\ stage = "ended" /\ stage' = "closed"
    /\ kind' \in DOMAIN Stages /\ frequency' \in Frequencies
    /\ NewFilter
    /\ UNCHANGED <<streaming, driver, unstopped>>

(* Px4Device::open; that fails if there is no such device.                 *)
Open ==
    /\ stage = "closed"
    /\ stage' \in {"open", "ended"}
    /\ UNCHANGED <<filterVars, kind, frequency, streaming, driver, unstopped>>

(* A frequency off the plan ends the command before anything is tuned.     *)
BadFrequency ==
    /\ stage = "open" /\ ~OnPlan(frequency)
    /\ Dropped /\ UNCHANGED filterVars

(* Fault: any frequency is rounded to a channel.                           *)
SetChannelRounded ==
    /\ stage = "open"
    /\ driver' = [driver EXCEPT !.freqNo = FreqNo(Physical(frequency))]
    /\ stage' = "set"
    /\ UNCHANGED <<filterVars, kind, frequency, streaming, unstopped>>

(* tune_isdbt, the first ioctl.                                            *)
SetChannel ==
    /\ stage = "open" /\ OnPlan(frequency)
    /\ driver' = [driver EXCEPT !.freqNo = FreqNo(Physical(frequency))]
    /\ stage' = "set"
    /\ UNCHANGED <<filterVars, kind, frequency, streaming, unstopped>>

(* Fault: `streaming' is set only once the PAT has been read.              *)
StartUnrecorded ==
    /\ stage = "set"
    /\ driver' = [driver EXCEPT !.on = TRUE]
    /\ unstopped' = FALSE
    /\ stage' = Head(Stages[kind])
    /\ NewFilter
    /\ UNCHANGED <<kind, frequency, streaming>>

(* tune_isdbt, the second; then the first filter.                          *)
StartStreaming ==
    /\ stage = "set"
    /\ driver' = [driver EXCEPT !.on = TRUE] /\ streaming' = TRUE
    /\ unstopped' = FALSE
    /\ stage' = Head(Stages[kind])
    /\ NewFilter
    /\ UNCHANGED <<kind, frequency>>

(* Either ioctl fails.                                                     *)
IoctlFails ==
    /\ stage \in {"open", "set"} /\ (stage = "open" => OnPlan(frequency))
    /\ Dropped /\ UNCHANGED filterVars

Read == stage \in Reading /\ Pull /\ UNCHANGED px4Vars

(* read_sections_px4 got its table: the next read makes its own filter.    *)
NextTable ==
    /\ stage \in {"pat", "pmt"} /\ windows # {}
    /\ \E i \in 1 .. Len(Stages[kind]) - 1 :
          Stages[kind][i] = stage /\ stage' = Stages[kind][i + 1]
    /\ NewFilter
    /\ UNCHANGED <<kind, frequency, streaming, driver, unstopped>>

(* The PAT never came (which is what no signal looks like), it does not    *)
(* name the service, the device failed, the loop ended or the scan is done.*)
Finish ==
    /\ stage \in Reading \cup {"raw"}
    /\ Dropped /\ UNCHANGED filterVars

Px4Next ==
    \/ Open \/ BadFrequency \/ SetChannel \/ StartStreaming \/ IoctlFails
    \/ Read \/ NextTable \/ Finish \/ Kill \/ NextCommand

Px4Spec == Px4Init /\ [][Px4Next]_allVars

-----------------------------------------------------------------------------
(* A command stops what it started, at whichever step it fails (Drop for   *)
(* Px4Device): between commands the tuner is on only if the last one that  *)
(* started a stream was killed, or its STOP refused.                       *)
StopsWhatItStarted == stage = "ended" /\ driver.on => unstopped

(* The stream a command reads is that of the one UHF channel whose centre  *)
(* its frequency names, whatever its predecessors left streaming; and no   *)
(* cable or off-grid frequency is tuned as a terrestrial channel           *)
(* ("rejecting them here is what keeps a cable channel from being tuned as *)
(* a wrong-frequency terrestrial one").                                    *)
TunesWhatWasAsked ==
    stage \in Reading \cup {"raw"} =>
        /\ driver.on
        /\ \E ch \in FirstPhysical .. LastPhysical :
              /\ driver.freqNo = ch + 50
              /\ Centre(ch) <= frequency /\ frequency <= Centre(ch) + Tolerance
=============================================================================
