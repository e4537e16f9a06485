------------------------------- MODULE PidFilter -------------------------------
(***************************************************************************)
(* TsPidFilter (px4.rs): it finds the packets in the px4 device's byte     *)
(* stream and forwards those of the PIDs to keep.  A byte is its position  *)
(* in the stream: packets start at the multiples of PacketSize with a sync *)
(* byte, and a few payload bytes (`strays') look like one.  `carry' is what*)
(* the filter holds, the bytes from `front' up to `back'.                   *)
(***************************************************************************)
EXTENDS Integers

CONSTANTS
    PacketSize,     \* TS_PACKET_SIZE
    MaxByte,        \* bound: bytes of the stream
    MaxRead         \* the most bytes one read of the device returns

ASSUME PidFilterAssumption ==
    /\ PacketSize \in Nat \ {0} /\ MaxRead \in Nat \ {0} /\ MaxByte \in Nat

VARIABLES
    strays,         \* payload bytes that are 0x47
    born,           \* where the current filter's first byte is
    front, back,    \* carry: the bytes front .. back - 1
    windows         \* history: where the packets it looked at started

filterVars == <<strays, born, front, back, windows>>

Aligned(p) == \E i \in 0 .. p : p = PacketSize * i
Looks(p) == Aligned(p) \/ p \in strays

(* The device may start in the middle of a packet.                         *)
FilterInit ==
    /\ strays \in SUBSET {p \in 0 .. MaxByte : ~Aligned(p)}
    /\ back \in 0 .. PacketSize - 1 /\ front = back /\ born = back
    /\ windows = {}

(* A new filter on the same device: what the last one carried is gone.     *)
NewFilter ==
    /\ born' = back /\ front' = back /\ windows' = {}
    /\ UNCHANGED <<strays, back>>

-----------------------------------------------------------------------------
(* A sync byte with another one a packet further on, before the end `t' of *)
(* the carry.                                                              *)
Confirmed(t, p) == Looks(p) /\ p + PacketSize < t /\ Looks(p + PacketSize)

(* sync_offset: the first that is confirmed.  (A candidate too close to the*)
(* end to confirm stops the search: so are all behind it.)                 *)
SyncAt(t, c) ==
    Confirmed(t, c) /\ \A p \in front .. c - 1 : ~Confirmed(t, p)

(* Fault: what is left behind the last whole packet is dropped.            *)
ConsumeAll(from, t) ==
    \E n \in 0 .. t - from :
        /\ PacketSize * n <= t - from /\ t - from < PacketSize * n + PacketSize
        /\ front' = t
        /\ windows' = windows \cup {from + PacketSize * i : i \in 0 .. n - 1}

(* Packet after packet from `from' until less than one is left.            *)
Consume(from, t) ==
    \E n \in 0 .. t - from :
        /\ PacketSize * n <= t - from /\ t - from < PacketSize * n + PacketSize
        /\ front' = from + PacketSize * n
        /\ windows' = windows \cup {from + PacketSize * i : i \in 0 .. n - 1}

(* Fault: one byte too few is kept.                                        *)
KeepShort(t) ==
    /\ front' = IF t - front >= PacketSize THEN t - PacketSize + 1 ELSE front
    /\ UNCHANGED windows

(* Fault: without a confirmed start everything is kept.                    *)
KeepEverything(t) == UNCHANGED <<front, windows>>

(* No confirmed start: keep enough to confirm one against the next read.   *)
KeepTail(t) ==
    /\ front' = IF t - front > PacketSize THEN t - PacketSize ELSE front
    /\ UNCHANGED windows

(* Fault: the device is trusted to deliver whole packets.                  *)
IngestTrusting(t) == Consume(front, t)

(* ingest: a carry that starts with a sync byte is taken as it is, else it *)
(* is searched for a confirmed start.                                      *)
Ingest(t) ==
    \/ Looks(front) /\ Consume(front, t)
    \/ /\ ~Looks(front)
       /\ \E c \in front .. t - 1 : SyncAt(t, c) /\ Consume(c, t)
    \/ /\ ~Looks(front) /\ \A c \in front .. t - 1 : ~Confirmed(t, c)
       /\ KeepTail(t)

(* One read of the device.                                                 *)
Pull ==
    /\ \E n \in 1 .. MaxRead :
          /\ back + n <= MaxByte
          /\ back' = back + n
          /\ Ingest(back')
    /\ UNCHANGED <<strays, born>>

-----------------------------------------------------------------------------
FilterTypeOK ==
    /\ strays \subseteq 0 .. MaxByte
    /\ {born, front, back} \subseteq Nat
    /\ born <= front /\ front <= back
    /\ windows \subseteq Nat

(* Noise cannot make it grow: between reads it carries a packet at most    *)
(* ("a stream of pure noise cannot grow this without bound", ingest).      *)
CarryBounded == back - PacketSize <= front

(* Nothing is passed over: every packet start behind `front' was looked at  *)
(* as a packet, or lies within a misread one (ingest keeps "only enough to *)
(* confirm against the next read" -- and no less).                         *)
EveryPacketMet ==
    \A p \in born .. front :
        p < front /\ Aligned(p) => \E w \in windows : w <= p /\ p < w + PacketSize

(* Once in step a filter stays in step, however the reads cut the packets: *)
(* payload bytes that look like sync do not matter any more.               *)
InStepForever ==
    [][born' = born /\ Aligned(front) => Aligned(front')]_filterVars

(* Packets are misread only from a payload byte on that looks like sync and*)
(* that a read left at the front of the carry, or confirmed: a misread does*)
(* not outlast the batch that began with it.                               *)
MisreadNeedsStray ==
    [][\A w \in windows' \ windows :
          Aligned(w) \/ \E s \in strays \cap (windows' \ windows) : s <= w]_filterVars
=============================================================================
