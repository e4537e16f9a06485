--------------------------- MODULE SectionAssembler ---------------------------
(***************************************************************************)
(* TsSectionAssembler (src/src/eit.rs): SI sections put together again from*)
(* the TS packets of one PID, over a channel that loses packets.  A cell   *)
(* stands for a run of bytes of a section; the first cell of a section is  *)
(* its header and carries the length.  The sender is the multiplexer at the*)
(* other end: any legal packing of any sections.                           *)
(***************************************************************************)
EXTENDS Integers, Sequences, SequencesExt

CONSTANTS
    CcMod,          \* continuity counters (16)
    Room,           \* cells in a packet's payload
    Lens,           \* lengths of sections, in cells
    MaxSections,    \* bound: sections sent in a behaviour
    MaxLost         \* bound: packets lost in a row

ASSUME AssemblerAssumption ==
    /\ CcMod \in Nat \ {0, 1} /\ Room \in Nat \ {0}
    /\ Lens \subseteq Nat \ {0}
    /\ MaxSections \in Nat /\ MaxLost \in 0 .. CcMod - 1

VARIABLES
    pend,           \* sender: cells of the current section still to be sent
    sent,           \* sender: sections begun
    cc,             \* sender: counter of the next packet
    partial, partial_valid, last_cc,    \* the assembler's fields
    ready,          \* the sections the last packet completed, as drained
    lost,           \* packets lost since the last one received
    pusi,           \* whether the last packet received had PUSI set
    gap,            \* packets lost just before it
    harmed,         \* sections that lost a packet
    got             \* ids of the sections handed out, 0 for noise

sender   == <<pend, sent, cc>>
receiver == <<partial, partial_valid, last_cc, ready>>
history  == <<lost, pusi, gap, harmed, got>>
vars     == <<sender, receiver, history>>

None == -1
Stuff == [id |-> 0, i |-> 0, len |-> 0]         \* a run of 0xFF
Section(id, len) == [i \in 1 .. len |-> [id |-> id, i |-> i, len |-> len]]
Cell == [id : 0 .. MaxSections, i : Nat, len : Nat]

(* Fault: the counter is not masked to its width.                          *)
WiderCc(c) == c + 1

NextCc(c) == (c + 1) % CcMod

Take(s, n) == SubSeq(s, 1, IF n < Len(s) THEN n ELSE Len(s))
Drop(s, n)  == SubSeq(s, n + 1, Len(s))

Init ==
    /\ pend = <<>> /\ sent = 0
    /\ cc \in 0 .. CcMod - 1
    /\ partial = <<>> /\ partial_valid = FALSE /\ last_cc = None
    /\ ready = <<>>
    /\ lost = 0 /\ pusi = FALSE /\ gap = 0
    /\ harmed = {} /\ got = <<>>

-----------------------------------------------------------------------------
(* The sender.  A packet: its PUSI bit, its pointer field and its payload. *)

Padded(s) == s \o [k \in 1 .. Room - Len(s) |-> Stuff]

Packet(start, ptr, begun, cells) ==
    [pusi |-> start, ptr |-> ptr, begun |-> begun,
     load |-> Padded(Take(cells, Room)), left |-> Drop(cells, Room)]

Starting(n, body) == Packet(TRUE, Len(pend), sent + n, pend \o body)

(* The next packets the multiplexer may send: more of the section under    *)
(* way; its end and stuffing; or its end, if any, and one or two sections  *)
(* that start, the last cut off by the end of the packet.                  *)
Packets ==
    (IF pend = <<>> THEN {} ELSE {Packet(FALSE, 0, sent, pend)})
    \cup {Starting(1, Section(sent + 1, a)) :
            a \in {l \in Lens : Len(pend) < Room /\ sent < MaxSections}}
    \cup {Starting(2, Section(sent + 1, a) \o Section(sent + 2, b)) :
            a \in {l \in Lens : Len(pend) + l < Room /\ sent + 1 < MaxSections},
            b \in Lens}

Send(pkt) ==
    /\ pkt \in Packets
    /\ pend' = pkt.left /\ sent' = pkt.begun
    /\ cc' = NextCc(cc)

IdsOf(cells) == {cells[k].id : k \in DOMAIN cells} \ {0}

-----------------------------------------------------------------------------
(* TsSectionAssembler::feed, and the drain its callers do right after it.  *)

(* What bytes that are no header read as, by how many cells of them are    *)
(* left: as 0xFF, as a length past 4096, or as that many cells, which may  *)
(* be more than there are.  Only the bytes before a pointer can be that.   *)
Filler == 0
TooLong == -1
Readings == {says \in [1 .. Room -> {TooLong, Filler} \cup 1 .. Room + 1] :
                \A n \in 1 .. Room : says[n] <= n + 1}

(* A header is there to its end: it may be cut within its own cell.        *)
Headed(q) ==
    /\ q[1].i = 1
    /\ Len(q) = 1 \/ q[1].len = 1 \/ q[2] = [q[1] EXCEPT !.i = 2]

(* The length `partial' states, or takes noise to state.                   *)
Total(q, says) ==
    IF q[1] = Stuff THEN Filler
    ELSE IF Headed(q) THEN q[1].len ELSE says[Len(q)]

(* Fault: a section is whole only when something follows it.               *)
WholeLate(q, total) == Len(q) > total

Whole(q, total) == Len(q) >= total

(* A turn of try_complete's loop: stuffing is skipped, a length no section *)
(* has clears everything, a whole section comes off the front.             *)
Turn(p, says) ==
    IF p.rest = <<>> THEN p
    ELSE LET total == Total(p.rest, says)
         IN  IF total = Filler THEN [p EXCEPT !.rest = Tail(@)]
             ELSE IF total = TooLong THEN [p EXCEPT !.rest = <<>>]
             ELSE IF Whole(p.rest, total)
             THEN [out  |-> Append(p.out, Take(p.rest, total)),
                   rest |-> Drop(p.rest, total)]
             ELSE p

(* The loop on `partial' = q, which every turn but the last shortens.      *)
Turns(q, says) ==
    LET turns[k \in 0 .. Len(q)] ==
          IF k = 0 THEN [out |-> <<>>, rest |-> q] ELSE Turn(turns[k - 1], says)
    IN turns

Completed(q, says) == Turns(q, says)[Len(q)]

(* Fault: no continuity check.                                             *)
CcNeverBroken(pkt) == FALSE

(* A counter that does not follow on: checked only without PUSI.           *)
CcBroken(pkt) == ~pkt.pusi /\ last_cc # None /\ cc # NextCc(last_cc)

(* Fault: a gap clears the bytes and leaves the partial section valid.     *)
ValidThroughGap(pkt) == partial_valid

StillValid(pkt) == partial_valid /\ ~CcBroken(pkt)

Feed(pkt, says) ==
    LET kept   == IF CcBroken(pkt) THEN <<>> ELSE partial
        valid  == StillValid(pkt)
        tail   == IF valid THEN Completed(kept \o Take(pkt.load, pkt.ptr), says).out
                            ELSE <<>>
        start  == Completed(Drop(pkt.load, pkt.ptr), says)
        cont   == IF valid THEN Completed(kept \o pkt.load, says)
                           ELSE [out |-> <<>>, rest |-> kept]
    IN  /\ last_cc' = cc
        /\ partial_valid' = (pkt.pusi \/ valid)
        /\ partial' = IF pkt.pusi THEN start.rest ELSE cont.rest
        /\ ready' = IF pkt.pusi THEN tail \o start.out ELSE cont.out

(* All the cells of one section that was sent, and no others.              *)
Genuine(sec) ==
    /\ Len(sec) = sec[1].len
    /\ \A k \in DOMAIN sec : sec[k] = [sec[1] EXCEPT !.i = k]

IdOf(sec) == IF Genuine(sec) THEN sec[1].id ELSE 0

Receive ==
    \E pkt \in Packets, says \in Readings :
        /\ Send(pkt) /\ Feed(pkt, says)
        /\ lost' = 0 /\ pusi' = pkt.pusi /\ gap' = lost
        /\ got' = got \o [k \in DOMAIN ready' |-> IdOf(ready'[k])]
        /\ UNCHANGED harmed

(* The packet does not arrive: no continuity counter, no payload.          *)
Lose ==
    \E pkt \in Packets :
        /\ lost < MaxLost
        /\ Send(pkt)
        /\ lost' = lost + 1
        /\ harmed' = harmed \cup IdsOf(pkt.load)
        /\ ready' = <<>>
        /\ UNCHANGED <<partial, partial_valid, last_cc, pusi, gap, got>>

Next == Receive \/ Lose

Spec == Init /\ [][Next]_vars

-----------------------------------------------------------------------------
TypeOK ==
    /\ partial \in Seq(Cell) /\ partial_valid \in BOOLEAN
    /\ last_cc \in {None} \cup 0 .. CcMod - 1
    /\ pend \in Seq(Cell) /\ sent \in 0 .. MaxSections /\ cc \in 0 .. CcMod - 1
    /\ lost \in 0 .. MaxLost /\ gap \in 0 .. MaxLost
    /\ got \in Seq(0 .. MaxSections)

(* A CC gap discards the partial section, "preventing corrupted bytes from *)
(* reaching CRC validation" (eit.rs, the comment on TsSectionAssembler).   *)
NoMixedSection == \A k \in DOMAIN ready : Genuine(ready[k])

(* What the gap check does give: what is handed out that was never sent,   *)
(* mixed of two sections or read out of noise, comes of the bytes before   *)
(* the pointer of a PUSI packet right after a loss: in front of every      *)
(* genuine section of that packet.  A continuation packet, or an unbroken  *)
(* stream, gives none.                                                     *)
NoiseOnlyAcrossPusi ==
    \A k \in DOMAIN ready :
        ~Genuine(ready[k]) =>
            /\ pusi /\ gap > 0
            /\ \A j \in DOMAIN ready : j < k => ~Genuine(ready[j])

(* No collateral loss: a section none of whose packets was lost is handed  *)
(* out with the packet that carried its last cell at the latest, whatever  *)
(* was lost before it; and none is handed out twice or out of order.       *)
IntactSectionsArrive ==
    /\ \A id \in 1 .. sent :
          id \in harmed \/ id \in Range(got) \/ id \in IdsOf(pend)
    /\ \A a, b \in DOMAIN got : a < b /\ got[b] # 0 => got[a] < got[b]

(* After a loss the assembler is in step again at the next PUSI packet: it *)
(* holds the bytes of the section under way, from its header on, unless it *)
(* has declared them invalid (partial_valid).                              *)
InStep ==
    lost = 0 /\ partial_valid =>
        \/ partial = <<>> /\ pend = <<>>
        \/ /\ partial # <<>> /\ pend # <<>>
           /\ Genuine(partial \o pend) /\ Len(partial \o pend) = partial[1].len
=============================================================================
