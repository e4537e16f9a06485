------------------------------ MODULE EpgHarvest ------------------------------
(***************************************************************************)
(* What `epg` makes of the sections its loop collects (main.rs Cmd::Epg,   *)
(* collect_eit_from_dvr; eit.rs parse_eit_section): which ones it keeps,   *)
(* which copy of an event it lists, and in which order.  The broadcaster   *)
(* repeats sections, corrects them and may lose bits on the way.           *)
(*                                                                         *)
(* A section is [service, table, number, version, events]; its table is    *)
(* "pf" (0x4E), "schedule" (0x50..0x5F) or "other".  An event is           *)
(* [id, start, letters, genres]: the day it starts, the length of its      *)
(* title and text together, and its content_nibbles.                       *)
(***************************************************************************)
EXTENDS StreamLoop, MjdDate, Sequences, FiniteSets

CONSTANTS
    Broadcast,      \* the sections on the air
    Garbled(_)      \* what a section reads as when bits of it are lost

Services == {s.service : s \in Broadcast}

IsEvent(e) == e.start \in Days /\ e.letters \in Nat /\ e.genres \in Nat

(* A section holds finitely many events, each on a day that the formula is *)
(* for, and a version of it lists an event once.                           *)
ASSUME BroadcastAssumption ==
    \A s \in Broadcast :
        /\ IsFiniteSet(s.events)
        /\ \A e \in s.events : IsEvent(e)
        /\ \A e, f \in s.events : e.id = f.id => e = f

VARIABLES
    schedule,       \* --schedule
    only,           \* {}, or with --only-service the service named
    includeEmpty,   \* --include-empty
    allSections,    \* all_sections
    listing,        \* the events printed, in order
    reported,
    heard           \* history: the sections that arrived whole

options     == <<schedule, only, includeEmpty>>
harvestVars == <<options, allSections, listing, reported, heard>>

HarvestInit ==
    /\ Init
    /\ schedule \in BOOLEAN /\ includeEmpty \in BOOLEAN
    /\ only \in {{}} \cup {{v} : v \in Services}
    /\ command = "tune" => ~schedule /\ ~includeEmpty /\ only = {}
    /\ allSections = <<>> /\ listing = <<>> /\ reported = FALSE
    /\ heard = {}

-----------------------------------------------------------------------------
(* Collecting.                                                             *)

WantedTable(s) == s.table = "pf" \/ (schedule /\ s.table = "schedule")
WantedService(s) == only # {} => s.service \in only

(* Fault: sections are taken as they come.                                 *)
ParseUnchecked(s, intact) == IF intact THEN {s} ELSE {Garbled(s)}

(* parse_eit_section: one section, or none if its CRC is wrong.            *)
Parse(s, intact) == IF intact THEN {s} ELSE {}

(* Fault: numbering is taken to be the table's.                            *)
NumberingOfTable(s) == <<s.table, s.number>>

(* The key of `seen': numbering restarts per (service, table).             *)
Numbering(s) == <<s.service, s.table, s.number>>

Seen(s) == \E i \in 1 .. Len(allSections) : Numbering(allSections[i]) = Numbering(s)

(* One raw section of the packets just read.                               *)
Collect(raw, intact) ==
    /\ command = "epg" /\ pc = "write"
    /\ allSections' =
         IF \E s \in Parse(raw, intact) :
               WantedTable(s) /\ WantedService(s) /\ ~Seen(s)
         THEN allSections \o <<CHOOSE s \in Parse(raw, intact) : TRUE>>
         ELSE allSections
    /\ heard' = IF intact THEN heard \cup {raw} ELSE heard
    /\ UNCHANGED <<vars, options, listing, reported>>

-----------------------------------------------------------------------------
(* Listing.                                                                *)

Score(e) == e.letters + 8 * e.genres

(* The copies of events that were kept, and where in all_sections.         *)
Copies ==
    UNION {{[service |-> allSections[i].service, event |-> e, at |-> i] :
              e \in allSections[i].events} : i \in 1 .. Len(allSections)}

(* The key of `events'.                                                    *)
SameEvent(a, b) == a.service = b.service /\ a.event.id = b.event.id

(* A later copy replaces an earlier one only if it scores more.            *)
Preferred(a, b) ==
    \/ Score(a.event) > Score(b.event)
    \/ Score(a.event) = Score(b.event) /\ a.at < b.at

Guide ==
    LET richest == {c \in Copies : \A o \in Copies :
                       SameEvent(c, o) /\ o # c => Preferred(c, o)}
    IN {[service |-> c.service, event |-> c.event] :
           c \in {k \in richest : includeEmpty \/ k.event.letters > 0}}

NotAfter(a, b) ==
    LET p == DateOf(a.event.start)  q == DateOf(b.event.start)
    IN Before(p, q) \/ (p = q /\ a.service <= b.service)

(* Events of one service that start together keep the order in which the   *)
(* HashMap gives them out: any.                                            *)
Orders(guide) ==
    {l \in [1 .. Cardinality(guide) -> guide] :
        \A i, j \in DOMAIN l : i < j => l[i] # l[j] /\ NotAfter(l[i], l[j])}

Report ==
    /\ command = "epg" /\ pc = "ended" /\ ~reported
    /\ listing' \in Orders(Guide)
    /\ reported' = TRUE
    /\ UNCHANGED <<vars, options, allSections, heard>>

HarvestNext ==
    \/ Next /\ UNCHANGED harvestVars
    \/ \E raw \in Broadcast, intact \in BOOLEAN : Collect(raw, intact)
    \/ Report

HarvestSpec ==
    HarvestInit /\ [][HarvestNext]_<<vars, harvestVars>> /\ Fairness

-----------------------------------------------------------------------------
Relevant(s) == WantedTable(s) /\ WantedService(s)
Listed == {listing[i] : i \in 1 .. Len(listing)}

(* Whatever was repeated, corrected or damaged on the way, every section   *)
(* heard is in the guide with all its events, in one of the versions heard *)
(* -- only an event whose richest copy has neither title nor text is left  *)
(* out.  Services that number their sections and events alike do not hide  *)
(* each other's ("one tune is one mux's worth of guide").                  *)
GuideComplete ==
    reported =>
        \A s \in heard : Relevant(s) =>
            \E t \in heard :
                /\ <<t.service, t.table, t.number>> = <<s.service, s.table, s.number>>
                /\ \A e \in t.events :
                      \/ \E c \in Listed : c.service = s.service /\ c.event.id = e.id
                      \/ /\ ~includeEmpty
                         /\ \E u \in heard : \E f \in u.events :
                               /\ u.service = s.service /\ f.id = e.id
                               /\ f.letters = 0 /\ Score(f) >= Score(e)

(* What is listed for a service was broadcast for that service, in a table *)
(* and for a service that was asked for, and is listed once.               *)
GuideIsBroadcast ==
    /\ \A c \in Listed :
          \E s \in heard : /\ Relevant(s) /\ s.service = c.service
                           /\ c.event \in s.events
    /\ \A i, j \in DOMAIN listing :
          i # j => <<listing[i].service, listing[i].event.id>>
                     # <<listing[j].service, listing[j].event.id>>

(* The listing is in the order of the days the events start on, wrong      *)
(* though the date of a day may be (MCMjdDate).                            *)
GuideChronological ==
    \A i, j \in DOMAIN listing :
        i < j => listing[i].event.start <= listing[j].event.start

(* "keep the richest copy: same id is often sent as TBC placeholder first, *)
(* then filled in later sections / repetitions" (Cmd::Epg).                *)
GuideRichest ==
    \A c \in Listed, s \in heard : \A e \in s.events :
        Relevant(s) /\ s.service = c.service /\ e.id = c.event.id
            => Score(e) <= Score(c.event)
=============================================================================
