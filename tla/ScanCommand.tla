----------------------------- MODULE ScanCommand -----------------------------
(***************************************************************************)
(* `scan' from the tables on the air to the channel list on disk           *)
(* (main.rs Cmd::Scan, scan.rs scan_current_transport and                  *)
(* channels_from_pat_sdt, si_reader.rs read_sections_from_source,          *)
(* config.rs load and write).  Scanners are processes on adapters of their *)
(* own, so the adapter lock does not keep them apart, and write one file.  *)
(*                                                                         *)
(* A copy of an SDT section is [version, number, last, services, intact];  *)
(* a damaged one may bear any number, or none (its long form is not        *)
(* recognised).  Services, names and documents are those of ChannelDoc.    *)
(***************************************************************************)
EXTENDS ChannelDoc

CONSTANTS
    Scanners,
    Programs,       \* for each mux the keys its PAT lists, in order
    Sdt,            \* for each mux the sections of its SDT, all versions
    Damaged(_),     \* what a section may read as when bits of it are lost
    StartFiles,     \* what --output may hold before
    MaxCopies       \* bound: SDT copies each scanner receives

NoNumber == -1

(* A version of a table is numbered from 0 to its last section, each once. *)
IsTable(sections) ==
    \A s \in sections :
        /\ s.intact /\ s.services \in Seq(Services)
        /\ s.last \in Nat /\ s.number \in 0 .. s.last
        /\ \A t \in sections : t.version = s.version =>
              t.last = s.last /\ (t.number = s.number => t = s)

(* The CRC finds what damage there is.                                     *)
IsDamaged(copy) ==
    ~copy.intact /\ copy.last \in Nat /\ copy.number \in Nat \cup {NoNumber}

ASSUME ScanAssumption ==
    /\ DOMAIN Programs = DOMAIN Sdt /\ MaxCopies \in [Scanners -> Nat]
    /\ \A m \in DOMAIN Sdt :
          /\ Programs[m] \in Seq(Keys) /\ IsTable(Sdt[m])
          /\ \A s \in Sdt[m] : \A copy \in Damaged(s) : IsDamaged(copy)
    /\ \A f \in StartFiles : f.kind = "document" => IsDocument(f.records)

VARIABLES
    mux, mode,      \* what each scanner scans; "plain", "force", "merge", "add"
    phase,          \* where it is
    collected, last,
    arrived,        \* history: the copies it received, in order
    found,          \* the ChannelsFile of the scan
    output,         \* what it is about to write
    file,           \* channels.json: [kind, records]
    replaced,       \* history: the keys of the document it truncated
    raced           \* history: another wrote after it had read the file

radio == <<collected, last, arrived>>
disk  == <<file, replaced, raced>>
vars  == <<mux, mode, phase, radio, found, output, disk>>

Init ==
    /\ mux \in [Scanners -> DOMAIN Sdt]
    /\ mode \in [Scanners -> {"plain", "force", "merge", "add"}]
    /\ phase = [p \in Scanners |-> "pat"]
    /\ collected = [p \in Scanners |-> <<>>]
    /\ last = [p \in Scanners |-> NoNumber]
    /\ arrived = [p \in Scanners |-> <<>>]
    /\ found = [p \in Scanners |-> <<>>]
    /\ output = [p \in Scanners |-> <<>>]
    /\ file \in StartFiles
    /\ replaced = [p \in Scanners |-> {}]
    /\ raced = [p \in Scanners |-> FALSE]

Goes(p, to) == phase' = [phase EXCEPT ![p] = to]

ReaderGone(p) ==
    /\ collected' = [collected EXCEPT ![p] = <<>>]
    /\ last' = [last EXCEPT ![p] = NoNumber]
    /\ arrived' = [arrived EXCEPT ![p] = <<>>]

-----------------------------------------------------------------------------
(* From the air.                                                           *)

(* The PAT is read first_only; parse_pat checks it, and no other is tried. *)
PatArrives(p, intact) ==
    /\ phase[p] = "pat"
    /\ Goes(p, IF intact THEN "sdt" ELSE "failed")
    /\ UNCHANGED <<mux, mode, radio, found, output, disk>>

(* Fault: `collected' is resized whether or not it is too short.           *)
PlacesResized(c, n) == [i \in 1 .. n + 1 |-> IF i <= Len(c) THEN c[i] ELSE <<>>]

Places(c, n) == IF Len(c) > n THEN c ELSE PlacesResized(c, n)

(* read_sections_from_source: a copy of a section with a number takes that *)
(* number's place, whatever its CRC.  (A place is a sequence of one copy,  *)
(* or of none.)                                                            *)
SdtArrives(p, copy) ==
    /\ phase[p] = "sdt" /\ copy.number # NoNumber /\ Len(arrived[p]) < MaxCopies[p]
    /\ last' = [last EXCEPT ![p] = copy.last]
    /\ collected' = [collected EXCEPT
         ![p] = [Places(@, copy.number) EXCEPT ![copy.number + 1] = <<copy>>]]
    /\ arrived' = [arrived EXCEPT ![p] = Append(@, copy)]
    /\ UNCHANGED <<mux, mode, phase, found, output, disk>>

(* Fault: the CRC is left to the demux.                                    *)
ParseUnchecked(s) == s.services

(* parse_sdt of one section.                                               *)
ParseSdt(s) == IF s.intact THEN s.services ELSE <<>>

AddService(list, svc) ==
    IF \E i \in DOMAIN list : list[i].key = svc.key THEN list ELSE Append(list, svc)

AddSection(list, place) ==
    LET services == IF place = <<>> THEN <<>> ELSE ParseSdt(place[1])
        l[i \in 0 .. Len(services)] ==
          IF i = 0 THEN list ELSE AddService(l[i - 1], services[i])
    IN l[Len(services)]

AddSections(places) ==
    LET l[i \in 0 .. Len(places)] ==
          IF i = 0 THEN <<>> ELSE AddSection(l[i - 1], places[i])
    IN l[Len(places)]

(* channels_from_pat_sdt: the services of the sections in order, each once,*)
(* or the PAT's programs under invented names.                             *)
Channels(places, programs) ==
    IF AddSections(places) # <<>> THEN AddSections(places)
    ELSE [i \in DOMAIN programs |-> [key |-> programs[i], name |-> Placeholder(programs[i])]]

(* The list is made; the reader and what it collected go.                  *)
GetsList(p, places) ==
    /\ found' = [found EXCEPT ![p] = Channels(places, Programs[mux[p]])]
    /\ Goes(p, "found") /\ ReaderGone(p)

(* A section without numbering is taken, alone.                            *)
ShortArrives(p, copy) ==
    /\ phase[p] = "sdt" /\ copy.number = NoNumber
    /\ GetsList(p, <<<<copy>>>>)
    /\ UNCHANGED <<mux, mode, output, disk>>

(* Fault: the last section is not waited for.                              *)
CompleteEarly(p) ==
    /\ last[p] # NoNumber /\ Len(collected[p]) >= last[p]
    /\ \A i \in 1 .. last[p] : collected[p][i] # <<>>

(* Every index up to last_section_number is present.                       *)
Complete(p) ==
    /\ last[p] # NoNumber /\ Len(collected[p]) > last[p]
    /\ \A i \in 1 .. last[p] + 1 : collected[p][i] # <<>>

(* This is looked at after each read, which may bring several sections.    *)
SdtComplete(p) ==
    /\ phase[p] = "sdt" /\ Complete(p)
    /\ GetsList(p, collected[p])
    /\ UNCHANGED <<mux, mode, output, disk>>

(* The deadline: what arrived is returned; if nothing did, that is an error*)
(* of read_sections.                                                       *)
SdtTimeout(p) ==
    /\ phase[p] = "sdt"
    /\ IF \A i \in DOMAIN collected[p] : collected[p][i] = <<>>
       THEN Goes(p, "failed") /\ UNCHANGED <<radio, found>>
       ELSE GetsList(p, collected[p])
    /\ UNCHANGED <<mux, mode, output, disk>>

(* No lock, no PAT, or another error up to here.                           *)
Fails(p) ==
    /\ phase[p] \in {"pat", "sdt"} /\ Goes(p, "failed") /\ ReaderGone(p)
    /\ UNCHANGED <<mux, mode, found, output, disk>>

-----------------------------------------------------------------------------
(* To the disk.                                                            *)

(* load_channels_document: a list without `tuning' is none, unless empty.  *)
Loads(f) == f.kind = "document" \/ (f.kind = "bare" /\ f.records = <<>>)

DocumentKeys(f) == IF f.kind = "document" THEN KeysOf(f.records) ELSE {}

(* --merge: load and merge_scanned, in memory.                             *)
LoadAndMerge(p) ==
    /\ phase[p] = "found" /\ mode[p] \in {"merge", "add"}
    /\ IF Loads(file)
       THEN /\ output' = [output EXCEPT ![p] =
                   Merge(file.records, found[p], mode[p] = "add").doc]
            /\ Goes(p, "ready")
       ELSE Goes(p, "failed") /\ UNCHANGED output
    /\ UNCHANGED <<mux, mode, radio, found, disk>>

(* Fault: the guard knows only the list that `scan' itself writes.         *)
GuardBareOnly(p) ==
    /\ phase[p] = "found" /\ mode[p] \in {"plain", "force"}
    /\ output' = [output EXCEPT ![p] = found[p]]
    /\ Goes(p, IF mode[p] = "plain" /\ file.kind = "bare" THEN "failed" ELSE "ready")
    /\ UNCHANGED <<mux, mode, radio, found, disk>>

(* Without --merge an existing document is not overwritten, but by --force.*)
Guard(p) ==
    /\ phase[p] = "found" /\ mode[p] \in {"plain", "force"}
    /\ output' = [output EXCEPT ![p] = found[p]]
    /\ Goes(p, IF mode[p] = "plain" /\ Loads(file) THEN "failed" ELSE "ready")
    /\ UNCHANGED <<mux, mode, radio, found, disk>>

(* Those between their reading of the file and their write of it.          *)
RaceWith(p) ==
    raced' = [q \in Scanners |->
                raced[q] \/ (q # p /\ phase[q] \in {"ready", "writing"})]

(* std::fs::write, first the file is created or truncated,                 *)
Truncate(p) ==
    /\ phase[p] = "ready" /\ Goes(p, "writing")
    /\ file' = [kind |-> "empty", records |-> <<>>]
    /\ replaced' = [replaced EXCEPT ![p] = DocumentKeys(file)]
    /\ RaceWith(p)
    /\ UNCHANGED <<mux, mode, radio, found, output>>

(* then written from its start: over what another wrote since, which shows *)
(* behind it if that was longer.                                           *)
Write(p) ==
    /\ phase[p] = "writing" /\ Goes(p, "done")
    /\ \/ file' = [kind |-> IF mode[p] \in {"merge", "add"} THEN "document" ELSE "bare",
                   records |-> output[p]]
       \/ file.kind # "empty" /\ file' = [kind |-> "mixed", records |-> <<>>]
    /\ RaceWith(p)
    /\ UNCHANGED <<mux, mode, radio, found, output, replaced>>

Kill(p) ==
    /\ phase[p] \notin {"failed", "done"} /\ Goes(p, "failed") /\ ReaderGone(p)
    /\ UNCHANGED <<mux, mode, found, output, disk>>

Hears(p, s) ==
    \E copy \in {s} \cup Damaged(s) : SdtArrives(p, copy) \/ ShortArrives(p, copy)

Next ==
    \E p \in Scanners :
        \/ \E intact \in BOOLEAN : PatArrives(p, intact)
        \/ \E s \in Sdt[mux[p]] : Hears(p, s)
        \/ SdtComplete(p) \/ SdtTimeout(p) \/ Fails(p)
        \/ LoadAndMerge(p) \/ Guard(p) \/ Truncate(p) \/ Write(p)
        \/ Kill(p)

Spec == Init /\ [][Next]_vars

-----------------------------------------------------------------------------
(* What arrived whole is listed, and neither another section that did not  *)
(* nor the deadline loses it ("whatever sections did arrive are returned", *)
(* read_sections; "one malformed section shouldn't lose the others",       *)
(* channels_from_pat_sdt) -- unless a later copy bore its number, or one   *)
(* without a number came and ended the collection.                         *)
SectionsKept ==
    [][\A p \in Scanners : SdtComplete(p) \/ SdtTimeout(p) =>
         \A i \in DOMAIN arrived[p] :
            /\ arrived[p][i].intact
            /\ \A j \in i + 1 .. Len(arrived[p]) :
                  arrived[p][j].number # arrived[p][i].number
            => KeysOf(arrived[p][i].services) \subseteq KeysOf(found'[p])]_vars

(* A scan that did not wait for its deadline, and heard one version of the *)
(* SDT undamaged, lists every service of it.                               *)
TableComplete ==
    [][\A p \in Scanners, v \in {s.version : s \in UNION {Sdt[m] : m \in DOMAIN Sdt}} :
         SdtComplete(p) /\ (\A i \in DOMAIN arrived[p] :
                               arrived[p][i].intact /\ arrived[p][i].version = v)
         => \A s \in Sdt[mux[p]] : s.version = v =>
               KeysOf(s.services) \subseteq KeysOf(found'[p])]_vars

SentAs(key, name) ==
    \E m \in DOMAIN Sdt : \E s \in Sdt[m] : \E i \in DOMAIN s.services :
       LET svc == s.services[i] IN
       /\ svc.key = key /\ svc.name.base = name.base
       /\ IsPlaceholder(svc.name) = IsPlaceholder(name)

OnFile(key, name) ==
    \E f \in StartFiles : f.kind = "document" /\
       \E i \in DOMAIN f.records : f.records[i].key = key /\ f.records[i].name = name

(* Whatever is damaged on the air and whoever else scans, a document gets  *)
(* no service and no service a name but such as a mux sends for it, and    *)
(* what the SDT does not name gets neither (merge_scanned skips it).  A    *)
(* list without --merge has besides only programs of its own mux's PAT.    *)
ListIsBroadcast ==
    \A p \in Scanners : \A i \in DOMAIN output[p] :
        LET rec == output[p][i] IN
        IF mode[p] \in {"merge", "add"}
        THEN \/ OnFile(rec.key, rec.name)
             \/ SentAs(rec.key, rec.name) /\ ~IsPlaceholder(rec.name)
        ELSE \/ SentAs(rec.key, rec.name)
             \/ /\ \E j \in DOMAIN Programs[mux[p]] : rec.key = Programs[mux[p]][j]
                /\ rec.name = Placeholder(rec.key)

(* A write that was not asked to --force loses no service of the document  *)
(* it replaces, if no other scan wrote between its reading of the file and *)
(* its write ("deliberately additive", merge_scanned; the guard of Scan).  *)
NothingLostUnraced ==
    \A p \in Scanners :
        phase[p] \in {"writing", "done"} /\ mode[p] # "force" /\ ~raced[p]
            => replaced[p] \subseteq KeysOf(output[p])
=============================================================================
