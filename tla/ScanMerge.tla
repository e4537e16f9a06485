------------------------------ MODULE ScanMerge ------------------------------
(***************************************************************************)
(* One channels.json under scan after scan (main.rs, Cmd::Scan --merge;    *)
(* scan.rs, merge_scanned; config.rs, find_entry).  Every scan of a mux is *)
(* one merge; the document lives on from scan to scan.                     *)
(***************************************************************************)
EXTENDS ChannelDoc, SequencesExt

CONSTANTS MaxRecords,  \* bound on the records of the document at the start
          MaxServices  \* bound on the services of one mux

ASSUME MergeAssumption ==
  /\ IsFiniteSet(Keys) /\ IsFiniteSet(Titles) /\ IsFiniteSet(Curated)
  /\ MaxRecords \in Nat /\ MaxServices \in Nat

PlainNames == {Title(t) : t \in Titles \cup Curated}

Names == [base : Keys, n : {0}]
           \cup [base : Titles \cup Curated, n : 1..(Cardinality(Keys) + 2)]

VARIABLES doc,      \* channels.json: a sequence of records
          scanned,  \* the last scan's services, in PAT order
          aliased   \* MergeReport::aliased, as the keys of the records

vars == <<doc, scanned, aliased>>

-----------------------------------------------------------------------------
(* A document to start from: one record per service, some named by a       *)
(* person and some by this tool, with aliases, every record selectable.    *)
StartRecords == {[key |-> k, name |-> m, aliases |-> a] :
                   k \in Keys, m \in PlainNames, a \in SUBSET PlainNames}
                \cup {[key |-> k, name |-> Placeholder(k), aliases |-> a] :
                   k \in Keys, a \in SUBSET PlainNames}

Init ==
  /\ doc \in {d \in BoundedSeq(StartRecords, MaxRecords) : OneEach(d) /\ Selectable(d)}
  /\ scanned = <<>>
  /\ aliased = {}

(* One `scan --merge' of one mux, its file read, merged and written back.  *)
Scan(list, add) ==
  LET m == Merge(doc, list, add)
  IN  /\ doc' = m.doc
      /\ aliased' = m.aliased
      /\ scanned' = list

Scans == {s \in BoundedSeq(Services, MaxServices) : OneEach(s)}

Next == \E list \in Scans, add \in BOOLEAN : Scan(list, add)

Spec == Init /\ [][Next]_vars

-----------------------------------------------------------------------------
(* The document is well formed: one record per service, however often it   *)
(* is scanned, and no suffix beyond the number of services that ask for    *)
(* one (merge_scanned looks a service up before it adds it).               *)
TypeOK ==
  /\ doc \in Seq(Records(Names))
  /\ OneEach(doc)
  /\ scanned \in Scans
  /\ aliased \subseteq Keys

(* No two records share a name, however many services of one broadcaster   *)
(* share the name they send, within one scan or over several: unique_name  *)
(* against names, aliases and the names given so far (scan.rs 172-180).    *)
NamesDistinct ==
  \A i, j \in DOMAIN doc : doc[i].name = doc[j].name => i = j

(* A merge loses nothing that config files refer to: a string that found a *)
(* service before it finds the same service after it, unless the string is *)
(* itself a name the scan brought ("deliberately additive", scan.rs        *)
(* 61-65).                                                                 *)
AnswersKept ==
  [][\A s \in Taken(doc) \ {scanned'[i].name : i \in DOMAIN scanned'} :
       Find(doc', s) = Find(doc, s)]_vars

(* A merge that gave no alias leaves every record selectable by its own    *)
(* name, if they all were: renamed and added records never take a name an  *)
(* earlier record answers to (the bug scan.rs 99-106 tells of).           *)
GivenNamesSelect ==
  [][(Selectable(doc) /\ aliased' = {}) => Selectable(doc')]_vars

(* Scanning an unchanged mux again settles: after two merges of the same   *)
(* list into any document a third changes nothing, so a nightly scan does  *)
(* not grow the file for ever.                                             *)
RescanSettles ==
  \A add \in BOOLEAN :
    LET Again(d) == Merge(d, scanned, add).doc
        twice    == Again(Again(doc))
    IN  Again(twice) = twice

(* What the tests ask of every merge: every record is selectable by its    *)
(* own name (scan.rs 507-520).                                             *)
EveryRecordSelectable == Selectable(doc)

=============================================================================
