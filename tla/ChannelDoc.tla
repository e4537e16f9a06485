------------------------------ MODULE ChannelDoc ------------------------------
(***************************************************************************)
(* channels.json as a sequence of records (config.rs ChannelsDocument),    *)
(* the lookup that reads it (find_entry) and the fold of a scan's service  *)
(* list into it (scan.rs, merge_scanned and its helpers).                  *)
(*                                                                         *)
(* A service is known by SERVICE_ID and FREQUENCY together: a key.  A name *)
(* is [base |-> t, n |-> k]: the title t itself for k = 1, t with the      *)
(* suffix _k for k > 1, and the name this tool invents for the service t   *)
(* ("u1065_539142857") for k = 0.  The aliases of a record are a set: the  *)
(* code pushes one only if it is not there, and lookup asks only whether   *)
(* it is.  A record's legacy_zap_section counts as one of them: it is      *)
(* matched by lookup and collected in `taken' alike, and never changed.    *)
(* (Pushing it once more as an alias, as the code does, changes no lookup.)*)
(***************************************************************************)
EXTENDS Integers, FiniteSets, Sequences

CONSTANTS Keys,        \* services: SERVICE_ID and FREQUENCY
          Titles,      \* service names a broadcaster sends
          Curated      \* names only a person gives

Title(t) == [base |-> t, n |-> 1]
Placeholder(k) == [base |-> k, n |-> 0]

(* Fault: a suffixed name, "TOKYO MX1_2", is taken for an invented one.    *)
LooksInvented(name) == name.n # 1

(* is_placeholder_name.                                                    *)
IsPlaceholder(name) == name.n = 0

Records(names) == [key : Keys, name : names, aliases : SUBSET names]

(* Any document, however a person or this tool came to write it.           *)
Strings == [base : Keys \cup Titles \cup Curated, n : Nat]
IsDocument(d) ==
  /\ d \in Seq(Records(Strings))
  /\ \A i \in DOMAIN d : IsFiniteSet(d[i].aliases)

(* What the SDT can say of a service: a name, or nothing, and then the     *)
(* scan invents one.                                                       *)
Services == {[key |-> k, name |-> m] : k \in Keys, m \in {Title(t) : t \in Titles}}
              \cup {[key |-> k, name |-> Placeholder(k)] : k \in Keys}

KeysOf(list) == {list[i].key : i \in DOMAIN list}

OneEach(s) == \A i, j \in DOMAIN s : s[i].key = s[j].key => i = j

-----------------------------------------------------------------------------
(* Lookup: the first record whose name or aliases hold the string.         *)

Answers(rec, s) == rec.name = s \/ s \in rec.aliases
Answering(d, s) == {i \in DOMAIN d : Answers(d[i], s)}
IsFirst(d, s, i) ==
  /\ i \in Answering(d, s)
  /\ \A j \in Answering(d, s) : i <= j
Find(d, s) == {d[i].key : i \in {j \in DOMAIN d : IsFirst(d, s, j)}}

Selectable(d) == \A i \in DOMAIN d : IsFirst(d, d[i].name, i)

-----------------------------------------------------------------------------
(* The merge.  The accumulator of the loop over the services is            *)
(* [doc, taken, aliased].                                                  *)

(* Fault, the one scan.rs 99-106 tells of: aliases do not count.          *)
TakenNames(d) == {d[i].name : i \in DOMAIN d}

(* Every string that selects some record.                                  *)
Taken(d) == UNION {{d[i].name} \cup d[i].aliases : i \in DOMAIN d}

(* The first of t, t_2, t_3... that nothing in taken answers to.           *)
UniqueName(t, taken) ==
  LET free == {k \in 1..(Cardinality(taken) + 1) : [base |-> t, n |-> k] \notin taken}
  IN  [base |-> t, n |-> CHOOSE k \in free : \A j \in free : k <= j]

NewRecord(name, svc) == [key |-> svc.key, name |-> name, aliases |-> {}]

(* Fault: a service is looked up by its name as well.                      *)
MatchesByName(d, svc) ==
  {i \in DOMAIN d : d[i].key = svc.key /\ d[i].name = svc.name}

Matches(d, svc) == {i \in DOMAIN d : d[i].key = svc.key}

(* Fault: the name just given is not remembered for the next service.      *)
AddRecordForgetful(m, svc) ==
  [m EXCEPT !.doc = Append(@, NewRecord(UniqueName(svc.name.base, m.taken), svc))]

AddRecord(m, svc) ==
  LET name == UniqueName(svc.name.base, m.taken)
  IN  [m EXCEPT !.doc = Append(@, NewRecord(name, svc)),
                !.taken = @ \cup {name}]

(* Fault: the old placeholder is dropped instead of kept as an alias.      *)
RenameAndDrop(m, svc, i) ==
  LET name == UniqueName(svc.name.base, m.taken)
  IN  [m EXCEPT !.doc[i].name = name,
                !.taken = @ \cup {name, m.doc[i].name}]

Rename(m, svc, i) ==
  LET name == UniqueName(svc.name.base, m.taken)
      old  == m.doc[i]
  IN  [m EXCEPT !.doc[i] = [old EXCEPT !.name = name,
                                       !.aliases = old.aliases \cup {old.name}],
                !.taken = @ \cup {name, old.name}]

(* The alias goes on the record but not into taken (scan.rs 157).          *)
AddAlias(m, svc, i) ==
  [m EXCEPT !.doc[i].aliases = @ \cup {svc.name},
            !.aliased = @ \cup {svc.key}]

MergeOne(m, svc, add) ==
  LET found == Matches(m.doc, svc)
      first == CHOOSE i \in found : \A j \in found : i <= j
      rec   == m.doc[first]
  IN  CASE IsPlaceholder(svc.name) -> m
        [] ~IsPlaceholder(svc.name) /\ found = {} ->
             IF add THEN AddRecord(m, svc) ELSE m
        [] ~IsPlaceholder(svc.name) /\ found # {} ->
             IF IsPlaceholder(rec.name) THEN Rename(m, svc, first)
             ELSE IF Answers(rec, svc.name) THEN m
             ELSE AddAlias(m, svc, first)

(* What the loop has made of d after each service of the list.             *)
Stages(d, list, add) ==
  LET m[i \in 0 .. Len(list)] ==
        IF i = 0 THEN [doc |-> d, taken |-> Taken(d), aliased |-> {}]
        ELSE MergeOne(m[i - 1], list[i], add)
  IN  m

Merge(d, list, add) == Stages(d, list, add)[Len(list)]

=============================================================================
