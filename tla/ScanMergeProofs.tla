---------------------------- MODULE ScanMergeProofs ----------------------------
(***************************************************************************)
(* The merge for any services, names and lists, over any number of scans.  *)
(***************************************************************************)
EXTENDS ScanMerge, ChannelDocProofs

-----------------------------------------------------------------------------
(* Names.                                                                  *)

LEMMA PairsFinite ==
    ASSUME NEW B, NEW N, IsFiniteSet(B), IsFiniteSet(N)
    PROVE  IsFiniteSet([base : B, n : N])
<1> DEFINE f == [p \in B \X N |-> [base |-> p[1], n |-> p[2]]]
<1>1. IsFiniteSet(B \X N)
  BY FS_Product
<1>2. f \in Surjection(B \X N, [base : B, n : N])
  <2>1. f \in [B \X N -> [base : B, n : N]]
    OBVIOUS
  <2>2. ASSUME NEW r \in [base : B, n : N]
        PROVE  \E p \in B \X N : f[p] = r
    <3>1. <<r.base, r.n>> \in B \X N /\ f[<<r.base, r.n>>] = r
      OBVIOUS
    <3> QED BY <3>1
  <2> QED BY <2>1, <2>2 DEF Surjection
<1> QED BY <1>1, <1>2, FS_Surjection

LEMMA KeysCounted == Cardinality(Keys) \in Nat
BY MergeAssumption, FS_CardinalityType DEF MergeAssumption

LEMMA NamesFinite == IsFiniteSet(Names)
<1>1. IsFiniteSet([base : Keys, n : {0}])
  BY PairsFinite, FS_Singleton, MergeAssumption DEF MergeAssumption
<1>2. IsFiniteSet(1 .. (Cardinality(Keys) + 2))
  BY FS_Interval, KeysCounted
<1>3. IsFiniteSet(Titles \cup Curated)
  BY FS_Union, MergeAssumption DEF MergeAssumption
<1>4. IsFiniteSet([base : Titles \cup Curated, n : 1 .. (Cardinality(Keys) + 2)])
  BY <1>2, <1>3, PairsFinite
<1> QED BY <1>1, <1>4, FS_Union DEF Names

LEMMA TakenFinite ==
    ASSUME NEW taken \in SUBSET Names
    PROVE  IsFiniteSet(taken) /\ Cardinality(taken) \in Nat
BY NamesFinite, FS_Subset, FS_CardinalityType

-----------------------------------------------------------------------------
(* One service.                                                            *)

LEMMA NamedService ==
    ASSUME NEW svc \in Services, ~IsPlaceholder(svc.name)
    PROVE  /\ svc.key \in Keys /\ svc.name \in Names
           /\ svc.name.base \in Titles /\ svc.name = Title(svc.name.base)
<1>1. PICK k \in Keys, t \in Titles : svc = [key |-> k, name |-> Title(t)]
  BY DEF Services, IsPlaceholder, Placeholder
<1>2. 1 \in 1 .. (Cardinality(Keys) + 2)
  BY KeysCounted
<1>3. Title(t) \in Names
  BY <1>2 DEF Title, Names
<1> QED BY <1>1, <1>3 DEF Title

LEMMA MergeOnly ==
    ASSUME NEW m \in States(Names), NEW svc, NEW add, ~IsPlaceholder(svc.name),
           OneEach(m.doc), NEW i \in Matches(m.doc, svc)
    PROVE  MergeOne(m, svc, add) =
             IF IsPlaceholder(m.doc[i].name) THEN Rename(m, svc, i)
             ELSE IF Answers(m.doc[i], svc.name) THEN m
             ELSE AddAlias(m, svc, i)
<1> DEFINE found == Matches(m.doc, svc)
<1>1. found = {i} /\ i \in Nat
  BY DEF Matches, OneEach, States
<1>2. (CHOOSE j \in found : \A k \in found : j <= k) = i
  BY <1>1
<1>3. found # {}
  BY <1>1
<1> HIDE DEF found
<1>4. MergeOne(m, svc, add) =
        LET first == CHOOSE j \in found : \A k \in found : j <= k
            rec   == m.doc[first]
        IN  IF IsPlaceholder(rec.name) THEN Rename(m, svc, first)
            ELSE IF Answers(rec, svc.name) THEN m
            ELSE AddAlias(m, svc, first)
  BY <1>3, Zenon DEF MergeOne, found
<1> QED BY <1>2, <1>4, Zenon

-----------------------------------------------------------------------------
(* What a merge keeps.                                                     *)

Distinct(d) == \A i, j \in DOMAIN d : d[i].name = d[j].name => i = j
PlainAliases(d) == \A i \in DOMAIN d : \A s \in d[i].aliases : s.n < 2
GoodDoc(d) == d \in Seq(Records(Names)) /\ OneEach(d) /\ Distinct(d) /\ PlainAliases(d)

(* A suffixed name in `taken' is the name of a record, and no alias.  So   *)
(* the suffixes of a title are at most as many as the services.            *)
GoodMerge(m) ==
  /\ m \in States(Names)
  /\ GoodDoc(m.doc)
  /\ \A i \in DOMAIN m.doc : m.doc[i].name \in m.taken
  /\ \A s \in m.taken : s.n >= 2 => \E i \in DOMAIN m.doc : m.doc[i].name = s

LEMMA GivenNameFits ==
    ASSUME NEW m, GoodMerge(m), NEW t \in Titles
    PROVE  LET name == UniqueName(t, m.taken)
           IN  name \in Names /\ name \notin m.taken /\ ~IsPlaceholder(name)
<1>1. PICK k \in Nat \ {0} : /\ UniqueName(t, m.taken) = [base |-> t, n |-> k]
                             /\ [base |-> t, n |-> k] \notin m.taken
                             /\ \A j \in 1 .. k - 1 : [base |-> t, n |-> j] \in m.taken
  <2>1. m.taken \in SUBSET Names
    BY DEF GoodMerge, States
  <2> QED BY <2>1, FirstFree, TakenFinite
<1> DEFINE c == Cardinality(Keys)
<1>2. c \in Nat
  BY KeysCounted
<1>3. m.doc \in Seq(Records(Names))
  BY DEF GoodMerge, States
<1>4. k <= c + 2
  <2> SUFFICES ASSUME k > c + 2 PROVE FALSE
    BY <1>2
  <2> DEFINE at(j) == CHOOSE i \in DOMAIN m.doc : m.doc[i].name = [base |-> t, n |-> j]
             f == [j \in 2 .. c + 2 |-> m.doc[at(j)].key]
  <2>1. \A j \in 2 .. c + 2 :
           at(j) \in DOMAIN m.doc /\ m.doc[at(j)].name = [base |-> t, n |-> j]
    <3> SUFFICES ASSUME NEW j \in 2 .. c + 2
                 PROVE  \E i \in DOMAIN m.doc : m.doc[i].name = [base |-> t, n |-> j]
      OBVIOUS
    <3>1. j \in 1 .. k - 1
      BY <1>2
    <3>2. [base |-> t, n |-> j] \in m.taken
      BY <3>1, <1>1
    <3> QED BY <3>2 DEF GoodMerge
  <2> HIDE DEF at
  <2>2. f \in [2 .. c + 2 -> Keys]
    <3>1. \A i \in DOMAIN m.doc : m.doc[i].key \in Keys
      <4>1. \A i \in DOMAIN m.doc : m.doc[i] \in Records(Names)
        BY <1>3
      <4> QED BY <4>1 DEF Records
    <3> QED BY <2>1, <3>1
  <2>3. \A i, j \in 2 .. c + 2 : f[i] = f[j] => i = j
    <3> SUFFICES ASSUME NEW i \in 2 .. c + 2, NEW j \in 2 .. c + 2, f[i] = f[j]
                 PROVE  i = j
      OBVIOUS
    <3>1. at(i) = at(j)
      <4>1. m.doc[at(i)].key = m.doc[at(j)].key
        OBVIOUS
      <4> QED BY <2>1, <4>1 DEF GoodMerge, GoodDoc, OneEach
    <3>2. [base |-> t, n |-> i] = [base |-> t, n |-> j]
      BY <2>1, <3>1
    <3>3. [base |-> t, n |-> i].n = [base |-> t, n |-> j].n
      BY <3>2
    <3> QED BY <3>3
  <2>4. f \in Injection(2 .. c + 2, Keys)
    BY <2>2, <2>3 DEF Injection, IsInjective
  <2>5. Cardinality(2 .. c + 2) <= c
    <3> HIDE DEF f
    <3> QED BY <2>4, FS_Injection, MergeAssumption DEF MergeAssumption
  <2>6. Cardinality(2 .. c + 2) = c + 1
    BY <1>2, FS_Interval
  <2> QED BY <1>2, <2>5, <2>6
<1>5. [base |-> t, n |-> k] \in Names
  BY <1>2, <1>4 DEF Names
<1> QED BY <1>1, <1>5 DEF IsPlaceholder

(* A name just given answered to nothing before.                           *)
Fresh(m, name) == name \in Names /\ name \notin m.taken /\ ~IsPlaceholder(name)

LEMMA Effects ==
    ASSUME NEW m, GoodMerge(m), NEW svc \in Services, NEW add,
           MergeOne(m, svc, add) # m
    PROVE  LET r == MergeOne(m, svc, add)
           IN  /\ svc.name.n = 1 /\ svc.name \in Names /\ svc.key \in Keys
               /\ \/ /\ add /\ \A i \in DOMAIN m.doc : m.doc[i].key # svc.key
                     /\ \E name : Fresh(m, name) /\ Adds(Names, m, r, svc, name)
                  \/ \E i \in DOMAIN m.doc :
                       /\ m.doc[i].key = svc.key
                       /\ \/ /\ IsPlaceholder(m.doc[i].name)
                             /\ \E name : Fresh(m, name) /\ Renames(Names, m, r, name, i)
                          \/ /\ ~IsPlaceholder(m.doc[i].name)
                             /\ GivesAlias(Names, m, r, svc, i)
<1> DEFINE r == MergeOne(m, svc, add)
           name == UniqueName(svc.name.base, m.taken)
<1>1. ~IsPlaceholder(svc.name)
  BY MergeUnnamed
<1>2. /\ svc.key \in Keys /\ svc.name \in Names /\ svc.name.base \in Titles
      /\ svc.name.n = 1
  <2>1. svc.name = Title(svc.name.base)
    BY <1>1, NamedService
  <2> QED BY <1>1, <2>1, NamedService DEF Title
<1>3. Fresh(m, name)
  BY <1>2, GivenNameFits DEF Fresh
<1>4. name \in Names
  BY <1>3 DEF Fresh
<1>5. m \in States(Names) /\ OneEach(m.doc) /\ DOMAIN m.doc = 1 .. Len(m.doc)
  BY DEF GoodMerge, GoodDoc, States
<1> HIDE DEF name
<1>6. CASE Matches(m.doc, svc) = {}
  <2>1. r = AddRecord(m, svc) /\ add
    BY <1>1, <1>6, MergeNew
  <2>2. Adds(Names, m, AddRecord(m, svc), svc, name)
    BY <1>2, <1>4, <1>5, Added DEF name
  <2>3. \A i \in DOMAIN m.doc : m.doc[i].key # svc.key
    BY <1>6 DEF Matches
  <2> QED BY <1>1, <1>2, <1>3, <2>1, <2>2, <2>3
<1>7. CASE Matches(m.doc, svc) # {}
  <2>1. PICK i \in Matches(m.doc, svc) : TRUE
    BY <1>7
  <2>2. i \in DOMAIN m.doc /\ m.doc[i].key = svc.key /\ i \in 1 .. Len(m.doc)
    BY <1>5 DEF Matches
  <2>3. r = IF IsPlaceholder(m.doc[i].name) THEN Rename(m, svc, i)
            ELSE IF Answers(m.doc[i], svc.name) THEN m
            ELSE AddAlias(m, svc, i)
    BY <1>1, <1>5, MergeOnly
  <2>4. CASE IsPlaceholder(m.doc[i].name)
    <3>1. Renames(Names, m, Rename(m, svc, i), name, i)
      BY <1>4, <1>5, <2>2, Renamed DEF name
    <3> QED BY <1>1, <1>2, <1>3, <2>2, <2>3, <2>4, <3>1
  <2>5. CASE ~IsPlaceholder(m.doc[i].name)
    <3>1. r = AddAlias(m, svc, i)
      BY <2>3, <2>5
    <3>2. GivesAlias(Names, m, AddAlias(m, svc, i), svc, i)
      BY <1>2, <1>5, <2>2, Aliased
    <3> QED BY <1>1, <1>2, <2>2, <2>5, <3>1, <3>2
  <2> QED BY <2>4, <2>5
<1> QED BY <1>6, <1>7

LEMMA MergeOneKeeps ==
    ASSUME NEW m, GoodMerge(m), NEW svc \in Services, NEW add
    PROVE  GoodMerge(MergeOne(m, svc, add))
<1> DEFINE r == MergeOne(m, svc, add)
<1>1. CASE r = m
  BY <1>1
<1>2. CASE r # m
  <2> HIDE DEF r
  <2>1. /\ m \in States(Names) /\ OneEach(m.doc) /\ Distinct(m.doc) /\ PlainAliases(m.doc)
        /\ DOMAIN m.doc = 1 .. Len(m.doc) /\ Len(m.doc) \in Nat
        /\ \A i \in DOMAIN m.doc : m.doc[i].name \in m.taken
        /\ \A s \in m.taken : s.n >= 2 => \E i \in DOMAIN m.doc : m.doc[i].name = s
    BY DEF GoodMerge, GoodDoc, States
  <2>2. ASSUME NEW name, Fresh(m, name), Adds(Names, m, r, svc, name),
               \A i \in DOMAIN m.doc : m.doc[i].key # svc.key
        PROVE  GoodMerge(r)
    <3> DEFINE l == Len(m.doc) + 1
    <3>1. /\ r \in States(Names) /\ DOMAIN r.doc = 1 .. l /\ r.taken = m.taken \cup {name}
          /\ \A i \in 1 .. Len(m.doc) : r.doc[i] = m.doc[i]
          /\ r.doc[l].key = svc.key /\ r.doc[l].name = name /\ r.doc[l].aliases = {}
      BY <2>1, <2>2 DEF Adds, States
    <3>2. 1 .. l = (1 .. Len(m.doc)) \cup {l}
      BY <2>1
    <3>3. name \notin m.taken
      BY <2>2 DEF Fresh
    <3> HIDE DEF l
    <3>4. OneEach(r.doc)
      BY <2>1, <2>2, <3>1, <3>2 DEF OneEach
    <3>5. Distinct(r.doc)
      BY <2>1, <3>1, <3>2, <3>3 DEF Distinct
    <3>6. \A i \in DOMAIN r.doc : r.doc[i].name \in r.taken
      BY <2>1, <3>1, <3>2
    <3>7. \A s \in r.taken : s.n >= 2 => \E i \in DOMAIN r.doc : r.doc[i].name = s
      BY <2>1, <3>1, <3>2
    <3>8. PlainAliases(r.doc)
      BY <2>1, <3>1, <3>2 DEF PlainAliases
    <3> QED BY <3>1, <3>4, <3>5, <3>6, <3>7, <3>8 DEF GoodMerge, GoodDoc, States
  <2>3. ASSUME NEW name, NEW i \in DOMAIN m.doc, Fresh(m, name), Renames(Names, m, r, name, i),
               IsPlaceholder(m.doc[i].name)
        PROVE  GoodMerge(r)
    <3>1. /\ r \in States(Names) /\ DOMAIN r.doc = DOMAIN m.doc
          /\ r.taken = m.taken \cup {name, m.doc[i].name}
          /\ \A j \in DOMAIN m.doc : j # i => r.doc[j] = m.doc[j]
          /\ r.doc[i].key = m.doc[i].key /\ r.doc[i].name = name
          /\ r.doc[i].aliases = m.doc[i].aliases \cup {m.doc[i].name}
      BY <2>1, <2>3 DEF Renames, States
    <3>2. name \notin m.taken
      BY <2>3 DEF Fresh
    <3>3. OneEach(r.doc)
      <4>1. \A j \in DOMAIN m.doc : r.doc[j].key = m.doc[j].key
        BY <3>1
      <4> QED BY <2>1, <3>1, <4>1 DEF OneEach
    <3>4. Distinct(r.doc)
      BY <2>1, <3>1, <3>2 DEF Distinct
    <3>5. \A j \in DOMAIN r.doc : r.doc[j].name \in r.taken
      BY <2>1, <3>1
    <3>6. \A s \in r.taken : s.n >= 2 => \E j \in DOMAIN r.doc : r.doc[j].name = s
      <4>1. m.doc[i].name.n = 0
        BY <2>3 DEF IsPlaceholder
      <4>2. ASSUME NEW s \in m.taken, s.n >= 2
            PROVE  \E j \in DOMAIN r.doc : r.doc[j].name = s
        <5>1. PICK j \in DOMAIN m.doc : m.doc[j].name = s
          BY <2>1, <4>2
        <5>2. j # i
          BY <4>1, <4>2, <5>1
        <5> QED BY <3>1, <5>1, <5>2
      <4> QED BY <3>1, <4>1, <4>2
    <3>7. PlainAliases(r.doc)
      BY <2>1, <2>3, <3>1 DEF PlainAliases, IsPlaceholder
    <3> QED BY <3>1, <3>3, <3>4, <3>5, <3>6, <3>7 DEF GoodMerge, GoodDoc, States
  <2>4. ASSUME NEW i \in DOMAIN m.doc, GivesAlias(Names, m, r, svc, i), svc.name.n = 1
        PROVE  GoodMerge(r)
    <3>1. /\ r \in States(Names) /\ DOMAIN r.doc = DOMAIN m.doc /\ r.taken = m.taken
          /\ \A j \in DOMAIN m.doc : /\ r.doc[j].key = m.doc[j].key
                                     /\ r.doc[j].name = m.doc[j].name
      BY <2>1, <2>4 DEF GivesAlias, States
    <3>2. \A j \in DOMAIN m.doc : r.doc[j].aliases \subseteq m.doc[j].aliases \cup {svc.name}
      BY <2>1, <2>4 DEF GivesAlias
    <3>3. PlainAliases(r.doc)
      BY <2>1, <2>4, <3>1, <3>2 DEF PlainAliases
    <3>4. OneEach(r.doc) /\ Distinct(r.doc)
      BY <2>1, <3>1 DEF OneEach, Distinct
    <3> QED BY <2>1, <3>1, <3>3, <3>4 DEF GoodMerge, GoodDoc, States
  <2> QED BY <1>2, <2>2, <2>3, <2>4, Effects DEF r
<1> QED BY <1>1, <1>2

(* Every string that selects a record is in `taken'.                       *)
Covered(m) == \A i \in DOMAIN m.doc : {m.doc[i].name} \cup m.doc[i].aliases \subseteq m.taken

(* What one service's merge does to the lookups: it loses none, and the    *)
(* ones it gives are new, or the service's own name as an alias.           *)
Follows(m, r, svc) ==
  /\ DOMAIN m.doc \subseteq DOMAIN r.doc
  /\ m.taken \subseteq r.taken /\ m.aliased \subseteq r.aliased
  /\ \A i \in DOMAIN m.doc :
       /\ r.doc[i].key = m.doc[i].key
       /\ {m.doc[i].name} \cup m.doc[i].aliases \subseteq {r.doc[i].name} \cup r.doc[i].aliases
       /\ ~IsPlaceholder(m.doc[i].name) => r.doc[i].name = m.doc[i].name
  /\ \A i \in DOMAIN r.doc :
       /\ r.doc[i].name \in m.taken => i \in DOMAIN m.doc /\ r.doc[i].name = m.doc[i].name
       /\ \A s \in m.taken : Answers(r.doc[i], s) =>
            /\ i \in DOMAIN m.doc
            /\ Answers(m.doc[i], s) \/ (s = svc.name /\ r.aliased # {})

(* With no alias given, a string new in `taken' selects one record.        *)
NewNamesSelectOne(m, r) ==
  r.aliased = {} /\ Covered(m) =>
    /\ Covered(r)
    /\ \A i, j \in DOMAIN r.doc : \A s :
         s \notin m.taken /\ Answers(r.doc[i], s) /\ Answers(r.doc[j], s) => i = j

LEMMA MergeOneFollows ==
    ASSUME NEW m, GoodMerge(m), NEW svc \in Services, NEW add
    PROVE  LET r == MergeOne(m, svc, add)
           IN  Follows(m, r, svc) /\ NewNamesSelectOne(m, r)
<1> DEFINE r == MergeOne(m, svc, add)
<1>1. /\ m \in States(Names) /\ DOMAIN m.doc = 1 .. Len(m.doc) /\ Len(m.doc) \in Nat
      /\ \A i \in DOMAIN m.doc : m.doc[i].name \in m.taken
  BY DEF GoodMerge, GoodDoc, States
<1>2. CASE r = m
  <2>1. Follows(m, m, svc)
    BY DEF Follows
  <2>2. NewNamesSelectOne(m, m)
    BY DEF NewNamesSelectOne, Covered, Answers
  <2> QED BY <1>2, <2>1, <2>2
<1>3. CASE r # m
  <2> HIDE DEF r
  <2>1. ASSUME NEW name, Fresh(m, name), Adds(Names, m, r, svc, name)
        PROVE  Follows(m, r, svc) /\ NewNamesSelectOne(m, r)
    <3> DEFINE l == Len(m.doc) + 1
    <3>1. /\ DOMAIN r.doc = 1 .. l /\ r.taken = m.taken \cup {name}
          /\ r.aliased = m.aliased
          /\ \A i \in 1 .. Len(m.doc) : r.doc[i] = m.doc[i]
          /\ r.doc[l].key = svc.key /\ r.doc[l].name = name /\ r.doc[l].aliases = {}
      BY <1>1, <2>1 DEF Adds, States
    <3>2. 1 .. l = (1 .. Len(m.doc)) \cup {l}
      BY <1>1
    <3>3. name \notin m.taken
      BY <2>1 DEF Fresh
    <3> HIDE DEF l
    <3>4. Follows(m, r, svc)
      BY <1>1, <3>1, <3>2, <3>3 DEF Follows, Answers
    <3>5. NewNamesSelectOne(m, r)
      BY <1>1, <3>1, <3>2, <3>3 DEF NewNamesSelectOne, Covered, Answers
    <3> QED BY <3>4, <3>5
  <2>2. ASSUME NEW name, NEW i \in DOMAIN m.doc, Fresh(m, name), Renames(Names, m, r, name, i),
               IsPlaceholder(m.doc[i].name)
        PROVE  Follows(m, r, svc) /\ NewNamesSelectOne(m, r)
    <3>1. /\ DOMAIN r.doc = DOMAIN m.doc
          /\ r.taken = m.taken \cup {name, m.doc[i].name} /\ r.aliased = m.aliased
          /\ \A j \in DOMAIN m.doc : j # i => r.doc[j] = m.doc[j]
          /\ r.doc[i].key = m.doc[i].key /\ r.doc[i].name = name
          /\ r.doc[i].aliases = m.doc[i].aliases \cup {m.doc[i].name}
      BY <1>1, <2>2 DEF Renames, States
    <3>2. name \notin m.taken
      BY <2>2 DEF Fresh
    <3>3. Follows(m, r, svc)
      BY <1>1, <2>2, <3>1, <3>2 DEF Follows, Answers
    <3>4. NewNamesSelectOne(m, r)
      BY <1>1, <3>1, <3>2 DEF NewNamesSelectOne, Covered, Answers
    <3> QED BY <3>3, <3>4
  <2>3. ASSUME NEW i \in DOMAIN m.doc, GivesAlias(Names, m, r, svc, i)
        PROVE  Follows(m, r, svc) /\ NewNamesSelectOne(m, r)
    <3>1. /\ DOMAIN r.doc = DOMAIN m.doc /\ r.taken = m.taken
          /\ r.aliased = m.aliased \cup {svc.key}
          /\ \A j \in DOMAIN m.doc : j # i => r.doc[j] = m.doc[j]
          /\ r.doc[i].key = m.doc[i].key /\ r.doc[i].name = m.doc[i].name
          /\ r.doc[i].aliases = m.doc[i].aliases \cup {svc.name}
      BY <1>1, <2>3 DEF GivesAlias, States
    <3>2. Follows(m, r, svc)
      BY <1>1, <3>1 DEF Follows, Answers
    <3>3. NewNamesSelectOne(m, r)
      BY <3>1 DEF NewNamesSelectOne
    <3> QED BY <3>2, <3>3
  <2> QED BY <1>3, <2>1, <2>2, <2>3, Effects DEF r
<1> QED BY <1>2, <1>3

(* A well-formed document enters the loop well, so every stage is good.    *)
LEMMA StartGood ==
    ASSUME NEW d, GoodDoc(d)
    PROVE  GoodMerge([doc |-> d, taken |-> Taken(d), aliased |-> {}])
<1>1. d \in Seq(Records(Names))
  BY DEF GoodDoc
<1>2. Taken(d) \in SUBSET Names
  <2>1. \A i \in DOMAIN d : d[i] \in Records(Names)
    BY <1>1
  <2>2. \A i \in DOMAIN d : {d[i].name} \cup d[i].aliases \subseteq Names
    BY <2>1 DEF Records
  <2> QED BY <2>2 DEF Taken
<1>3. \A i \in DOMAIN d : d[i].name \in Taken(d)
  BY DEF Taken
<1>4. \A s \in Taken(d) : s.n >= 2 => \E i \in DOMAIN d : d[i].name = s
  <2> SUFFICES ASSUME NEW i \in DOMAIN d, NEW s \in d[i].aliases, s.n >= 2
               PROVE  FALSE
    BY DEF Taken
  <2>1. s.n < 2
    BY DEF GoodDoc, PlainAliases
  <2>2. s.n \in Nat
    <3>1. d[i] \in Records(Names)
      BY <1>1
    <3>2. s \in Names
      BY <3>1 DEF Records
    <3> QED BY <3>2, KeysCounted DEF Names
  <2> QED BY <2>1, <2>2
<1> QED BY <1>1, <1>2, <1>3, <1>4 DEF GoodMerge, GoodDoc, States

LEMMA MergeKeeps ==
    ASSUME NEW d, GoodDoc(d), NEW list \in Seq(Services), NEW add
    PROVE  GoodMerge(Merge(d, list, add))
<1> DEFINE good == {m \in States(Names) : GoodMerge(m)}
           inv == [i \in 0 .. Len(list) |-> good]
<1>1. [doc |-> d, taken |-> Taken(d), aliased |-> {}] \in inv[0]
  BY StartGood DEF GoodMerge
<1>2. \A i \in 1 .. Len(list) : \A m \in inv[i - 1] : MergeOne(m, list[i], add) \in inv[i]
  <2> SUFFICES ASSUME NEW i \in 1 .. Len(list), NEW m \in inv[i - 1]
               PROVE  MergeOne(m, list[i], add) \in inv[i]
    OBVIOUS
  <2>1. list[i] \in Services /\ GoodMerge(m)
    OBVIOUS
  <2>2. GoodMerge(MergeOne(m, list[i], add))
    BY <2>1, MergeOneKeeps
  <2> QED BY <2>2 DEF GoodMerge
<1>3. Merge(d, list, add) \in inv[Len(list)]
  <2> HIDE DEF inv
  <2> QED BY <1>1, <1>2, MergeLoop
<1> QED BY <1>3

-----------------------------------------------------------------------------
(* The document over any number of scans.                                  *)

LEMMA BoundedTyped ==
    ASSUME NEW S, NEW n \in Nat
    PROVE  BoundedSeq(S, n) \subseteq Seq(S) /\ <<>> \in BoundedSeq(S, n)
<1>1. \A l \in 0 .. n : [1 .. l -> S] \subseteq Seq(S)
  OBVIOUS
<1>2. 0 \in 0 .. n /\ <<>> \in [1 .. 0 -> S]
  OBVIOUS
<1> QED BY <1>1, <1>2 DEF BoundedSeq, SeqOf

LEMMA ScansTyped == \A s \in Scans : s \in Seq(Services)
BY BoundedTyped, MergeAssumption DEF Scans, MergeAssumption

LEMMA InitGood ==
    ASSUME Init
    PROVE  TypeOK /\ GoodDoc(doc)
<1>1. doc \in Seq(StartRecords) /\ OneEach(doc) /\ Selectable(doc)
  BY BoundedTyped, MergeAssumption DEF Init, MergeAssumption
<1>2. StartRecords \subseteq Records(Names)
  <2>1. PlainNames \subseteq Names
    BY KeysCounted DEF PlainNames, Title, Names
  <2>2. \A k \in Keys : Placeholder(k) \in Names
    BY DEF Placeholder, Names
  <2> QED BY <2>1, <2>2 DEF StartRecords, Records
<1>3. doc \in Seq(Records(Names))
  BY <1>1, <1>2
<1>4. Distinct(doc)
  <2> SUFFICES ASSUME NEW i \in DOMAIN doc, NEW j \in DOMAIN doc, doc[i].name = doc[j].name
               PROVE  i = j
    BY DEF Distinct
  <2>1. i <= j /\ j <= i /\ i \in Nat /\ j \in Nat
    BY <1>1 DEF Selectable, IsFirst, Answering, Answers
  <2> QED BY <2>1
<1>5. PlainAliases(doc)
  <2>1. \A r \in StartRecords : \A s \in r.aliases : s.n = 1
    BY DEF StartRecords, PlainNames, Title
  <2>2. \A i \in DOMAIN doc : doc[i] \in StartRecords
    BY <1>1
  <2> QED BY <2>1, <2>2 DEF PlainAliases
<1>6. scanned \in Scans /\ aliased \subseteq Keys
  <2>1. <<>> \in Scans
    BY BoundedTyped, MergeAssumption DEF Scans, OneEach, MergeAssumption
  <2> QED BY <2>1 DEF Init
<1> QED BY <1>1, <1>3, <1>4, <1>5, <1>6 DEF TypeOK, GoodDoc

LEMMA NextGood ==
    ASSUME TypeOK, GoodDoc(doc), [Next]_vars
    PROVE  TypeOK' /\ GoodDoc(doc')
<1>1. CASE UNCHANGED vars
  BY <1>1 DEF vars, TypeOK, GoodDoc
<1>2. ASSUME NEW list \in Scans, NEW add \in BOOLEAN, Scan(list, add)
      PROVE  TypeOK' /\ GoodDoc(doc')
  <2>1. GoodMerge(Merge(doc, list, add))
    BY ScansTyped, MergeKeeps
  <2>2. doc' = Merge(doc, list, add).doc /\ aliased' = Merge(doc, list, add).aliased
        /\ scanned' = list
    BY <1>2 DEF Scan
  <2>3. GoodDoc(doc') /\ aliased' \subseteq Keys
    BY <2>1, <2>2 DEF GoodMerge, States
  <2> QED BY <2>2, <2>3 DEF TypeOK, GoodDoc
<1> QED BY <1>1, <1>2 DEF Next

LEMMA DocumentGood == Spec => [](TypeOK /\ GoodDoc(doc))
<1>1. Init => TypeOK /\ GoodDoc(doc)
  BY InitGood
<1>2. (TypeOK /\ GoodDoc(doc)) /\ [Next]_vars => (TypeOK /\ GoodDoc(doc))'
  <2> SUFFICES ASSUME TypeOK, GoodDoc(doc), [Next]_vars
               PROVE  TypeOK' /\ GoodDoc(doc)'
    OBVIOUS
  <2>1. TypeOK' /\ GoodDoc(doc')
    BY NextGood
  <2> QED BY <2>1
<1> QED BY <1>1, <1>2, PTL DEF Spec

(* After any number of scans the document has one record per service, and  *)
(* the suffixes stay within the number of services.                        *)
THEOREM DocumentTyped == Spec => []TypeOK
BY DocumentGood, PTL

(* No two records ever share a name, however many services of a            *)
(* broadcaster send the same one, in one scan or over several.             *)
THEOREM NamesStayDistinct == Spec => []NamesDistinct
<1>1. TypeOK /\ GoodDoc(doc) => NamesDistinct
  BY DEF GoodDoc, Distinct, NamesDistinct
<1> QED BY <1>1, DocumentGood, PTL

-----------------------------------------------------------------------------
(* Lookups across a merge.                                                 *)

ListNames(list) == {list[i].name : i \in DOMAIN list}

(* The records of d keep their places and services, and a string of d that *)
(* is no name of the list selects among them alone, and as before.         *)
Keeping(d, list, m) ==
  /\ Taken(d) \subseteq m.taken
  /\ DOMAIN d \subseteq DOMAIN m.doc
  /\ \A i \in DOMAIN d : m.doc[i].key = d[i].key
  /\ \A s \in Taken(d) \ ListNames(list) : Answering(m.doc, s) = Answering(d, s)

LEMMA MergeKeepsAnswers ==
    ASSUME NEW d, GoodDoc(d), NEW list \in Seq(Services), NEW add
    PROVE  Keeping(d, list, Merge(d, list, add))
<1> DEFINE kept == {m \in States(Names) : GoodMerge(m) /\ Keeping(d, list, m)}
           inv == [i \in 0 .. Len(list) |-> kept]
           e == [doc |-> d, taken |-> Taken(d), aliased |-> {}]
<1>1. e \in inv[0]
  <2>1. Keeping(d, list, e)
    BY DEF Keeping
  <2>2. GoodMerge(e)
    BY StartGood
  <2> HIDE DEF e
  <2> QED BY <2>1, <2>2 DEF GoodMerge
<1>2. \A i \in 1 .. Len(list) : \A m \in inv[i - 1] : MergeOne(m, list[i], add) \in inv[i]
  <2> SUFFICES ASSUME NEW i \in 1 .. Len(list), NEW m \in inv[i - 1]
               PROVE  MergeOne(m, list[i], add) \in inv[i]
    OBVIOUS
  <2> DEFINE svc == list[i]
             r == MergeOne(m, svc, add)
  <2>1. svc \in Services /\ GoodMerge(m) /\ Keeping(d, list, m) /\ i \in DOMAIN list
    OBVIOUS
  <2>2. GoodMerge(r) /\ Follows(m, r, svc)
    BY <2>1, MergeOneKeeps, MergeOneFollows
  <2>3. svc.name \in ListNames(list)
    BY <2>1 DEF ListNames
  <2> HIDE DEF r, svc
  <2>4. \A s \in Taken(d) \ ListNames(list) : Answering(r.doc, s) = Answering(d, s)
    <3> SUFFICES ASSUME NEW s \in Taken(d) \ ListNames(list)
                 PROVE  Answering(r.doc, s) = Answering(m.doc, s)
      BY <2>1 DEF Keeping
    <3>1. s \in m.taken /\ s # svc.name
      BY <2>1, <2>3 DEF Keeping
    <3>2. \A j \in DOMAIN r.doc : Answers(r.doc[j], s) => j \in DOMAIN m.doc /\ Answers(m.doc[j], s)
      BY <2>2, <3>1 DEF Follows
    <3>3. \A j \in DOMAIN m.doc : Answers(m.doc[j], s) => j \in DOMAIN r.doc /\ Answers(r.doc[j], s)
      BY <2>2 DEF Follows, Answers
    <3> QED BY <3>2, <3>3 DEF Answering
  <2>5. Keeping(d, list, r)
    BY <2>1, <2>2, <2>4 DEF Keeping, Follows
  <2> QED BY <2>2, <2>5 DEF GoodMerge, r, svc
<1>3. Merge(d, list, add) \in inv[Len(list)]
  <2> HIDE DEF inv
  <2> QED BY <1>1, <1>2, MergeLoop
<1> QED BY <1>3

(* A string that found a service before a scan finds the same service      *)
(* after it, unless the scan itself brought the string as a name: what the *)
(* config files refer to is never lost or moved.                           *)
THEOREM AnswersAreKept == Spec => AnswersKept
<1> DEFINE Kept == \A s \in Taken(doc) \ {scanned'[i].name : i \in DOMAIN scanned'} :
                      Find(doc', s) = Find(doc, s)
<1>1. ASSUME TypeOK, GoodDoc(doc), Next
      PROVE  Kept
  <2>1. PICK list \in Scans, add \in BOOLEAN : Scan(list, add)
    BY <1>1 DEF Next
  <2>2. Keeping(doc, list, Merge(doc, list, add))
    BY <1>1, ScansTyped, MergeKeepsAnswers
  <2>3. doc' = Merge(doc, list, add).doc /\ scanned' = list
    BY <2>1 DEF Scan
  <2> SUFFICES ASSUME NEW s \in Taken(doc) \ ListNames(list)
               PROVE  Find(doc', s) = Find(doc, s)
    BY <2>3 DEF ListNames
  <2>4. Answering(doc', s) = Answering(doc, s)
    BY <2>2, <2>3 DEF Keeping
  <2>5. \A i \in DOMAIN doc : i \in DOMAIN doc' /\ doc'[i].key = doc[i].key
    BY <2>2, <2>3 DEF Keeping
  <2>6. \A i : IsFirst(doc', s, i) <=> IsFirst(doc, s, i)
    BY <2>4 DEF IsFirst
  <2>7. \A i : IsFirst(doc, s, i) => i \in DOMAIN doc
    BY DEF IsFirst, Answering
  <2> QED BY <2>5, <2>6, <2>7 DEF Find
<1>2. TypeOK /\ GoodDoc(doc) /\ [Next]_vars => [Kept]_vars
  BY <1>1
<1> QED BY <1>2, DocumentGood, PTL DEF Spec, AnswersKept

-----------------------------------------------------------------------------
(* Records stay selectable while no alias is given.                        *)
Selecting(m) == m.aliased = {} => Selectable(m.doc) /\ Covered(m)

LEMMA SelectingStep ==
    ASSUME NEW m, NEW r, NEW svc, GoodMerge(m), GoodMerge(r), Follows(m, r, svc),
           NewNamesSelectOne(m, r), Selecting(m)
    PROVE  Selecting(r)
<1> SUFFICES ASSUME r.aliased = {} PROVE Selectable(r.doc) /\ Covered(r)
  BY DEF Selecting
<1>1. m.aliased = {} /\ Selectable(m.doc) /\ Covered(m)
  BY DEF Selecting, Follows
<1>2. Covered(r)
  BY <1>1 DEF NewNamesSelectOne
<1>3. ASSUME NEW i \in DOMAIN r.doc, NEW j \in DOMAIN r.doc, Answers(r.doc[j], r.doc[i].name)
      PROVE  i <= j
  <2>1. DOMAIN r.doc \subseteq Nat
    BY DEF GoodMerge, GoodDoc
  <2>2. CASE r.doc[i].name \in m.taken
    <3>1. i \in DOMAIN m.doc /\ r.doc[i].name = m.doc[i].name
      BY <2>2 DEF Follows
    <3>2. j \in DOMAIN m.doc /\ Answers(m.doc[j], m.doc[i].name)
      BY <1>3, <2>2, <3>1 DEF Follows
    <3> QED BY <1>1, <3>1, <3>2 DEF Selectable, IsFirst, Answering
  <2>3. CASE r.doc[i].name \notin m.taken
    <3>1. Answers(r.doc[i], r.doc[i].name)
      BY DEF Answers
    <3>2. i = j
      BY <1>1, <1>3, <2>3, <3>1 DEF NewNamesSelectOne
    <3> QED BY <2>1, <3>2
  <2> QED BY <2>2, <2>3
<1>4. Selectable(r.doc)
  BY <1>3 DEF Selectable, IsFirst, Answering, Answers
<1> QED BY <1>2, <1>4

LEMMA MergeSelecting ==
    ASSUME NEW d, GoodDoc(d), Selectable(d), NEW list \in Seq(Services), NEW add
    PROVE  Selecting(Merge(d, list, add))
<1> DEFINE fine == {m \in States(Names) : GoodMerge(m) /\ Selecting(m)}
           inv == [i \in 0 .. Len(list) |-> fine]
           e == [doc |-> d, taken |-> Taken(d), aliased |-> {}]
<1>1. e \in inv[0]
  <2>1. Selecting(e)
    BY DEF Selecting, Covered, Taken
  <2>2. GoodMerge(e)
    BY StartGood
  <2> HIDE DEF e
  <2> QED BY <2>1, <2>2 DEF GoodMerge
<1>2. \A i \in 1 .. Len(list) : \A m \in inv[i - 1] : MergeOne(m, list[i], add) \in inv[i]
  <2> SUFFICES ASSUME NEW i \in 1 .. Len(list), NEW m \in inv[i - 1]
               PROVE  MergeOne(m, list[i], add) \in inv[i]
    OBVIOUS
  <2> DEFINE r == MergeOne(m, list[i], add)
  <2>1. list[i] \in Services /\ GoodMerge(m) /\ Selecting(m)
    OBVIOUS
  <2>2. GoodMerge(r) /\ Follows(m, r, list[i]) /\ NewNamesSelectOne(m, r)
    BY <2>1, MergeOneKeeps, MergeOneFollows
  <2> HIDE DEF r
  <2>3. Selecting(r)
    BY <2>1, <2>2, SelectingStep
  <2> QED BY <2>2, <2>3 DEF GoodMerge, r
<1>3. Merge(d, list, add) \in inv[Len(list)]
  <2> HIDE DEF inv
  <2> QED BY <1>1, <1>2, MergeLoop
<1> QED BY <1>3

(* A scan that gave no alias leaves every record selectable by its own     *)
(* name, if they all were: no name is given that an earlier record answers *)
(* to (the bug scan.rs 99-106 tells of cannot come back).                  *)
THEOREM GivenNamesStaySelectable == Spec => GivenNamesSelect
<1> DEFINE Kept == (Selectable(doc) /\ aliased' = {}) => Selectable(doc')
<1>1. ASSUME TypeOK, GoodDoc(doc), Next
      PROVE  Kept
  <2> SUFFICES ASSUME Selectable(doc), aliased' = {} PROVE Selectable(doc')
    OBVIOUS
  <2>1. PICK list \in Scans, add \in BOOLEAN : Scan(list, add)
    BY <1>1 DEF Next
  <2>2. Selecting(Merge(doc, list, add))
    BY <1>1, ScansTyped, MergeSelecting
  <2>3. doc' = Merge(doc, list, add).doc /\ aliased' = Merge(doc, list, add).aliased
    BY <2>1 DEF Scan
  <2> QED BY <2>2, <2>3 DEF Selecting
<1>2. TypeOK /\ GoodDoc(doc) /\ [Next]_vars => [Kept]_vars
  BY <1>1
<1> QED BY <1>2, DocumentGood, PTL DEF Spec, GivenNamesSelect

-----------------------------------------------------------------------------
(* Scanning again.                                                         *)

(* A merge of the service would leave the document as it is.               *)
Settled(d, svc, add) ==
  \/ IsPlaceholder(svc.name)
  \/ ~add /\ \A i \in DOMAIN d : d[i].key # svc.key
  \/ \E i \in DOMAIN d : /\ d[i].key = svc.key /\ ~IsPlaceholder(d[i].name)
                         /\ Answers(d[i], svc.name)

(* A merge of the service would give an alias at most.                     *)
Named(d, svc, add) ==
  \/ IsPlaceholder(svc.name)
  \/ ~add /\ \A i \in DOMAIN d : d[i].key # svc.key
  \/ \E i \in DOMAIN d : d[i].key = svc.key /\ ~IsPlaceholder(d[i].name)

LEMMA SettledIsIdle ==
    ASSUME NEW m, GoodMerge(m), NEW svc \in Services, NEW add, Settled(m.doc, svc, add)
    PROVE  MergeOne(m, svc, add) = m
<1>1. m \in States(Names) /\ OneEach(m.doc)
  BY DEF GoodMerge, GoodDoc
<1>2. CASE IsPlaceholder(svc.name)
  BY <1>2, MergeUnnamed
<1>3. CASE ~IsPlaceholder(svc.name) /\ ~add /\ \A i \in DOMAIN m.doc : m.doc[i].key # svc.key
  <2>1. Matches(m.doc, svc) = {}
    BY <1>3 DEF Matches
  <2> QED BY <1>3, <2>1, MergeNew
<1>4. ASSUME ~IsPlaceholder(svc.name), NEW i \in DOMAIN m.doc, m.doc[i].key = svc.key,
             ~IsPlaceholder(m.doc[i].name), Answers(m.doc[i], svc.name)
      PROVE  MergeOne(m, svc, add) = m
  <2>1. i \in Matches(m.doc, svc)
    BY <1>4 DEF Matches
  <2> QED BY <1>1, <1>4, <2>1, MergeOnly
<1> QED BY <1>2, <1>3, <1>4 DEF Settled

(* After its own merge a service is named; if it was named it is settled.  *)
LEMMA OwnMerge ==
    ASSUME NEW m, GoodMerge(m), NEW svc \in Services, NEW add \in BOOLEAN
    PROVE  LET r == MergeOne(m, svc, add)
           IN  /\ Named(r.doc, svc, add)
               /\ Named(m.doc, svc, add) => Settled(r.doc, svc, add)
<1> DEFINE r == MergeOne(m, svc, add)
<1>1. m \in States(Names) /\ OneEach(m.doc) /\ DOMAIN m.doc = 1 .. Len(m.doc) /\ Len(m.doc) \in Nat
  BY DEF GoodMerge, GoodDoc, States
<1>2. CASE r = m
  <2>1. Settled(m.doc, svc, add)
    <3> SUFFICES ASSUME ~IsPlaceholder(svc.name) PROVE Settled(m.doc, svc, add)
      BY DEF Settled
    <3>1. CASE Matches(m.doc, svc) = {}
      <4>1. \A i \in DOMAIN m.doc : m.doc[i].key # svc.key
        BY <3>1 DEF Matches
      <4>2. ~add
        <5> SUFFICES ASSUME add PROVE FALSE
          OBVIOUS
        <5>1. r = AddRecord(m, svc)
          BY <3>1, MergeNew
        <5>2. svc.key \in Keys /\ svc.name.base \in Titles
          BY NamedService
        <5>3. UniqueName(svc.name.base, m.taken) \in Names
          BY <5>2, GivenNameFits
        <5>4. Adds(Names, m, AddRecord(m, svc), svc, UniqueName(svc.name.base, m.taken))
          BY <1>1, <5>2, <5>3, Added
        <5>5. Len(r.doc) = Len(m.doc) + 1
          BY <5>1, <5>4 DEF Adds
        <5> QED BY <1>1, <1>2, <5>5
      <4> QED BY <4>1, <4>2 DEF Settled
    <3>2. CASE Matches(m.doc, svc) # {}
      <4>1. PICK i \in Matches(m.doc, svc) : TRUE
        BY <3>2
      <4>2. i \in DOMAIN m.doc /\ m.doc[i].key = svc.key /\ i \in 1 .. Len(m.doc)
        BY <1>1, <4>1 DEF Matches
      <4>3. r = IF IsPlaceholder(m.doc[i].name) THEN Rename(m, svc, i)
                ELSE IF Answers(m.doc[i], svc.name) THEN m
                ELSE AddAlias(m, svc, i)
        BY <1>1, <4>1, MergeOnly
      <4>4. ~IsPlaceholder(m.doc[i].name)
        <5> SUFFICES ASSUME IsPlaceholder(m.doc[i].name) PROVE FALSE
          OBVIOUS
        <5>1. svc.name.base \in Titles
          BY NamedService
        <5>2. LET name == UniqueName(svc.name.base, m.taken)
              IN  name \in Names /\ ~IsPlaceholder(name)
          BY <5>1, GivenNameFits
        <5>3. ~IsPlaceholder(r.doc[i].name)
          BY <1>1, <4>2, <4>3, <5>2, Renamed DEF Renames
        <5> QED BY <1>2, <5>3
      <4>5. Answers(m.doc[i], svc.name)
        <5> SUFFICES ASSUME ~Answers(m.doc[i], svc.name) PROVE FALSE
          OBVIOUS
        <5>1. svc.key \in Keys /\ svc.name \in Names
          BY NamedService
        <5>2. r.doc[i].aliases = m.doc[i].aliases \cup {svc.name}
          BY <1>1, <4>2, <4>3, <4>4, <5>1, Aliased DEF GivesAlias
        <5> QED BY <1>2, <5>2 DEF Answers
      <4> QED BY <4>2, <4>4, <4>5 DEF Settled
    <3> QED BY <3>1, <3>2
  <2> QED BY <1>2, <2>1 DEF Settled, Named
<1>3. CASE r # m
  <2> HIDE DEF r
  <2>1. ASSUME NEW name, Fresh(m, name), Adds(Names, m, r, svc, name), add,
               \A i \in DOMAIN m.doc : m.doc[i].key # svc.key, svc.name.n = 1
        PROVE  Named(r.doc, svc, add) /\ ~Named(m.doc, svc, add)
    <3> DEFINE l == Len(m.doc) + 1
    <3>1. l \in DOMAIN r.doc /\ r.doc[l].key = svc.key /\ r.doc[l].name = name
      BY <1>1, <2>1 DEF Adds, States
    <3> QED BY <2>1, <3>1 DEF Named, Fresh, IsPlaceholder
  <2>2. ASSUME NEW name, NEW i \in DOMAIN m.doc, m.doc[i].key = svc.key,
               Fresh(m, name), Renames(Names, m, r, name, i), IsPlaceholder(m.doc[i].name),
               svc.name.n = 1
        PROVE  Named(r.doc, svc, add) /\ ~Named(m.doc, svc, add)
    <3>1. i \in DOMAIN r.doc /\ r.doc[i].key = svc.key /\ r.doc[i].name = name
      BY <1>1, <2>2 DEF Renames, States
    <3>2. Named(r.doc, svc, add)
      BY <2>2, <3>1 DEF Named, Fresh
    <3>3. \A j \in DOMAIN m.doc : m.doc[j].key = svc.key => j = i
      BY <1>1, <2>2 DEF OneEach
    <3>4. ~IsPlaceholder(svc.name)
      BY <2>2 DEF IsPlaceholder
    <3> QED BY <2>2, <3>2, <3>3, <3>4 DEF Named
  <2>3. ASSUME NEW i \in DOMAIN m.doc, m.doc[i].key = svc.key, GivesAlias(Names, m, r, svc, i),
               ~IsPlaceholder(m.doc[i].name)
        PROVE  Settled(r.doc, svc, add)
    <3>1. /\ i \in DOMAIN r.doc /\ r.doc[i].key = svc.key
          /\ ~IsPlaceholder(r.doc[i].name) /\ svc.name \in r.doc[i].aliases
      BY <1>1, <2>3 DEF GivesAlias, States
    <3> QED BY <3>1 DEF Settled, Answers
  <2>4. Settled(r.doc, svc, add) => Named(r.doc, svc, add)
    BY DEF Settled, Named
  <2> QED BY <1>3, <2>1, <2>2, <2>3, <2>4, Effects DEF r
<1> QED BY <1>2, <1>3

(* Another service's merge disturbs neither.                               *)
LEMMA OtherMerge ==
    ASSUME NEW m, GoodMerge(m), NEW svc \in Services, NEW other, NEW add \in BOOLEAN
    PROVE  LET r == MergeOne(m, svc, add)
           IN  /\ Named(m.doc, other, add) => Named(r.doc, other, add)
               /\ Settled(m.doc, other, add) => Settled(r.doc, other, add)
<1> DEFINE r == MergeOne(m, svc, add)
<1>1. Follows(m, r, svc)
  BY MergeOneFollows
<1>2. ~add => DOMAIN r.doc = DOMAIN m.doc
  <2> SUFFICES ASSUME ~add, r # m PROVE DOMAIN r.doc = DOMAIN m.doc
    OBVIOUS
  <2> HIDE DEF r
  <2>1. m \in States(Names) /\ DOMAIN m.doc = 1 .. Len(m.doc)
    BY DEF GoodMerge, States
  <2>2. \/ \E name : \E i \in DOMAIN m.doc : Renames(Names, m, r, name, i)
        \/ \E i \in DOMAIN m.doc : GivesAlias(Names, m, r, svc, i)
    BY Effects DEF r
  <2>3. r \in States(Names) /\ Len(r.doc) = Len(m.doc)
    BY <2>2 DEF Renames, GivesAlias
  <2> QED BY <2>1, <2>3 DEF States
<1> HIDE DEF r
<1>3. (~add /\ \A i \in DOMAIN m.doc : m.doc[i].key # other.key)
        => \A i \in DOMAIN r.doc : r.doc[i].key # other.key
  BY <1>1, <1>2 DEF Follows
<1>4. \A i \in DOMAIN m.doc :
        ~IsPlaceholder(m.doc[i].name) =>
          /\ i \in DOMAIN r.doc /\ ~IsPlaceholder(r.doc[i].name)
          /\ r.doc[i].key = m.doc[i].key
          /\ Answers(m.doc[i], other.name) => Answers(r.doc[i], other.name)
  BY <1>1 DEF Follows, Answers
<1>5. Named(m.doc, other, add) => Named(r.doc, other, add)
  BY <1>3, <1>4 DEF Named
<1>6. Settled(m.doc, other, add) => Settled(r.doc, other, add)
  BY <1>3, <1>4 DEF Settled
<1> QED BY <1>5, <1>6 DEF r

LEMMA FirstMergeNames ==
    ASSUME NEW d, GoodDoc(d), NEW list \in Seq(Services), NEW add \in BOOLEAN
    PROVE  \A j \in 1 .. Len(list) : Named(Merge(d, list, add).doc, list[j], add)
<1> DEFINE named(i) == {m \in States(Names) : /\ GoodMerge(m)
                                       /\ \A j \in 1 .. i : Named(m.doc, list[j], add)}
           inv == [i \in 0 .. Len(list) |-> named(i)]
<1>1. [doc |-> d, taken |-> Taken(d), aliased |-> {}] \in inv[0]
  BY StartGood DEF GoodMerge
<1>2. \A i \in 1 .. Len(list) : \A m \in inv[i - 1] : MergeOne(m, list[i], add) \in inv[i]
  <2> SUFFICES ASSUME NEW i \in 1 .. Len(list), NEW m \in inv[i - 1]
               PROVE  MergeOne(m, list[i], add) \in inv[i]
    OBVIOUS
  <2> DEFINE r == MergeOne(m, list[i], add)
  <2>1. /\ list[i] \in Services /\ GoodMerge(m) /\ i - 1 \in 0 .. Len(list)
        /\ \A j \in 1 .. i - 1 : Named(m.doc, list[j], add)
    OBVIOUS
  <2>2. GoodMerge(r)
    BY <2>1, MergeOneKeeps
  <2>3. Named(r.doc, list[i], add)
    BY <2>1, OwnMerge
  <2>4. \A j \in 1 .. i - 1 : Named(r.doc, list[j], add)
    BY <2>1, OtherMerge
  <2>5. 1 .. i = (1 .. i - 1) \cup {i}
    OBVIOUS
  <2> HIDE DEF r
  <2>6. r \in named(i)
    BY <2>2, <2>3, <2>4, <2>5 DEF GoodMerge
  <2> HIDE DEF named
  <2> QED BY <2>6 DEF r
<1>3. Merge(d, list, add) \in inv[Len(list)]
  <2> HIDE DEF inv
  <2> QED BY <1>1, <1>2, MergeLoop
<1> QED BY <1>3

LEMMA SecondMergeSettles ==
    ASSUME NEW d, GoodDoc(d), NEW list \in Seq(Services), NEW add \in BOOLEAN,
           \A j \in 1 .. Len(list) : Named(d, list[j], add)
    PROVE  \A j \in 1 .. Len(list) : Settled(Merge(d, list, add).doc, list[j], add)
<1> DEFINE settled(i) == {m \in States(Names) : /\ GoodMerge(m)
                                                /\ \A j \in 1 .. Len(list) : Named(m.doc, list[j], add)
                                                /\ \A j \in 1 .. i : Settled(m.doc, list[j], add)}
           inv == [i \in 0 .. Len(list) |-> settled(i)]
<1>1. [doc |-> d, taken |-> Taken(d), aliased |-> {}] \in inv[0]
  BY StartGood DEF GoodMerge
<1>2. \A i \in 1 .. Len(list) : \A m \in inv[i - 1] : MergeOne(m, list[i], add) \in inv[i]
  <2> SUFFICES ASSUME NEW i \in 1 .. Len(list), NEW m \in inv[i - 1]
               PROVE  MergeOne(m, list[i], add) \in inv[i]
    OBVIOUS
  <2> DEFINE r == MergeOne(m, list[i], add)
  <2>1. /\ list[i] \in Services /\ GoodMerge(m) /\ i - 1 \in 0 .. Len(list)
        /\ \A j \in 1 .. Len(list) : Named(m.doc, list[j], add)
        /\ \A j \in 1 .. i - 1 : Settled(m.doc, list[j], add)
    OBVIOUS
  <2>2. GoodMerge(r)
    BY <2>1, MergeOneKeeps
  <2>3. Settled(r.doc, list[i], add)
    BY <2>1, OwnMerge
  <2>4. \A j \in 1 .. i - 1 : Settled(r.doc, list[j], add)
    BY <2>1, OtherMerge
  <2>5. \A j \in 1 .. Len(list) : Named(r.doc, list[j], add)
    BY <2>1, OtherMerge
  <2>6. 1 .. i = (1 .. i - 1) \cup {i}
    OBVIOUS
  <2> HIDE DEF r
  <2>7. r \in settled(i)
    BY <2>2, <2>3, <2>4, <2>5, <2>6 DEF GoodMerge
  <2> HIDE DEF settled
  <2> QED BY <2>7 DEF r
<1>3. Merge(d, list, add) \in inv[Len(list)]
  <2> HIDE DEF inv
  <2> QED BY <1>1, <1>2, MergeLoop
<1> QED BY <1>3

LEMMA SettledMergeIdle ==
    ASSUME NEW d, GoodDoc(d), NEW list \in Seq(Services), NEW add \in BOOLEAN,
           \A j \in 1 .. Len(list) : Settled(d, list[j], add)
    PROVE  Merge(d, list, add).doc = d
<1> DEFINE e == [doc |-> d, taken |-> Taken(d), aliased |-> {}]
           inv == [i \in 0 .. Len(list) |-> {e}]
<1>1. GoodMerge(e) /\ e.doc = d
  BY StartGood
<1> HIDE DEF e
<1>2. \A i \in 1 .. Len(list) : \A m \in inv[i - 1] : MergeOne(m, list[i], add) \in inv[i]
  <2> SUFFICES ASSUME NEW i \in 1 .. Len(list)
               PROVE  MergeOne(e, list[i], add) = e
    OBVIOUS
  <2> QED BY <1>1, SettledIsIdle
<1>3. e \in inv[0]
  OBVIOUS
<1>4. Merge(d, list, add) \in inv[Len(list)]
  <2> HIDE DEF inv
  <2> QED BY <1>2, <1>3, MergeLoop DEF e
<1> QED BY <1>1, <1>4

(* Whatever document two merges of a list are made into, a third changes   *)
(* nothing: repeating the scan of an unchanged mux does not grow the file. *)
THEOREM RescansSettle == Spec => []RescanSettles
<1>1. ASSUME TypeOK, GoodDoc(doc), NEW add \in BOOLEAN
      PROVE  LET Again(d) == Merge(d, scanned, add).doc
                 twice    == Again(Again(doc))
             IN  Again(twice) = twice
  <2> DEFINE once == Merge(doc, scanned, add).doc
             twice == Merge(once, scanned, add).doc
  <2>1. scanned \in Seq(Services)
    BY <1>1, ScansTyped DEF TypeOK
  <2>2. GoodDoc(once)
    BY <1>1, <2>1, MergeKeeps DEF GoodMerge
  <2>3. \A j \in 1 .. Len(scanned) : Named(once, scanned[j], add)
    BY <1>1, <2>1, FirstMergeNames
  <2> HIDE DEF once
  <2>4. GoodDoc(twice)
    BY <2>1, <2>2, MergeKeeps DEF GoodMerge
  <2>5. \A j \in 1 .. Len(scanned) : Settled(twice, scanned[j], add)
    BY <2>1, <2>2, <2>3, SecondMergeSettles
  <2> HIDE DEF twice
  <2>6. Merge(twice, scanned, add).doc = twice
    BY <2>1, <2>4, <2>5, SettledMergeIdle
  <2> QED BY <2>6 DEF twice, once
<1>2. TypeOK /\ GoodDoc(doc) => RescanSettles
  BY <1>1 DEF RescanSettles
<1> QED BY <1>2, DocumentGood, PTL
=============================================================================
