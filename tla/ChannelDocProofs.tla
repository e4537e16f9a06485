---------------------------- MODULE ChannelDocProofs ----------------------------
(***************************************************************************)
(* The merge of a list into a document, service by service and as a loop,  *)
(* whatever the document.                                                  *)
(***************************************************************************)
EXTENDS ChannelDoc, SequenceTheorems, Induction

(* What the loop of merge_scanned works on.                                *)
States(N) == [doc : Seq(Records(N)), taken : SUBSET N, aliased : SUBSET Keys]

(* unique_name gives the first of the suffixes that is free.               *)
LEMMA FirstFree ==
    ASSUME NEW t, NEW taken, IsFiniteSet(taken)
    PROVE  \E k \in Nat \ {0} :
              /\ UniqueName(t, taken) = [base |-> t, n |-> k]
              /\ [base |-> t, n |-> k] \notin taken
              /\ \A j \in 1 .. k - 1 : [base |-> t, n |-> j] \in taken
<1> DEFINE top == Cardinality(taken) + 1
           free == {k \in 1 .. top : [base |-> t, n |-> k] \notin taken}
<1>1. IsFiniteSet(taken) /\ Cardinality(taken) \in Nat /\ top \in Nat
  BY FS_CardinalityType
<1>2. free # {}
  <2> SUFFICES ASSUME free = {} PROVE FALSE
    OBVIOUS
  <2> DEFINE f == [k \in 1 .. top |-> [base |-> t, n |-> k]]
  <2>1. f \in [1 .. top -> taken]
    OBVIOUS
  <2>2. \A j, k \in 1 .. top : f[j] = f[k] => j = k
    OBVIOUS
  <2>3. f \in Injection(1 .. top, taken)
    BY <2>1, <2>2 DEF Injection, IsInjective
  <2>4. Cardinality(1 .. top) <= Cardinality(taken)
    BY <1>1, <2>3, FS_Injection
  <2>5. Cardinality(1 .. top) = top
    BY <1>1, FS_Interval
  <2> QED BY <1>1, <2>4, <2>5
<1>3. PICK k \in free : \A j \in free : k <= j
  <2>1. free \subseteq Nat
    OBVIOUS
  <2> HIDE DEF free
  <2> QED BY <1>2, <2>1, LeastElement
<1>4. (CHOOSE i \in free : \A j \in free : i <= j) = k
  <2>1. \A i \in free : (\A j \in free : i <= j) => i = k
    BY <1>1, <1>3
  <2> HIDE DEF free
  <2> QED BY <1>3, <2>1
<1>5. UniqueName(t, taken) = [base |-> t, n |-> k]
  BY <1>4 DEF UniqueName
<1>6. \A j \in 1 .. k - 1 : [base |-> t, n |-> j] \in taken
  <2> SUFFICES ASSUME NEW j \in 1 .. k - 1, [base |-> t, n |-> j] \notin taken PROVE FALSE
    OBVIOUS
  <2>1. j \in free /\ ~(k <= j)
    BY <1>1
  <2> QED BY <2>1, <1>3
<1> QED BY <1>1, <1>5, <1>6

-----------------------------------------------------------------------------
(* One service.                                                            *)

LEMMA MergeUnnamed ==
    ASSUME NEW m, NEW svc, NEW add, IsPlaceholder(svc.name)
    PROVE  MergeOne(m, svc, add) = m
BY DEF MergeOne

LEMMA MergeNew ==
    ASSUME NEW m, NEW svc, NEW add, ~IsPlaceholder(svc.name),
           Matches(m.doc, svc) = {}
    PROVE  MergeOne(m, svc, add) = IF add THEN AddRecord(m, svc) ELSE m
BY DEF MergeOne

(* What the three changes leave: a record added, renamed, or given an      *)
(* alias.                                                                  *)
Adds(N, m, r, svc, name) ==
  /\ r \in States(N)
  /\ Len(r.doc) = Len(m.doc) + 1
  /\ \A j \in 1 .. Len(m.doc) : r.doc[j] = m.doc[j]
  /\ r.doc[Len(m.doc) + 1] = [key |-> svc.key, name |-> name, aliases |-> {}]
  /\ r.taken = m.taken \cup {name}
  /\ r.aliased = m.aliased

Renames(N, m, r, name, i) ==
  /\ r \in States(N)
  /\ Len(r.doc) = Len(m.doc)
  /\ \A j \in 1 .. Len(m.doc) : j # i => r.doc[j] = m.doc[j]
  /\ r.doc[i].key = m.doc[i].key /\ r.doc[i].name = name
  /\ r.doc[i].aliases = m.doc[i].aliases \cup {m.doc[i].name}
  /\ r.taken = m.taken \cup {name, m.doc[i].name}
  /\ r.aliased = m.aliased

GivesAlias(N, m, r, svc, i) ==
  /\ r \in States(N)
  /\ Len(r.doc) = Len(m.doc)
  /\ \A j \in 1 .. Len(m.doc) : j # i => r.doc[j] = m.doc[j]
  /\ r.doc[i].key = m.doc[i].key /\ r.doc[i].name = m.doc[i].name
  /\ r.doc[i].aliases = m.doc[i].aliases \cup {svc.name}
  /\ r.taken = m.taken
  /\ r.aliased = m.aliased \cup {svc.key}

LEMMA Added ==
    ASSUME NEW N, NEW m \in States(N), NEW svc, svc.key \in Keys,
           UniqueName(svc.name.base, m.taken) \in N
    PROVE  Adds(N, m, AddRecord(m, svc), svc, UniqueName(svc.name.base, m.taken))
<1> DEFINE name == UniqueName(svc.name.base, m.taken)
           rec  == [key |-> svc.key, name |-> name, aliases |-> {}]
<1> HIDE DEF name
<1>1. rec \in Records(N)
  BY DEF Records, name
<1>2. LET r == AddRecord(m, svc)
      IN  /\ r.doc = Append(m.doc, rec) /\ r.taken = m.taken \cup {name}
          /\ r.aliased = m.aliased
          /\ r.doc \in Seq(Records(N)) /\ r.taken \in SUBSET N => r \in States(N)
  BY DEF AddRecord, NewRecord, States, name
<1>3. m.doc \in Seq(Records(N)) /\ m.taken \in SUBSET N /\ m.aliased \in SUBSET Keys
  BY DEF States
<1> HIDE DEF rec
<1>4. /\ Append(m.doc, rec) \in Seq(Records(N))
      /\ Len(Append(m.doc, rec)) = Len(m.doc) + 1
      /\ \A j \in 1 .. Len(m.doc) : Append(m.doc, rec)[j] = m.doc[j]
      /\ Append(m.doc, rec)[Len(m.doc) + 1] = rec
  BY <1>1, <1>3, AppendProperties
<1> QED BY <1>2, <1>3, <1>4 DEF Adds, States, name, rec

LEMMA Renamed ==
    ASSUME NEW N, NEW m \in States(N), NEW svc, NEW i \in 1 .. Len(m.doc),
           UniqueName(svc.name.base, m.taken) \in N
    PROVE  Renames(N, m, Rename(m, svc, i), UniqueName(svc.name.base, m.taken), i)
<1> DEFINE name == UniqueName(svc.name.base, m.taken)
           rec  == [m.doc[i] EXCEPT !.name = name, !.aliases = @ \cup {m.doc[i].name}]
<1> HIDE DEF name
<1>1. m.doc \in Seq(Records(N)) /\ m.taken \in SUBSET N /\ m.aliased \in SUBSET Keys
  BY DEF States
<1>2. m.doc[i] \in Records(N)
  BY <1>1, ElementOfSeq
<1>3. /\ rec \in Records(N) /\ rec.key = m.doc[i].key /\ rec.name = name
      /\ rec.aliases = m.doc[i].aliases \cup {m.doc[i].name}
  BY <1>2 DEF Records, name
<1>4. LET r == Rename(m, svc, i)
      IN  /\ r.doc = [m.doc EXCEPT ![i] = rec]
          /\ r.taken = m.taken \cup {name, m.doc[i].name} /\ r.aliased = m.aliased
          /\ r.doc \in Seq(Records(N)) /\ r.taken \in SUBSET N => r \in States(N)
  BY <1>1 DEF Rename, States, name
<1> HIDE DEF rec
<1>5. /\ [m.doc EXCEPT ![i] = rec] \in Seq(Records(N))
      /\ Len([m.doc EXCEPT ![i] = rec]) = Len(m.doc)
      /\ \A j \in 1 .. Len(m.doc) :
            [m.doc EXCEPT ![i] = rec][j] = IF j = i THEN rec ELSE m.doc[j]
  BY <1>1, <1>3, ExceptSeq
<1>6. m.doc[i].name \in N
  BY <1>2 DEF Records
<1> QED BY <1>1, <1>3, <1>4, <1>5, <1>6 DEF Renames, States, name

LEMMA Aliased ==
    ASSUME NEW N, NEW m \in States(N), NEW svc, NEW i \in 1 .. Len(m.doc),
           svc.name \in N, svc.key \in Keys
    PROVE  GivesAlias(N, m, AddAlias(m, svc, i), svc, i)
<1> DEFINE rec == [m.doc[i] EXCEPT !.aliases = @ \cup {svc.name}]
<1>1. m.doc \in Seq(Records(N)) /\ m.taken \in SUBSET N /\ m.aliased \in SUBSET Keys
  BY DEF States
<1>2. m.doc[i] \in Records(N)
  BY <1>1, ElementOfSeq
<1>3. /\ rec \in Records(N) /\ rec.key = m.doc[i].key /\ rec.name = m.doc[i].name
      /\ rec.aliases = m.doc[i].aliases \cup {svc.name}
  BY <1>2 DEF Records
<1>4. LET r == AddAlias(m, svc, i)
      IN  /\ r.doc = [m.doc EXCEPT ![i] = rec]
          /\ r.taken = m.taken /\ r.aliased = m.aliased \cup {svc.key}
          /\ r.doc \in Seq(Records(N)) /\ r.aliased \in SUBSET Keys => r \in States(N)
  BY <1>1 DEF AddAlias, States
<1> HIDE DEF rec
<1>5. /\ [m.doc EXCEPT ![i] = rec] \in Seq(Records(N))
      /\ Len([m.doc EXCEPT ![i] = rec]) = Len(m.doc)
      /\ \A j \in 1 .. Len(m.doc) :
            [m.doc EXCEPT ![i] = rec][j] = IF j = i THEN rec ELSE m.doc[j]
  BY <1>1, <1>3, ExceptSeq
<1> QED BY <1>1, <1>3, <1>4, <1>5 DEF GivesAlias, States

-----------------------------------------------------------------------------
(* The loop: a set for each stage, entered at the start and kept by each   *)
(* service's merge, holds what the loop makes of the document.             *)
LEMMA MergeLoop ==
    ASSUME NEW d, NEW list, Len(list) \in Nat, NEW add, NEW inv,
           [doc |-> d, taken |-> Taken(d), aliased |-> {}] \in inv[0],
           \A i \in 1 .. Len(list) : \A m \in inv[i - 1] :
              MergeOne(m, list[i], add) \in inv[i]
    PROVE  /\ \A i \in 0 .. Len(list) : Stages(d, list, add)[i] \in inv[i]
           /\ Merge(d, list, add) \in inv[Len(list)]
<1> DEFINE n == Len(list)
           e == [doc |-> d, taken |-> Taken(d), aliased |-> {}]
           all == UNION {inv[i] : i \in 0 .. n}
           step == [p \in (1 .. n) \X all |-> MergeOne(p[2], list[p[1]], add)]
           m == Stages(d, list, add)
<1> HIDE DEF e
<1>1. \A i \in 1 .. n : \A v \in inv[i - 1] :
         step[<<i, v>>] = MergeOne(v, list[i], add)
  <2> SUFFICES ASSUME NEW i \in 1 .. n, NEW v \in inv[i - 1]
               PROVE  step[<<i, v>>] = MergeOne(v, list[i], add)
    OBVIOUS
  <2>1. i - 1 \in 0 .. n
    OBVIOUS
  <2>2. <<i, v>> \in (1 .. n) \X all
    BY <2>1
  <2> QED BY <2>2
<1>2. \A i \in 1 .. n : \A v \in inv[i - 1] : step[<<i, v>>] \in inv[i]
  <2> HIDE DEF step
  <2> QED BY <1>1
<1>3. PICK h : /\ h = [i \in 0 .. n |-> IF i = 0 THEN e ELSE step[<<i, h[i - 1]>>]]
               /\ \A i \in 0 .. n : h[i] \in inv[i]
  <2>1. e \in inv[0] /\ n \in Nat
    BY DEF e
  <2>2. Keeps(step, n, inv)
    BY <1>2 DEF Keeps
  <2> HIDE DEF step, n
  <2>3. \E h : IsRun(h, n, e, step) /\ Within(h, n, inv)
    BY <2>1, <2>2, Iteration
  <2> QED BY <2>3 DEF IsRun, Within
<1>4. h = [i \in 0 .. n |-> IF i = 0 THEN e ELSE MergeOne(h[i - 1], list[i], add)]
  <2>1. \A i \in 0 .. n : i # 0 => i \in 1 .. n /\ i - 1 \in 0 .. n
    OBVIOUS
  <2>2. \A i \in 0 .. n :
           (IF i = 0 THEN e ELSE step[<<i, h[i - 1]>>])
             = IF i = 0 THEN e ELSE MergeOne(h[i - 1], list[i], add)
    <3> HIDE DEF step
    <3> QED BY <1>1, <1>3, <2>1
  <2> HIDE DEF step
  <2> QED BY <1>3, <2>2
<1>5. m = [i \in 0 .. n |-> IF i = 0 THEN e ELSE MergeOne(m[i - 1], list[i], add)]
  <2> DEFINE F(f) == f = [i \in 0 .. n |-> IF i = 0 THEN e ELSE MergeOne(f[i - 1], list[i], add)]
  <2>1. m = CHOOSE f : F(f)
    BY DEF Stages, e
  <2>2. \E f : F(f)
    BY <1>4
  <2> HIDE DEF F
  <2>3. F(m)
    BY <2>1, <2>2
  <2> QED BY <2>3 DEF F
<1>6. \A i \in 0 .. n : m[i] \in inv[i]
  <2> DEFINE S == {i \in Nat : i <= n => m[i] \in inv[i]}
  <2> HIDE DEF m
  <2>1. 0 \in S
    <3>1. m[0] = e
      BY <1>5
    <3> QED BY <3>1 DEF e
  <2>2. ASSUME NEW i \in Nat, i \in S PROVE i + 1 \in S
    <3> SUFFICES ASSUME i + 1 <= n PROVE m[i + 1] \in inv[i + 1]
      OBVIOUS
    <3>1. i + 1 \in 1 .. n /\ (i + 1) - 1 = i /\ m[i] \in inv[i]
      BY <2>2
    <3>2. m[i + 1] = MergeOne(m[i], list[i + 1], add)
      BY <1>5, <3>1
    <3> QED BY <3>1, <3>2
  <2>3. Nat \subseteq S
    <3> HIDE DEF S
    <3> QED BY <2>1, <2>2, Induct
  <2> QED BY <2>3
<1> QED BY <1>6 DEF Merge

-----------------------------------------------------------------------------
(* Any document.  A person may have listed a service twice; the merge then *)
(* works on its first record.                                              *)
LEMMA MergeKnown ==
    ASSUME NEW m, NEW svc, NEW add, ~IsPlaceholder(svc.name),
           Matches(m.doc, svc) \subseteq Nat,
           NEW i \in Matches(m.doc, svc), \A j \in Matches(m.doc, svc) : i <= j
    PROVE  MergeOne(m, svc, add) =
             IF IsPlaceholder(m.doc[i].name) THEN Rename(m, svc, i)
             ELSE IF Answers(m.doc[i], svc.name) THEN m
             ELSE AddAlias(m, svc, i)
<1> DEFINE found == Matches(m.doc, svc)
<1>1. \A j \in found : (\A k \in found : j <= k) => j = i
  OBVIOUS
<1>2. found # {}
  OBVIOUS
<1> HIDE DEF found
<1>3. (CHOOSE j \in found : \A k \in found : j <= k) = i
  BY <1>1 DEF found
<1>4. MergeOne(m, svc, add) =
        LET first == CHOOSE j \in found : \A k \in found : j <= k
            rec   == m.doc[first]
        IN  IF IsPlaceholder(rec.name) THEN Rename(m, svc, first)
            ELSE IF Answers(rec, svc.name) THEN m
            ELSE AddAlias(m, svc, first)
  BY <1>2, Zenon DEF MergeOne, found
<1> QED BY <1>3, <1>4, Zenon

(* The strings a document answers to are finitely many.                    *)
LEMMA TakenOfAny ==
    ASSUME NEW d, IsDocument(d)
    PROVE  Taken(d) \in SUBSET Strings /\ IsFiniteSet(Taken(d))
<1>1. d \in Seq(Records(Strings)) /\ DOMAIN d = 1 .. Len(d) /\ Len(d) \in Nat
  BY DEF IsDocument
<1> DEFINE of == [i \in 1 .. Len(d) |-> {d[i].name} \cup d[i].aliases]
<1>2. \A i \in 1 .. Len(d) : of[i] \subseteq Strings /\ IsFiniteSet(of[i])
  <2> SUFFICES ASSUME NEW i \in 1 .. Len(d)
               PROVE  of[i] \subseteq Strings /\ IsFiniteSet(of[i])
    OBVIOUS
  <2>1. d[i] \in Records(Strings)
    BY <1>1
  <2>2. IsFiniteSet(d[i].aliases) /\ IsFiniteSet({d[i].name})
    BY <1>1, FS_Singleton DEF IsDocument
  <2> QED BY <2>1, <2>2, FS_Union DEF Records
<1>3. Taken(d) = UNION {of[i] : i \in 1 .. Len(d)}
  BY <1>1 DEF Taken
<1>4. IsFiniteSet({of[i] : i \in 1 .. Len(d)})
  <2>1. IsFiniteSet(1 .. Len(d))
    BY <1>1, FS_Interval
  <2> HIDE DEF of
  <2> DEFINE g == [i \in 1 .. Len(d) |-> of[i]]
             S == {of[i] : i \in 1 .. Len(d)}
  <2>2. g \in Surjection(1 .. Len(d), S)
    BY DEF Surjection
  <2> QED BY <2>1, <2>2, FS_Surjection
<1> HIDE DEF of
<1>5. \A s \in {of[i] : i \in 1 .. Len(d)} : IsFiniteSet(s)
  BY <1>2
<1>6. IsFiniteSet(UNION {of[i] : i \in 1 .. Len(d)})
  BY <1>4, <1>5, FS_UNION
<1> QED BY <1>2, <1>3, <1>6

(* The loop on any document: no key goes, and no record has a name but its *)
(* own or one of its service's.                                            *)
Comes(d, list, rec) ==
  \/ \E i \in DOMAIN d : d[i].key = rec.key /\ d[i].name = rec.name
  \/ \E j \in DOMAIN list :
       /\ list[j].key = rec.key /\ list[j].name.base = rec.name.base
       /\ ~IsPlaceholder(list[j].name) /\ ~IsPlaceholder(rec.name)

Grown(d, list, m) ==
  /\ m \in States(Strings) /\ IsDocument(m.doc) /\ IsFiniteSet(m.taken)
  /\ KeysOf(d) \subseteq KeysOf(m.doc)
  /\ \A i \in DOMAIN m.doc : Comes(d, list, m.doc[i])

LEMMA ServiceNames ==
    ASSUME NEW svc \in Services, ~IsPlaceholder(svc.name)
    PROVE  /\ svc.key \in Keys /\ svc.name \in Strings
           /\ svc.name.base \in Titles /\ svc.name = Title(svc.name.base)
<1>1. PICK k \in Keys, t \in Titles : svc = [key |-> k, name |-> Title(t)]
  BY DEF Services, IsPlaceholder, Placeholder
<1> QED BY <1>1 DEF Title, Strings

LEMMA FewMore ==
    ASSUME NEW S, IsFiniteSet(S), NEW x, NEW y
    PROVE  IsFiniteSet(S \cup {x}) /\ IsFiniteSet(S \cup {x, y})
<1>1. IsFiniteSet(S \cup {x})
  BY FS_AddElement
<1>2. IsFiniteSet((S \cup {x}) \cup {y})
  BY <1>1, FS_AddElement
<1>3. (S \cup {x}) \cup {y} = S \cup {x, y}
  OBVIOUS
<1> QED BY <1>1, <1>2, <1>3

LEMMA GrownStep ==
    ASSUME NEW d, NEW list \in Seq(Services), NEW add, NEW m, Grown(d, list, m),
           NEW l \in DOMAIN list
    PROVE  Grown(d, list, MergeOne(m, list[l], add))
<1> DEFINE svc == list[l]
           r == MergeOne(m, svc, add)
           name == UniqueName(svc.name.base, m.taken)
<1>1. /\ m \in States(Strings) /\ IsDocument(m.doc) /\ IsFiniteSet(m.taken)
      /\ KeysOf(d) \subseteq KeysOf(m.doc)
      /\ \A i \in DOMAIN m.doc : Comes(d, list, m.doc[i])
      /\ DOMAIN m.doc = 1 .. Len(m.doc) /\ Len(m.doc) \in Nat
  BY DEF Grown, States
<1>2. CASE r = m
  BY <1>2
<1>3. CASE r # m
  <2>1. svc \in Services /\ ~IsPlaceholder(svc.name)
    BY <1>3, MergeUnnamed
  <2>2. svc.key \in Keys /\ svc.name \in Strings /\ svc.name.base \in Titles
    BY <2>1, ServiceNames
  <2>3. name \in Strings /\ name.base = svc.name.base /\ ~IsPlaceholder(name)
    <3>1. PICK k \in Nat \ {0} : name = [base |-> svc.name.base, n |-> k]
      BY <1>1, FirstFree
    <3> QED BY <2>2, <3>1 DEF Strings, IsPlaceholder
  <2> HIDE DEF name
  <2>4. \A rec : rec.key = svc.key /\ rec.name = name => Comes(d, list, rec)
    BY <2>1, <2>3 DEF Comes
  <2>5. CASE Matches(m.doc, svc) = {}
    <3>1. r = AddRecord(m, svc)
      BY <1>3, <2>1, <2>5, MergeNew
    <3>2. Adds(Strings, m, r, svc, name)
      BY <1>1, <2>2, <2>3, <3>1, Added DEF name
    <3> HIDE DEF r, svc
    <3>3. /\ r \in States(Strings) /\ DOMAIN r.doc = 1 .. Len(m.doc) + 1
          /\ \A i \in DOMAIN m.doc : r.doc[i] = m.doc[i]
          /\ r.doc[Len(m.doc) + 1].key = svc.key
          /\ r.doc[Len(m.doc) + 1].name = name
          /\ r.doc[Len(m.doc) + 1].aliases = {}
          /\ r.taken = m.taken \cup {name}
      BY <1>1, <3>2 DEF Adds, States
    <3>4. IsFiniteSet(r.taken)
      <4>1. IsFiniteSet(m.taken \cup {name})
        BY <1>1, FewMore
      <4> QED BY <3>3, <4>1
    <3>5. \A i \in DOMAIN r.doc : i \in DOMAIN m.doc \/ i = Len(m.doc) + 1
      BY <1>1, <3>3
    <3>6. \A i \in DOMAIN r.doc : Comes(d, list, r.doc[i]) /\ IsFiniteSet(r.doc[i].aliases)
      BY <1>1, <2>4, <3>3, <3>5, FS_EmptySet DEF IsDocument
    <3>7. KeysOf(m.doc) \subseteq KeysOf(r.doc)
      BY <1>1, <3>3 DEF KeysOf
    <3> QED BY <1>1, <3>3, <3>4, <3>6, <3>7 DEF Grown, IsDocument, States, r, svc
  <2>6. CASE Matches(m.doc, svc) # {}
    <3>1. Matches(m.doc, svc) \subseteq Nat
      BY <1>1 DEF Matches
    <3>2. PICK i \in Matches(m.doc, svc) : \A j \in Matches(m.doc, svc) : i <= j
      BY <2>6, <3>1, LeastElement
    <3>3. i \in 1 .. Len(m.doc) /\ m.doc[i].key = svc.key
      BY <1>1 DEF Matches
    <3>4. r = IF IsPlaceholder(m.doc[i].name) THEN Rename(m, svc, i)
              ELSE IF Answers(m.doc[i], svc.name) THEN m
              ELSE AddAlias(m, svc, i)
      BY <2>1, <3>1, <3>2, MergeKnown
    <3>5. ASSUME Renames(Strings, m, r, name, i) \/ GivesAlias(Strings, m, r, svc, i)
          PROVE  Grown(d, list, r)
      <4> HIDE DEF r, svc
      <4>1. /\ r \in States(Strings) /\ DOMAIN r.doc = DOMAIN m.doc
            /\ \A j \in DOMAIN m.doc : j # i => r.doc[j] = m.doc[j]
            /\ r.doc[i].key = m.doc[i].key
            /\ r.doc[i].name = name \/ r.doc[i].name = m.doc[i].name
            /\ \E s : r.doc[i].aliases = m.doc[i].aliases \cup {s}
            /\ r.taken = m.taken \/ r.taken = m.taken \cup {name, m.doc[i].name}
        <5>1. CASE Renames(Strings, m, r, name, i)
          <6>1. /\ r \in States(Strings) /\ Len(r.doc) = Len(m.doc)
                /\ \A j \in 1 .. Len(m.doc) : j # i => r.doc[j] = m.doc[j]
                /\ r.doc[i].key = m.doc[i].key /\ r.doc[i].name = name
                /\ r.doc[i].aliases = m.doc[i].aliases \cup {m.doc[i].name}
                /\ r.taken = m.taken \cup {name, m.doc[i].name}
            BY <5>1 DEF Renames
          <6>2. DOMAIN r.doc = DOMAIN m.doc
            BY <1>1, <6>1 DEF States
          <6> QED BY <1>1, <6>1, <6>2, Zenon
        <5>2. CASE GivesAlias(Strings, m, r, svc, i)
          <6>1. /\ r \in States(Strings) /\ Len(r.doc) = Len(m.doc)
                /\ \A j \in 1 .. Len(m.doc) : j # i => r.doc[j] = m.doc[j]
                /\ r.doc[i].key = m.doc[i].key /\ r.doc[i].name = m.doc[i].name
                /\ r.doc[i].aliases = m.doc[i].aliases \cup {svc.name}
                /\ r.taken = m.taken
            BY <5>2 DEF GivesAlias
          <6>2. DOMAIN r.doc = DOMAIN m.doc
            BY <1>1, <6>1 DEF States
          <6> QED BY <1>1, <6>1, <6>2, Zenon
        <5> QED BY <3>5, <5>1, <5>2
      <4>2. IsFiniteSet(r.taken)
        <5>1. IsFiniteSet(m.taken \cup {name, m.doc[i].name})
          BY <1>1, FewMore
        <5> QED BY <1>1, <4>1, <5>1
      <4>3. \A j \in DOMAIN r.doc : IsFiniteSet(r.doc[j].aliases)
        <5>1. IsFiniteSet(m.doc[i].aliases)
          BY <1>1, <3>3 DEF IsDocument
        <5>2. PICK s : r.doc[i].aliases = m.doc[i].aliases \cup {s}
          BY <4>1
        <5>3. IsFiniteSet(m.doc[i].aliases \cup {s})
          BY <5>1, FS_AddElement, Zenon
        <5>4. IsFiniteSet(r.doc[i].aliases)
          BY <5>2, <5>3
        <5> QED BY <1>1, <4>1, <5>4 DEF IsDocument
      <4>4. Comes(d, list, r.doc[i])
        <5>1. CASE r.doc[i].name = name
          BY <2>4, <3>3, <4>1, <5>1
        <5>2. CASE r.doc[i].name = m.doc[i].name
          <6>1. Comes(d, list, m.doc[i])
            BY <1>1, <3>3
          <6> QED BY <4>1, <5>2, <6>1 DEF Comes
        <5> QED BY <4>1, <5>1, <5>2
      <4>5. \A j \in DOMAIN r.doc : Comes(d, list, r.doc[j])
        BY <1>1, <4>1, <4>4
      <4>6. KeysOf(r.doc) = KeysOf(m.doc)
        BY <4>1 DEF KeysOf
      <4> QED BY <1>1, <4>1, <4>2, <4>3, <4>5, <4>6 DEF Grown, IsDocument, States
    <3>6. CASE IsPlaceholder(m.doc[i].name)
      <4>1. Renames(Strings, m, Rename(m, svc, i), name, i)
        BY <1>1, <2>3, <3>3, Renamed DEF name
      <4> QED BY <3>4, <3>5, <3>6, <4>1
    <3>7. CASE ~IsPlaceholder(m.doc[i].name)
      <4>1. GivesAlias(Strings, m, AddAlias(m, svc, i), svc, i)
        BY <1>1, <2>2, <3>3, Aliased
      <4> QED BY <1>3, <3>4, <3>5, <3>7, <4>1
    <3> QED BY <3>6, <3>7
  <2> QED BY <2>5, <2>6
<1> QED BY <1>2, <1>3

LEMMA MergeOfAny ==
    ASSUME NEW d, IsDocument(d), NEW list \in Seq(Services), NEW add
    PROVE  LET e == Merge(d, list, add).doc
           IN  /\ IsDocument(e) /\ KeysOf(d) \subseteq KeysOf(e)
               /\ \A i \in DOMAIN e : Comes(d, list, e[i])
<1> DEFINE grown == {m \in States(Strings) : Grown(d, list, m)}
           inv == [i \in 0 .. Len(list) |-> grown]
           e == [doc |-> d, taken |-> Taken(d), aliased |-> {}]
<1>1. e \in inv[0]
  <2>1. e \in States(Strings)
    BY TakenOfAny DEF States, IsDocument
  <2>2. Grown(d, list, e)
    BY <2>1, TakenOfAny DEF Grown, Comes
  <2> QED BY <2>1, <2>2
<1>2. \A i \in 1 .. Len(list) : \A m \in inv[i - 1] : MergeOne(m, list[i], add) \in inv[i]
  <2> SUFFICES ASSUME NEW i \in 1 .. Len(list), NEW m \in inv[i - 1]
               PROVE  MergeOne(m, list[i], add) \in inv[i]
    OBVIOUS
  <2>1. Grown(d, list, m) /\ i \in DOMAIN list
    OBVIOUS
  <2>2. Grown(d, list, MergeOne(m, list[i], add))
    BY <2>1, GrownStep
  <2> QED BY <2>2 DEF Grown
<1>3. Merge(d, list, add) \in inv[Len(list)]
  <2> HIDE DEF inv
  <2> QED BY <1>1, <1>2, MergeLoop
<1> QED BY <1>3 DEF Grown
=============================================================================
