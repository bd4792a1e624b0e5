--------------------------- MODULE ToolDataProofs ---------------------------
(***************************************************************************)
(* Theorems about the parts of the tool that only work on data: the        *)
(* metrics, the database and the risk assessor, for every list of          *)
(* findings, every ground truth, every sequence of documents.              *)
(***************************************************************************)
EXTENDS Metrics, VulnDatabase, RiskAssessor, FiniteSetTheorems, WellFoundedInduction, TLAPS

\* Every set of natural numbers that is not empty has a least element.
LEMMA LeastNat ==
  ASSUME NEW T, T \subseteq Nat, T # {}
  PROVE  \E m \in T : \A k \in T : m <= k
<1> DEFINE R == OpToRel(<, Nat)
<1>1. IsWellFoundedOn(R, Nat)
  BY NatLessThanWellFounded
<1>2. \A x, y \in Nat : x < y => <<x, y>> \in R
  BY DEF OpToRel
<1> HIDE DEF R
<1>3. PICK x \in T : \A y \in T : ~ (<<y, x>> \in R)
  BY <1>1, WFMin
<1>4. ASSUME NEW k \in T PROVE x <= k
  <2>1. k \in Nat /\ x \in Nat
    OBVIOUS
  <2>2. ~(k < x)
    BY <1>2, <1>3, <2>1
  <2> QED BY <2>1, <2>2
<1> QED BY <1>4

-----------------------------------------------------------------------------
(***************************************************************************)
(* The metrics.  The inductive invariant: no finding is held twice, which  *)
(* the counter of matches shows by being both the number of holders and of *)
(* findings held.                                                          *)
(***************************************************************************)
Held ==
  /\ IsFiniteSet(DOMAIN pairs) /\ Cardinality(DOMAIN pairs) = true_positives
  /\ IsFiniteSet(f_matched) /\ Cardinality(f_matched) = true_positives

AllChose == pc = "done" => gi = Len(input.gt)

IInv == TypeOK /\ Held /\ AllChose /\ EarlierEntriesChooseFirst /\ CountsAddUp

\* The input is what the constants say: sequences with line numbers.
LEMMA InputTypes ==
  ASSUME TypeOK
  PROVE  /\ input.findings \in Seq(Finding) /\ input.gt \in Seq(Entry)
         /\ Findings = 1 .. Len(input.findings) /\ Entries = 1 .. Len(input.gt)
         /\ Len(input.findings) \in Nat /\ Len(input.gt) \in Nat
BY MetricsConstants DEF TypeOK, Findings, Entries

\* The distance of an entry from a finding is an integer (the lines are).
LEMMA DistanceIsInt ==
  ASSUME TypeOK, NEW g \in Entries, NEW f \in Findings
  PROVE  Distance(g, f) \in Int
<1>1. input.findings[f] \in Finding /\ input.gt[g] \in Entry
  BY InputTypes DEF Findings, Entries
<1>2. input.findings[f].line \in Int /\ input.gt[g].line \in Int
  BY <1>1 DEF Finding, Entry
<1> QED
  BY <1>2 DEF Distance, Diff, Abs

(***************************************************************************)
(* A step of the loop that finds something.                                *)
(***************************************************************************)
\* The entry and the finding that a step of the loop pairs are new to both
\* sides of the pairing.
LEMMA TakeAddsAPair ==
  ASSUME TypeOK, Take
  PROVE  \E f \in Free(gi + 1) :
           /\ Best(gi + 1, f)
           /\ gi + 1 \in Entries \ DOMAIN pairs /\ gi + 1 \in 1 .. gi'
           /\ DOMAIN pairs' = DOMAIN pairs \cup {gi + 1}
           /\ pairs'[gi + 1] = f
           /\ \A g \in DOMAIN pairs : pairs'[g] = pairs[g]
           /\ f_matched' = f_matched \cup {f}
<1>1. PICK f \in Free(gi + 1) :
        /\ Best(gi + 1, f)
        /\ pairs' = [g \in DOMAIN pairs \cup {gi + 1} |-> IF g = gi + 1 THEN f ELSE pairs[g]]
  BY DEF Take
<1>2. gi + 1 \in Entries \ DOMAIN pairs /\ gi + 1 \in 1 .. gi'
  BY InputTypes DEF Take, TypeOK
<1>3. /\ DOMAIN pairs' = DOMAIN pairs \cup {gi + 1}
      /\ pairs'[gi + 1] = f
      /\ \A g \in DOMAIN pairs : pairs'[g] = pairs[g]
  BY <1>1, <1>2
<1>4. f_matched' = f_matched \cup {f}
  BY <1>2, <1>3 DEF f_matched
<1> QED
  BY <1>1, <1>2, <1>3, <1>4

LEMMA InitIInv == Init => IInv
<1> SUFFICES ASSUME Init PROVE IInv
  OBVIOUS
<1>1. TypeOK
  BY MetricsConstants DEF Init, TypeOK
<1>2. Held
  <2>1. DOMAIN pairs = {} /\ f_matched = {}
    BY DEF Init, f_matched
  <2> QED
    BY <2>1, FS_EmptySet DEF Held, Init
<1>3. AllChose /\ EarlierEntriesChooseFirst /\ CountsAddUp
  BY DEF Init, AllChose, EarlierEntriesChooseFirst, CountsAddUp
<1> QED
  BY <1>1, <1>2, <1>3 DEF IInv

LEMMA TakeIInv == ASSUME IInv, Take PROVE IInv'
<1> USE DEF IInv
<1>1. PICK f \in Free(gi + 1) :
        /\ Best(gi + 1, f)
        /\ gi + 1 \in Entries \ DOMAIN pairs /\ gi + 1 \in 1 .. gi'
        /\ DOMAIN pairs' = DOMAIN pairs \cup {gi + 1}
        /\ pairs'[gi + 1] = f
        /\ \A g \in DOMAIN pairs : pairs'[g] = pairs[g]
        /\ f_matched' = f_matched \cup {f}
  BY TakeAddsAPair
<1>2. /\ f \in Findings /\ f \notin f_matched
      /\ input' = input /\ gi' = gi + 1 /\ pc' = pc /\ pc = "matching"
      /\ gi < Len(input.gt) /\ true_positives' = true_positives + 1
      /\ UNCHANGED <<false_positives, false_negatives>>
  BY <1>1 DEF Free, Take
<1>3. TypeOK'
  BY <1>1, <1>2, InputTypes DEF TypeOK, Findings
<1>4. Held'
  <2>1. /\ IsFiniteSet(DOMAIN pairs \cup {gi + 1})
        /\ Cardinality(DOMAIN pairs \cup {gi + 1}) = true_positives + 1
    BY <1>1, FS_AddElement DEF Held
  <2>2. /\ IsFiniteSet(f_matched \cup {f})
        /\ Cardinality(f_matched \cup {f}) = true_positives + 1
    BY <1>2, FS_AddElement DEF Held
  <2> QED
    BY <1>1, <1>2, <2>1, <2>2 DEF Held
<1>5. EarlierEntriesChooseFirst'
  <2> SUFFICES ASSUME NEW g \in 1 .. (gi + 1), NEW h \in Findings, Suits(g, h)
               PROVE  \/ \E e \in DOMAIN pairs' : e < g /\ pairs'[e] = h
                      \/ g \in DOMAIN pairs' /\ Distance(g, pairs'[g]) <= Distance(g, h)
    BY <1>2 DEF EarlierEntriesChooseFirst, Findings, Suits, Distance
  <2>1. CASE g \in 1 .. gi
    BY <2>1, <1>1 DEF EarlierEntriesChooseFirst
  <2>2. CASE g = gi + 1 /\ h \in f_matched
    <3>1. PICK e \in DOMAIN pairs : pairs[e] = h
      BY <2>2 DEF f_matched
    <3>2. e < g
      BY <3>1, <2>2 DEF TypeOK
    <3> QED
      BY <3>1, <3>2, <1>1
  <2>3. CASE g = gi + 1 /\ h \notin f_matched
    <3>1. h \in Free(g)
      BY <2>3 DEF Free
    <3>2. Distance(g, f) < Distance(g, h) \/ Distance(g, f) = Distance(g, h)
      BY <3>1, <2>3, <1>1 DEF Best
    <3>3. Distance(g, f) \in Int /\ Distance(g, h) \in Int
      BY <1>1, <1>2, <2>3, DistanceIsInt
    <3> QED
      BY <3>2, <3>3, <2>3, <1>1
  <2> QED
    BY <2>1, <2>2, <2>3 DEF TypeOK
<1>6. AllChose' /\ CountsAddUp'
  BY <1>2 DEF AllChose, CountsAddUp
<1> QED
  BY <1>3, <1>4, <1>5, <1>6

LEMMA MissIInv == ASSUME IInv, Miss PROVE IInv'
<1> USE DEF IInv
<1>1. /\ gi' = gi + 1 /\ gi < Len(input.gt) /\ Free(gi + 1) = {} /\ pc = "matching"
      /\ UNCHANGED <<input, pairs, true_positives, false_positives, false_negatives, pc>>
  BY DEF Miss
<1>2. TypeOK'
  BY <1>1, InputTypes DEF TypeOK, Findings
<1>3. Held'
  BY <1>1 DEF Held, f_matched
<1>4. EarlierEntriesChooseFirst'
  <2> SUFFICES ASSUME NEW g \in 1 .. (gi + 1), NEW h \in Findings, Suits(g, h)
               PROVE  \/ \E e \in DOMAIN pairs : e < g /\ pairs[e] = h
                      \/ g \in DOMAIN pairs /\ Distance(g, pairs[g]) <= Distance(g, h)
    BY <1>1 DEF EarlierEntriesChooseFirst, Findings, Suits, Distance
  <2>1. CASE g \in 1 .. gi
    BY <2>1 DEF EarlierEntriesChooseFirst
  <2>2. CASE g = gi + 1
    <3>1. PICK e \in DOMAIN pairs : pairs[e] = h
      BY <1>1, <2>2 DEF Free, f_matched
    <3>2. e < g
      BY <2>2 DEF TypeOK
    <3> QED
      BY <3>1, <3>2
  <2> QED
    BY <2>1, <2>2 DEF TypeOK
<1>5. AllChose' /\ CountsAddUp'
  BY <1>1 DEF AllChose, CountsAddUp
<1> QED
  BY <1>2, <1>3, <1>4, <1>5

\* The rest of a finite set has the rest of its members.
LEMMA RestOf ==
  ASSUME NEW n \in Nat, NEW S, S \subseteq 1 .. n
  PROVE  /\ IsFiniteSet((1 .. n) \ S)
         /\ Cardinality((1 .. n) \ S) \in Nat
         /\ Cardinality((1 .. n) \ S) = n - Cardinality(S)
<1>1. IsFiniteSet(1 .. n) /\ Cardinality(1 .. n) = n
  BY FS_Interval
<1>2. (1 .. n) \cap S = S
  OBVIOUS
<1>3. /\ IsFiniteSet((1 .. n) \ S)
      /\ Cardinality((1 .. n) \ S) = Cardinality(1 .. n) - Cardinality((1 .. n) \cap S)
  BY <1>1, FS_Difference, Zenon
<1>4. Cardinality((1 .. n) \ S) = n - Cardinality(S)
  BY <1>1, <1>2, <1>3, Zenon
<1> QED
  BY <1>3, <1>4, FS_CardinalityType

LEMMA CountIInv == ASSUME IInv, Count PROVE IInv'
<1> USE DEF IInv
<1>1. /\ pc' = "done" /\ gi = Len(input.gt)
      /\ UNCHANGED <<input, gi, pairs, true_positives>>
      /\ false_positives' = Cardinality(Findings \ f_matched)
      /\ false_negatives' = Cardinality(Entries \ DOMAIN pairs)
  BY DEF Count
<1>2. f_matched \subseteq Findings /\ DOMAIN pairs \subseteq Entries
  BY <1>1, InputTypes DEF TypeOK, f_matched
<1>3. /\ false_positives' \in Nat /\ false_negatives' \in Nat
      /\ false_positives' = Len(input.findings) - true_positives
      /\ false_negatives' = Len(input.gt) - true_positives
  BY <1>1, <1>2, InputTypes, RestOf DEF Held
<1>4. TypeOK'
  BY <1>1, <1>3 DEF TypeOK, Findings
<1>5. Held' /\ EarlierEntriesChooseFirst' /\ AllChose'
  BY <1>1 DEF Held, f_matched, EarlierEntriesChooseFirst, Findings, Suits, Distance, AllChose
<1>6. CountsAddUp'
  BY <1>1, <1>3, InputTypes DEF CountsAddUp, TypeOK
<1> QED
  BY <1>4, <1>5, <1>6

LEMMA Invariance == Spec => []IInv
<1>1. IInv /\ UNCHANGED vars => IInv'
  BY DEF IInv, TypeOK, Held, AllChose, EarlierEntriesChooseFirst, CountsAddUp, vars, f_matched,
         Findings, Suits, Distance
<1>2. IInv /\ [Next]_vars => IInv'
  BY <1>1, TakeIInv, MissIInv, CountIInv DEF Next, Counted
<1> QED
  BY <1>2, InitIInv, PTL DEF Spec

(***************************************************************************)
(* The theorems.                                                           *)
(***************************************************************************)
\* Every behaviour keeps the pairing within the entries that have chosen.
THEOREM MetricsTyped == Spec => []TypeOK
BY Invariance, PTL DEF IInv

\* Whatever the lists are, the true positives, false positives and false
\* negatives that compute returns partition the findings and the entries.
THEOREM CountsAreAPartition == Spec => []CountsAddUp
BY Invariance, PTL DEF IInv

\* Whatever the lists are, an entry is denied a suitable and nearer finding
\* only by an entry before it.
THEOREM OrderOfTheFileDecides == Spec => []EarlierEntriesChooseFirst
BY Invariance, PTL DEF IInv

\* Whatever the lists are, the greedy loop of compute finds at least half as
\* many true positives as the best assignment: each pair of that assignment
\* has its entry or its finding in a pair of the loop.
THEOREM GreedyIsHalfOptimal == Spec => []AtLeastHalf
<1>1. IInv => AtLeastHalf
  <2> SUFFICES ASSUME IInv, pc = "done", NEW m \in Assignments, IsMatching(m)
               PROVE  Cardinality(DOMAIN m) <= 2 * true_positives
    BY DEF AtLeastHalf
  <2> USE DEF IInv
  <2> DEFINE E == {g \in DOMAIN m : m[g] \in f_matched}
  <2>1. m \in [DOMAIN m -> Findings] /\ DOMAIN m \subseteq Entries
    BY DEF Assignments
  <2>2. DOMAIN m \subseteq DOMAIN pairs \cup E
    <3> SUFFICES ASSUME NEW g \in DOMAIN m, g \notin DOMAIN pairs PROVE m[g] \in f_matched
      OBVIOUS
    <3>1. g \in 1 .. gi /\ m[g] \in Findings /\ Suits(g, m[g])
      BY <2>1, InputTypes DEF AllChose, IsMatching
    <3>2. PICK e \in DOMAIN pairs : pairs[e] = m[g]
      BY <3>1 DEF EarlierEntriesChooseFirst
    <3> QED
      BY <3>2 DEF f_matched
  <2>3. IsFiniteSet(E) /\ Cardinality(E) <= Cardinality(f_matched)
    <3> DEFINE h == [g \in E |-> m[g]]
    <3>1. h \in Injection(E, f_matched)
      BY DEF Injection, IsInjective, IsMatching
    <3> QED
      BY <3>1, FS_Injection DEF Held
  <2>4. /\ IsFiniteSet(DOMAIN pairs \cup E)
        /\ Cardinality(DOMAIN pairs \cup E) <= 2 * true_positives
    <3>1. /\ IsFiniteSet(DOMAIN pairs \cup E)
          /\ Cardinality(DOMAIN pairs \cup E)
               = Cardinality(DOMAIN pairs) + Cardinality(E) - Cardinality(DOMAIN pairs \cap E)
      BY <2>3, FS_Union DEF Held
    <3>2. Cardinality(DOMAIN pairs \cap E) \in Nat
      BY FS_Intersection, FS_CardinalityType DEF Held
    <3>3. Cardinality(E) \in Nat
      BY <2>3, FS_CardinalityType
    <3> HIDE DEF E
    <3> QED
      BY <3>1, <3>2, <3>3, <2>3 DEF Held, TypeOK
  <2>5. Cardinality(DOMAIN m) <= Cardinality(DOMAIN pairs \cup E) /\ Cardinality(DOMAIN m) \in Nat
    BY <2>2, <2>4, FS_Subset, FS_CardinalityType
  <2>6. Cardinality(DOMAIN pairs \cup E) \in Nat
    BY <2>4, FS_CardinalityType
  <2> HIDE DEF E
  <2> QED
    BY <2>4, <2>5, <2>6 DEF TypeOK
<1> QED
  BY <1>1, Invariance, PTL

-----------------------------------------------------------------------------
(* The database.  Between two documents the index is that of the entries; while *)
(* a document is merged it is an old one, and the invariant says that it still  *)
(* points at the entry a name's next definition has to replace.                 *)

\* The entries that merge_json has passed, and the named ones of them.
Passed ==
  {p \in Nat \X Nat : /\ p[1] \in 1 .. Len(docs) /\ p[2] \in 1 .. Len(docs[p[1]])
                      /\ p[1] < doc \/ (p[1] = doc /\ p[2] <= merged)}
Placements == {p \in Passed : At(p).name # NoName}

LoadTyped ==
  /\ docs \in Seq(Seq(Definition \cup {BadEntry}))
  /\ doc \in Nat \ {0} /\ doc <= Len(docs) + 1 /\ merged \in Nat
  /\ functions \in Seq(Definition)
  /\ loading \in {"idle", "merging", "failed", "done"}
  /\ loading \in {"idle", "done"} => merged = 0
  /\ loading \in {"merging", "failed"} => doc <= Len(docs) /\ merged <= Len(docs[doc])

EntriesAreMerged ==
  /\ \A p \in Passed : At(p) \in Definition
  /\ \A i \in DOMAIN functions : \E p \in Placements : functions[i] = At(p)
  /\ \A n \in DOMAIN index : /\ index[n] \in DOMAIN functions
                             /\ \E p \in Placements : n \in Carries(At(p))

LastNamed(n, i) ==
  /\ i \in DOMAIN functions /\ functions[i].name = n
  /\ \A j \in DOMAIN functions : functions[j].name = n => j <= i

Newest(p) == \A q \in Placements : At(q).name = At(p).name => ~Later(q, p)

PrivateSoFar ==
  \A p, q \in Placements : At(p).name \in At(q).aliases => At(p).name = At(q).name

NewestIsLast ==
  PrivateSoFar => \A p \in Placements :
    /\ Newest(p) => \E i \in DOMAIN functions : LastNamed(At(p).name, i) /\ functions[i] = At(p)
    /\ At(p).name \in DOMAIN index => LastNamed(At(p).name, index[At(p).name])

DatabaseInv == LoadTyped /\ EntriesAreMerged /\ NewestIsLast /\ IndexIsTrue

\* A set of positions that is not empty has a last one.
LEMMA LastPosition ==
  ASSUME NEW s, NEW n \in Nat, DOMAIN s = 1 .. n, NEW T, T \subseteq DOMAIN s, T # {}
  PROVE  \E m \in T : \A k \in T : k <= m
<1> DEFINE U == {k \in 0 .. n : n - k \in T}
<1>1. U \subseteq Nat /\ U # {}
  <2>1. PICK t \in T : TRUE
    OBVIOUS
  <2>2. t \in 1 .. n
    BY <2>1
  <2>3. n - t \in 0 .. n /\ n - (n - t) = t
    BY <2>2
  <2> QED BY <2>3
<1>2. PICK m \in U : \A k \in U : m <= k
  BY <1>1, LeastNat
<1>3. n - m \in T
  BY <1>2
<1>4. ASSUME NEW k \in T PROVE k <= n - m
  <2>1. k \in 1 .. n
    OBVIOUS
  <2>2. n - k \in 0 .. n /\ n - (n - k) = k
    BY <2>1
  <2>3. n - k \in U
    BY <2>2
  <2>4. m <= n - k /\ m \in 0 .. n
    BY <1>2, <2>3
  <2> QED BY <2>1, <2>4
<1> QED BY <1>3, <1>4

\* rebuild_index keeps of a name the last entry that carries it.
LEMMA IndexIsLast ==
  ASSUME NEW fs \in Seq(Definition), NEW n \in NamesIn(fs)
  PROVE  /\ n \in DOMAIN IndexOf(fs)
         /\ IndexOf(fs)[n] \in DOMAIN fs /\ n \in Carries(fs[IndexOf(fs)[n]])
         /\ \A j \in DOMAIN fs : n \in Carries(fs[j]) => j <= IndexOf(fs)[n]
<1> DEFINE T == {i \in DOMAIN fs : n \in Carries(fs[i])}
<1>1. T \subseteq DOMAIN fs /\ T # {}
  BY DEF NamesIn
<1>0. DOMAIN fs = 1 .. Len(fs) /\ Len(fs) \in Nat
  OBVIOUS
<1>2. \E m \in T : \A k \in T : k <= m
  <2> HIDE DEF T
  <2> QED BY <1>0, <1>1, LastPosition
<1>6. PICK m \in T : \A k \in T : k <= m
  BY <1>2
<1>3. n \in Carries(fs[m]) /\ \A j \in DOMAIN fs : n \in Carries(fs[j]) => j <= m
  BY <1>6
<1>4. m \in DOMAIN fs
  BY <1>6
<1> HIDE DEF T
<1>5. IndexOf(fs)[n] = CHOOSE i \in DOMAIN fs :
        n \in Carries(fs[i]) /\ \A j \in DOMAIN fs : n \in Carries(fs[j]) => j <= i
  BY DEF IndexOf
<1> QED BY <1>3, <1>4, <1>5 DEF IndexOf

LEMMA LoadStarts == LoadInit => DatabaseInv
<1> SUFFICES ASSUME LoadInit PROVE DatabaseInv
  OBVIOUS
<1>1. docs \in Seq(Seq(Definition \cup {BadEntry}))
  BY DatabaseConstants DEF LoadInit
<1>2. LoadTyped
  BY <1>1 DEF LoadInit, LoadTyped
<1>3. Passed = {} /\ DOMAIN functions = {} /\ DOMAIN index = {}
  BY DEF LoadInit, Passed
<1>4. EntriesAreMerged /\ NewestIsLast
  BY <1>3 DEF EntriesAreMerged, NewestIsLast, Placements
<1>5. NamesIn(functions) = {}
  BY <1>3 DEF NamesIn
<1> QED BY <1>2, <1>3, <1>4, <1>5 DEF DatabaseInv, IndexIsTrue

\* A step that passes no entry and leaves functions and index keeps what is said of them.
LEMMA QuietLoadKeeps ==
  ASSUME DatabaseInv, LoadTyped', UNCHANGED <<docs, doc, merged, functions, index>>,
         loading' \in {"idle", "done"} => loading \in {"idle", "done"}
  PROVE  DatabaseInv'
<1>1. Passed' = Passed /\ \A p : At(p)' = At(p)
  BY DEF Passed, At
<1>2. Placements' = Placements
  BY <1>1 DEF Placements
<1>3. EntriesAreMerged'
  BY <1>1, <1>2 DEF DatabaseInv, EntriesAreMerged
<1>4. NewestIsLast'
  <2>1. \A p : Newest(p)' = Newest(p)
    BY <1>1, <1>2 DEF Newest
  <2>2. PrivateSoFar' = PrivateSoFar
    BY <1>1, <1>2 DEF PrivateSoFar
  <2>3. \A n, i : LastNamed(n, i)' = LastNamed(n, i)
    BY DEF LastNamed
  <2> QED BY <1>1, <1>2, <2>1, <2>2, <2>3 DEF DatabaseInv, NewestIsLast
<1>5. IndexIsTrue'
  BY DEF DatabaseInv, IndexIsTrue
<1> QED BY <1>3, <1>4, <1>5 DEF DatabaseInv

LEMMA StartDocumentKeeps == ASSUME DatabaseInv, StartDocument PROVE DatabaseInv'
<1>1. Len(docs[doc]) \in Nat /\ LoadTyped'
  <2>1. docs[doc] \in Seq(Definition \cup {BadEntry})
    BY DEF DatabaseInv, LoadTyped, StartDocument
  <2>2. Len(docs[doc]) \in Nat
    BY <2>1
  <2> QED BY <2>2 DEF DatabaseInv, LoadTyped, StartDocument
<1> QED BY <1>1, QuietLoadKeeps DEF StartDocument

LEMMA MergeStopsKeeps == ASSUME DatabaseInv, MergeStops PROVE DatabaseInv'
<1>1. LoadTyped'
  BY DEF DatabaseInv, LoadTyped, MergeStops
<1> QED BY <1>1, QuietLoadKeeps DEF MergeStops

LEMMA AllLoadedKeeps == ASSUME DatabaseInv, AllLoaded PROVE DatabaseInv'
<1>1. LoadTyped'
  BY DEF DatabaseInv, LoadTyped, AllLoaded
<1> QED BY <1>1, QuietLoadKeeps DEF AllLoaded

LEMMA LoadStutterKeeps == ASSUME DatabaseInv, UNCHANGED database PROVE DatabaseInv'
<1>1. LoadTyped'
  BY DEF DatabaseInv, LoadTyped, database
<1> QED BY <1>1, QuietLoadKeeps DEF database

\* The end of a document: its entries are all passed, and the index is that of
\* functions again.
LEMMA FinishDocumentKeeps == ASSUME DatabaseInv, FinishDocument PROVE DatabaseInv'
<1>1. docs[doc] \in Seq(Definition \cup {BadEntry}) /\ Len(docs[doc]) \in Nat
  BY DEF DatabaseInv, LoadTyped, FinishDocument
<1>2. LoadTyped'
  BY <1>1 DEF DatabaseInv, LoadTyped, FinishDocument
<1>3. Passed' = Passed /\ \A p : At(p)' = At(p)
  <2>1. doc \in Nat /\ docs' = docs /\ doc' = doc + 1 /\ merged' = 0 /\ merged = Len(docs[doc])
    BY DEF DatabaseInv, LoadTyped, FinishDocument
  <2>2. ASSUME NEW p \in Nat \X Nat, p[2] \in 1 .. Len(docs[p[1]])
        PROVE  (p[1] < doc \/ (p[1] = doc /\ p[2] <= merged))
                 <=> (p[1] < doc' \/ (p[1] = doc' /\ p[2] <= merged'))
    <3>1. p[1] \in Nat /\ p[2] \in Nat /\ p[2] >= 1
      BY <2>2
    <3>2. p[1] = doc => p[2] <= merged
      BY <1>1, <2>1, <2>2
    <3> QED BY <2>1, <3>1, <3>2
  <2>3. Passed' = Passed
    BY <2>1, <2>2 DEF Passed
  <2> QED BY <2>1, <2>3 DEF At
<1>4. Placements' = Placements /\ functions' = functions /\ index' = IndexOf(functions)
  BY <1>3 DEF Placements, FinishDocument
<1>5. functions \in Seq(Definition)
  BY DEF DatabaseInv, LoadTyped
<1>6. DOMAIN index' = NamesIn(functions)
  BY <1>4 DEF IndexOf
<1>7. ASSUME NEW n \in DOMAIN index'
      PROVE  /\ index'[n] \in DOMAIN functions /\ n \in Carries(functions[index'[n]])
             /\ \A j \in DOMAIN functions : n \in Carries(functions[j]) => j <= index'[n]
  BY <1>4, <1>5, <1>6, IndexIsLast
<1>8. EntriesAreMerged'
  <2>1. ASSUME NEW n \in DOMAIN index' PROVE \E p \in Placements : n \in Carries(At(p))
    BY <1>7 DEF DatabaseInv, EntriesAreMerged
  <2> QED BY <1>3, <1>4, <1>7, <2>1 DEF DatabaseInv, EntriesAreMerged
<1>9. NewestIsLast'
  <2> SUFFICES ASSUME PrivateSoFar', NEW p \in Placements'
               PROVE  /\ Newest(p)' => \E i \in DOMAIN functions' :
                                         LastNamed(At(p).name, i)' /\ functions'[i] = At(p)'
                      /\ At(p)'.name \in DOMAIN index' => LastNamed(At(p).name, index[At(p).name])'
    BY DEF NewestIsLast
  <2>1. p \in Placements /\ PrivateSoFar /\ Newest(p)' = Newest(p) /\ At(p)' = At(p)
    BY <1>3, <1>4 DEF PrivateSoFar, Newest
  <2>2. \A n, i : LastNamed(n, i)' = (/\ i \in DOMAIN functions /\ functions[i].name = n
                                     /\ \A j \in DOMAIN functions : functions[j].name = n => j <= i)
    BY <1>4 DEF LastNamed
  <2>3. Newest(p) => \E i \in DOMAIN functions : LastNamed(At(p).name, i) /\ functions[i] = At(p)
    BY <2>1 DEF DatabaseInv, NewestIsLast
  <2>4. ASSUME At(p).name \in DOMAIN index'
        PROVE  LET i == index'[At(p).name]
               IN  /\ i \in DOMAIN functions /\ functions[i].name = At(p).name
                   /\ \A j \in DOMAIN functions : functions[j].name = At(p).name => j <= i
    <3>1. PICK i : i = index'[At(p).name]
      OBVIOUS
    <3>2. /\ i \in DOMAIN functions /\ At(p).name \in Carries(functions[i])
          /\ \A j \in DOMAIN functions : At(p).name \in Carries(functions[j]) => j <= i
      BY <1>7, <2>4, <3>1
    <3>3. PICK q \in Placements : functions[i] = At(q)
      BY <3>2 DEF DatabaseInv, EntriesAreMerged
    <3>4. functions[i].name = At(p).name
      BY <2>1, <3>2, <3>3 DEF Carries, PrivateSoFar
    <3>5. \A j \in DOMAIN functions : functions[j].name = At(p).name => j <= i
      BY <3>2 DEF Carries
    <3> QED BY <3>1, <3>2, <3>4, <3>5
  <2>5. At(p)'.name \in DOMAIN index' => LastNamed(At(p).name, index[At(p).name])'
    BY <2>1, <2>2, <2>4
  <2>6. \A i : LastNamed(At(p).name, i)' = LastNamed(At(p).name, i)
    BY <2>1, <2>2 DEF LastNamed
  <2> QED BY <1>4, <2>1, <2>3, <2>5, <2>6
<1>10. IndexIsTrue'
  BY <1>4, <1>6, <1>7 DEF IndexIsTrue
<1> QED BY <1>2, <1>8, <1>9, <1>10 DEF DatabaseInv

\* An entry is passed.  Only a named one is placed.
LEMMA PassOne ==
  ASSUME DatabaseInv, MergeEntry, NEW e, e = docs[doc][merged + 1]
  PROVE  /\ e \in Definition /\ LoadTyped' /\ loading' = "merging"
         /\ \A p : At(p)' = At(p)
         /\ At(<<doc, merged + 1>>) = e
         /\ Passed' = Passed \cup {<<doc, merged + 1>>}
         /\ \A p \in Passed : Later(<<doc, merged + 1>>, p)
<1>1. /\ docs \in Seq(Seq(Definition \cup {BadEntry})) /\ doc \in Nat \ {0} /\ doc <= Len(docs)
      /\ merged \in Nat /\ functions \in Seq(Definition) /\ loading = "merging"
      /\ merged < Len(docs[doc]) /\ e # BadEntry /\ functions' = Placed(e) /\ merged' = merged + 1
      /\ docs' = docs /\ doc' = doc /\ index' = index /\ loading' = loading
  BY DEF DatabaseInv, LoadTyped, MergeEntry
<1>2. docs[doc] \in Seq(Definition \cup {BadEntry}) /\ Len(docs[doc]) \in Nat /\ Len(docs) \in Nat
  BY <1>1
<1>3. e \in Definition
  BY <1>1, <1>2
<1>4. Placed(e) \in Seq(Definition)
  <2>1. CASE e.name \in DOMAIN index
    <3>1. index[e.name] \in DOMAIN functions
      BY <2>1 DEF DatabaseInv, EntriesAreMerged
    <3> QED BY <1>1, <1>3, <2>1, <3>1 DEF Placed
  <2>2. CASE e.name \notin DOMAIN index
    BY <1>1, <1>3, <2>2 DEF Placed
  <2> QED BY <2>1, <2>2
<1>5. LoadTyped'
  BY <1>1, <1>2, <1>4 DEF LoadTyped
<1>6. Passed' = Passed \cup {<<doc, merged + 1>>}
  <2>1. Passed' \subseteq Passed \cup {<<doc, merged + 1>>}
    <3> SUFFICES ASSUME NEW p \in Passed', p \notin Passed PROVE p = <<doc, merged + 1>>
      OBVIOUS
    <3>1. p \in Nat \X Nat /\ p[1] \in 1 .. Len(docs) /\ p[2] \in 1 .. Len(docs[p[1]])
      BY <1>1 DEF Passed
    <3>2. p[1] < doc \/ (p[1] = doc /\ p[2] <= merged + 1)
      BY <1>1 DEF Passed
    <3>3. ~(p[1] < doc \/ (p[1] = doc /\ p[2] <= merged))
      BY <3>1 DEF Passed
    <3>4. p[1] = doc /\ p[2] = merged + 1
      BY <1>1, <3>1, <3>2, <3>3
    <3> QED BY <3>1, <3>4
  <2>2. Passed \subseteq Passed'
    <3> SUFFICES ASSUME NEW p \in Passed PROVE p \in Passed'
      OBVIOUS
    <3>1. p \in Nat \X Nat /\ p[1] \in 1 .. Len(docs) /\ p[2] \in 1 .. Len(docs[p[1]])
      BY DEF Passed
    <3>2. p[1] < doc \/ (p[1] = doc /\ p[2] <= merged)
      BY DEF Passed
    <3>3. p[1] < doc \/ (p[1] = doc /\ p[2] <= merged + 1)
      BY <1>1, <3>1, <3>2
    <3> QED BY <1>1, <3>1, <3>3 DEF Passed
  <2>3. <<doc, merged + 1>> \in Passed'
    <3>1. doc \in 1 .. Len(docs) /\ merged + 1 \in 1 .. Len(docs[doc]) /\ merged + 1 \in Nat
      BY <1>1, <1>2
    <3> QED BY <1>1, <3>1 DEF Passed
  <2> QED BY <2>1, <2>2, <2>3
<1>7. ASSUME NEW p \in Passed PROVE Later(<<doc, merged + 1>>, p)
  <2>1. p[1] \in Nat /\ p[2] \in Nat /\ (p[1] < doc \/ (p[1] = doc /\ p[2] <= merged))
    BY DEF Passed
  <2>2. doc > p[1] \/ (doc = p[1] /\ merged + 1 > p[2])
    BY <1>1, <2>1
  <2> QED BY <2>2 DEF Later
<1> QED BY <1>1, <1>3, <1>5, <1>6, <1>7 DEF At

\* An entry without a name changes nothing.
LEMMA SkippedEntryKeeps ==
  ASSUME DatabaseInv, MergeEntry, docs[doc][merged + 1].name = NoName
  PROVE  DatabaseInv'
<1> DEFINE e == docs[doc][merged + 1]
           new == <<doc, merged + 1>>
<1>1. /\ e \in Definition /\ LoadTyped' /\ loading' = "merging" /\ \A p : At(p)' = At(p)
      /\ At(new) = e /\ Passed' = Passed \cup {new}
  BY PassOne
<1>2. functions' = functions /\ index' = index
  BY DEF MergeEntry, Placed
<1>3. Placements' = Placements
  BY <1>1 DEF Placements
<1>4. EntriesAreMerged'
  BY <1>1, <1>2, <1>3 DEF DatabaseInv, EntriesAreMerged
<1>5. NewestIsLast'
  <2>1. \A p : Newest(p)' = Newest(p)
    BY <1>1, <1>3 DEF Newest, Later
  <2>2. PrivateSoFar' = PrivateSoFar
    BY <1>1, <1>3 DEF PrivateSoFar
  <2>3. \A n, i : LastNamed(n, i)' = LastNamed(n, i)
    BY <1>2 DEF LastNamed
  <2> QED BY <1>1, <1>2, <1>3, <2>1, <2>2, <2>3 DEF DatabaseInv, NewestIsLast
<1> QED BY <1>1, <1>4, <1>5 DEF DatabaseInv, IndexIsTrue

\* A name the index does not have: the entry goes to the end.
LEMMA NewNameKeeps ==
  ASSUME DatabaseInv, MergeEntry, docs[doc][merged + 1].name # NoName,
         docs[doc][merged + 1].name \notin DOMAIN index
  PROVE  DatabaseInv'
<1> DEFINE new == <<doc, merged + 1>>
<1>0. PICK e : e = docs[doc][merged + 1]
  OBVIOUS
<1>1. /\ e \in Definition /\ LoadTyped' /\ loading' = "merging" /\ \A p : At(p)' = At(p)
      /\ At(new) = e /\ Passed' = Passed \cup {new} /\ \A p \in Passed : Later(new, p)
  BY <1>0, PassOne
<1>2. functions' = Append(functions, e) /\ index' = index /\ e.name # NoName /\ e.name \notin DOMAIN index
  BY <1>0 DEF MergeEntry, Placed
<1>3. Placements' = Placements \cup {new}
  BY <1>1, <1>2 DEF Placements
<1>4. functions \in Seq(Definition)
  BY DEF DatabaseInv, LoadTyped
<1>5. PICK n : n = Len(functions) + 1 /\ n \in Nat
  BY <1>4
<1>6. /\ DOMAIN functions' = DOMAIN functions \cup {n} /\ functions'[n] = e
      /\ \A i \in DOMAIN functions : functions'[i] = functions[i] /\ i < n /\ i \in Nat
  BY <1>1, <1>2, <1>4, <1>5
<1>7. EntriesAreMerged'
  <2>1. \A p \in Passed' : At(p)' \in Definition
    BY <1>1 DEF DatabaseInv, EntriesAreMerged
  <2>2. \A i \in DOMAIN functions' : \E p \in Placements' : functions'[i] = At(p)'
    BY <1>1, <1>3, <1>6 DEF DatabaseInv, EntriesAreMerged
  <2>3. \A m \in DOMAIN index' : /\ index'[m] \in DOMAIN functions'
                                 /\ \E p \in Placements' : m \in Carries(At(p)')
    BY <1>1, <1>2, <1>3, <1>6 DEF DatabaseInv, EntriesAreMerged
  <2> QED BY <2>1, <2>2, <2>3 DEF EntriesAreMerged
<1>8. NewestIsLast'
  <2> SUFFICES ASSUME PrivateSoFar', NEW p \in Placements'
               PROVE  /\ Newest(p)' => \E i \in DOMAIN functions' :
                                         LastNamed(At(p).name, i)' /\ functions'[i] = At(p)'
                      /\ At(p)'.name \in DOMAIN index' => LastNamed(At(p).name, index[At(p).name])'
    BY DEF NewestIsLast
  <2>1. PrivateSoFar
    BY <1>1, <1>3 DEF PrivateSoFar
  <2>2. \A m, i : m # e.name /\ LastNamed(m, i) => LastNamed(m, i)'
    BY <1>6 DEF LastNamed
  <2>3. LastNamed(e.name, n)'
    BY <1>5, <1>6 DEF LastNamed
  <2>4. CASE p \in Placements /\ At(p).name # e.name
    <3>1. Newest(p)' => Newest(p)
      BY <1>1, <1>3 DEF Newest, Later
    <3>2. /\ Newest(p) => \E i \in DOMAIN functions : LastNamed(At(p).name, i) /\ functions[i] = At(p)
          /\ At(p).name \in DOMAIN index => LastNamed(At(p).name, index[At(p).name])
      BY <2>1, <2>4 DEF DatabaseInv, NewestIsLast
    <3>3. Newest(p)' => \E i \in DOMAIN functions' : LastNamed(At(p).name, i)' /\ functions'[i] = At(p)'
      <4> SUFFICES ASSUME Newest(p)'
                   PROVE  \E i \in DOMAIN functions' : LastNamed(At(p).name, i)' /\ functions'[i] = At(p)'
        OBVIOUS
      <4>1. PICK i \in DOMAIN functions : LastNamed(At(p).name, i) /\ functions[i] = At(p)
        BY <3>1, <3>2
      <4>2. LastNamed(At(p).name, i)'
        <5>1. PICK m : m = At(p).name
          OBVIOUS
        <5>2. LastNamed(m, i)'
          BY <2>2, <2>4, <4>1, <5>1
        <5> QED BY <1>1, <5>1, <5>2 DEF LastNamed
      <4> QED BY <1>1, <1>6, <4>1, <4>2
    <3>4. At(p)'.name \in DOMAIN index' => LastNamed(At(p).name, index[At(p).name])'
      <4> SUFFICES ASSUME At(p)'.name \in DOMAIN index' PROVE LastNamed(At(p).name, index[At(p).name])'
        OBVIOUS
      <4>1. PICK m : m = At(p).name
        OBVIOUS
      <4>2. PICK i : i = index[m]
        OBVIOUS
      <4>3. LastNamed(m, i)'
        BY <1>1, <1>2, <2>2, <2>4, <3>2, <4>1, <4>2
      <4> QED BY <1>1, <1>2, <4>1, <4>2, <4>3 DEF LastNamed
    <3> QED BY <3>3, <3>4
  <2>5. CASE At(p).name = e.name
    <3>1. Newest(p)' => p = new
      <4>1. p \in Passed => Later(new, p)
        BY <1>1
      <4>2. Newest(p)' => ~Later(new, p)
        BY <1>1, <1>3, <2>5 DEF Newest, Later
      <4> QED BY <1>3, <4>1, <4>2 DEF Placements
    <3>2. Newest(p)' => \E i \in DOMAIN functions' : LastNamed(At(p).name, i)' /\ functions'[i] = At(p)'
      <4> SUFFICES ASSUME Newest(p)'
                   PROVE  LastNamed(At(p).name, n)' /\ functions'[n] = At(p)'
        BY <1>6
      <4> QED BY <1>1, <1>6, <2>3, <2>5, <3>1 DEF LastNamed
    <3> QED BY <1>1, <1>2, <2>5, <3>2
  <2> QED BY <1>1, <1>3, <2>4, <2>5
<1> QED BY <1>1, <1>7, <1>8 DEF DatabaseInv, IndexIsTrue

\* A name the index has: the entry replaces the one the index points at.  It is the
\* last of that name, or the name is another entry's alias.
LEMMA KnownNameKeeps ==
  ASSUME DatabaseInv, MergeEntry, docs[doc][merged + 1].name # NoName,
         docs[doc][merged + 1].name \in DOMAIN index
  PROVE  DatabaseInv'
<1> DEFINE new == <<doc, merged + 1>>
<1>0. PICK e, at : e = docs[doc][merged + 1] /\ at = index[e.name]
  OBVIOUS
<1>1. /\ e \in Definition /\ LoadTyped' /\ loading' = "merging" /\ \A p : At(p)' = At(p)
      /\ At(new) = e /\ Passed' = Passed \cup {new} /\ \A p \in Passed : Later(new, p)
  BY <1>0, PassOne
<1>2. /\ functions' = [functions EXCEPT ![at] = e] /\ index' = index
      /\ e.name # NoName /\ e.name \in DOMAIN index /\ at \in DOMAIN functions
  BY <1>0 DEF MergeEntry, Placed, DatabaseInv, EntriesAreMerged
<1>3. Placements' = Placements \cup {new}
  BY <1>1, <1>2 DEF Placements
<1>4. /\ DOMAIN functions' = DOMAIN functions /\ functions'[at] = e
      /\ \A i \in DOMAIN functions : i # at => functions'[i] = functions[i]
  BY <1>2 DEF DatabaseInv, LoadTyped
<1>5. EntriesAreMerged'
  <2>1. \A p \in Passed' : At(p)' \in Definition
    BY <1>1 DEF DatabaseInv, EntriesAreMerged
  <2>2. \A i \in DOMAIN functions' : \E p \in Placements' : functions'[i] = At(p)'
    BY <1>1, <1>3, <1>4 DEF DatabaseInv, EntriesAreMerged
  <2>3. \A m \in DOMAIN index' : /\ index'[m] \in DOMAIN functions'
                                 /\ \E p \in Placements' : m \in Carries(At(p)')
    BY <1>1, <1>2, <1>3, <1>4 DEF DatabaseInv, EntriesAreMerged
  <2> QED BY <2>1, <2>2, <2>3 DEF EntriesAreMerged
<1>6. NewestIsLast'
  <2> SUFFICES ASSUME PrivateSoFar', NEW p \in Placements'
               PROVE  /\ Newest(p)' => \E i \in DOMAIN functions' :
                                         LastNamed(At(p).name, i)' /\ functions'[i] = At(p)'
                      /\ At(p)'.name \in DOMAIN index' => LastNamed(At(p).name, index[At(p).name])'
    BY DEF NewestIsLast
  <2>1. PrivateSoFar
    BY <1>1, <1>3 DEF PrivateSoFar
  <2>2. PICK q \in Placements : At(q).name = e.name
    <3>1. PICK q \in Placements : e.name \in Carries(At(q))
      BY <1>2 DEF DatabaseInv, EntriesAreMerged
    <3>2. e.name \in At(q).aliases => e.name = At(q).name
      BY <1>1, <1>3 DEF PrivateSoFar
    <3> QED BY <3>1, <3>2 DEF Carries
  <2>3. LastNamed(e.name, at)
    <3>1. At(q).name \in DOMAIN index => LastNamed(At(q).name, index[At(q).name])
      BY <2>1 DEF DatabaseInv, NewestIsLast
    <3> QED BY <1>0, <1>2, <2>2, <3>1
  <2>4. \A i \in DOMAIN functions : functions'[i].name = functions[i].name
    BY <1>4, <2>3 DEF LastNamed
  <2>5. \A m, i : LastNamed(m, i)' = LastNamed(m, i)
    BY <1>4, <2>4 DEF LastNamed
  <2>6. Newest(p)' => \E i \in DOMAIN functions' : LastNamed(At(p).name, i)' /\ functions'[i] = At(p)'
    <3> SUFFICES ASSUME Newest(p)'
                 PROVE  \E i \in DOMAIN functions' : LastNamed(At(p).name, i)' /\ functions'[i] = At(p)'
      OBVIOUS
    <3>1. CASE At(p).name = e.name
      <4>1. p = new
        <5>1. p \in Passed => Later(new, p)
          BY <1>1
        <5>2. ~Later(new, p)
          BY <1>1, <1>3, <3>1 DEF Newest, Later
        <5> QED BY <1>3, <5>1, <5>2 DEF Placements
      <4>2. LastNamed(At(p).name, at)'
        <5>1. PICK m : m = At(p).name
          OBVIOUS
        <5>2. LastNamed(m, at)'
          BY <2>3, <2>5, <3>1, <5>1
        <5> QED BY <1>1, <5>1, <5>2 DEF LastNamed
      <4> QED BY <1>1, <1>2, <1>4, <4>1, <4>2
    <3>2. CASE At(p).name # e.name
      <4>1. p \in Placements
        BY <1>1, <1>3, <3>2
      <4>2. Newest(p)
        BY <1>1, <1>3 DEF Newest, Later
      <4>3. PICK i \in DOMAIN functions : LastNamed(At(p).name, i) /\ functions[i] = At(p)
        BY <2>1, <4>1, <4>2 DEF DatabaseInv, NewestIsLast
      <4>4. i # at
        BY <2>3, <3>2, <4>3 DEF LastNamed
      <4>5. LastNamed(At(p).name, i)'
        <5>1. PICK m : m = At(p).name
          OBVIOUS
        <5>2. LastNamed(m, i)'
          BY <2>5, <4>3, <5>1
        <5> QED BY <1>1, <5>1, <5>2 DEF LastNamed
      <4> QED BY <1>1, <1>4, <4>3, <4>4, <4>5
    <3> QED BY <3>1, <3>2
  <2>7. At(p)'.name \in DOMAIN index' => LastNamed(At(p).name, index[At(p).name])'
    <3> SUFFICES ASSUME At(p).name \in DOMAIN index PROVE LastNamed(At(p).name, index[At(p).name])'
      BY <1>1, <1>2
    <3>1. PICK m, i : m = At(p).name /\ i = index[m]
      OBVIOUS
    <3>2. LastNamed(m, i)
      <4>1. PICK r \in Placements : At(r).name = m
        BY <1>1, <1>3, <2>2, <3>1
      <4>2. At(r).name \in DOMAIN index => LastNamed(At(r).name, index[At(r).name])
        BY <2>1 DEF DatabaseInv, NewestIsLast
      <4> QED BY <3>1, <4>1, <4>2
    <3>3. LastNamed(m, i)'
      BY <2>5, <3>2
    <3> QED BY <1>1, <1>2, <3>1, <3>3 DEF LastNamed
  <2> QED BY <2>6, <2>7
<1> QED BY <1>1, <1>5, <1>6 DEF DatabaseInv, IndexIsTrue

LEMMA LoadKeeps == DatabaseInv /\ [LoadNext]_database => DatabaseInv'
<1> SUFFICES ASSUME DatabaseInv, [LoadNext]_database PROVE DatabaseInv'
  OBVIOUS
<1>1. CASE StartDocument
  BY <1>1, StartDocumentKeeps
<1>2. CASE MergeEntry
  BY <1>2, SkippedEntryKeeps, NewNameKeeps, KnownNameKeeps
<1>3. CASE MergeStops
  BY <1>3, MergeStopsKeeps
<1>4. CASE FinishDocument
  BY <1>4, FinishDocumentKeeps
<1>5. CASE AllLoaded
  BY <1>5, AllLoadedKeeps
<1>6. CASE Stopped \/ UNCHANGED database
  BY <1>6, LoadStutterKeeps DEF Stopped
<1> QED BY <1>1, <1>2, <1>3, <1>4, <1>5, <1>6 DEF LoadNext

\* Between two documents the last entry of a name is where the index points.
LEMMA DatabaseInvSuffices == DatabaseInv => NamesFindTheLast
<1> SUFFICES ASSUME DatabaseInv PROVE NamesFindTheLast
  OBVIOUS
<1>1. ASSUME loading \in {"idle", "done"}, AliasesPrivate, NEW p \in MergedAt,
             \A q \in MergedAt : At(q).name = At(p).name => ~Later(q, p)
      PROVE  Finds(At(p).name, At(p))
  <2>1. doc \in Nat /\ doc <= Len(docs) + 1 /\ merged = 0 /\ Len(docs) \in Nat
        /\ docs \in Seq(Seq(Definition \cup {BadEntry}))
    BY <1>1 DEF DatabaseInv, LoadTyped
  <2>2. ASSUME NEW q PROVE q \in MergedAt <=> q \in Placements
    <3>1. ASSUME q \in MergedAt PROVE q \in Placements
      <4>1. PICK d \in 1 .. doc - 1 : q \in {d} \X DOMAIN docs[d]
        BY <3>1 DEF MergedAt
      <4>2. d \in 1 .. Len(docs) /\ d < doc /\ d \in Nat
        BY <2>1
      <4>3. docs[d] \in Seq(Definition \cup {BadEntry})
        BY <2>1, <4>2
      <4>4. q[1] = d /\ q[2] \in 1 .. Len(docs[d]) /\ q \in Nat \X Nat
        BY <4>1, <4>2, <4>3
      <4> QED BY <3>1, <4>2, <4>4 DEF MergedAt, Placements, Passed, At
    <3>2. ASSUME q \in Placements PROVE q \in MergedAt
      <4>1. /\ q \in Nat \X Nat /\ q[1] \in 1 .. Len(docs) /\ q[2] \in 1 .. Len(docs[q[1]])
            /\ (q[1] < doc \/ (q[1] = doc /\ q[2] <= 0)) /\ At(q).name # NoName
        BY <2>1, <3>2 DEF Placements, Passed
      <4>2. q[1] \in 1 .. doc - 1
        BY <2>1, <4>1
      <4>3. docs[q[1]] \in Seq(Definition \cup {BadEntry})
        BY <2>1, <4>1
      <4>4. q \in {q[1]} \X DOMAIN docs[q[1]]
        BY <4>1, <4>3
      <4> QED BY <4>1, <4>2, <4>4 DEF MergedAt, At
    <3> QED BY <3>1, <3>2
  <2>3. MergedAt = Placements
    BY <2>2
  <2>4. PrivateSoFar /\ Newest(p) /\ p \in Placements
    BY <1>1, <2>3 DEF AliasesPrivate, PrivateSoFar, Newest
  <2>5. PICK i \in DOMAIN functions : LastNamed(At(p).name, i) /\ functions[i] = At(p)
    BY <2>4 DEF DatabaseInv, NewestIsLast
  <2>6. At(p).name \in DOMAIN index
    <3>1. At(p).name \in NamesIn(functions)
      BY <2>5 DEF NamesIn, Carries
    <3> QED BY <1>1, <3>1 DEF DatabaseInv, IndexIsTrue
  <2>7. LastNamed(At(p).name, index[At(p).name])
    BY <2>4, <2>6 DEF DatabaseInv, NewestIsLast
  <2>8. index[At(p).name] = i
    <3>1. DOMAIN functions \subseteq Nat
      BY DEF DatabaseInv, LoadTyped
    <3> QED BY <2>5, <2>7, <3>1 DEF LastNamed
  <2> QED BY <2>5, <2>6, <2>8 DEF Finds
<1> QED BY <1>1 DEF NamesFindTheLast, LastDefinitionWins, DatabaseInv

\* Whatever documents are merged in whatever order, a name is answered with its last
\* definition (NamesFindTheLast, of merge_json, rebuild_index and find_by_name).
THEOREM NamesAreFound == LoadSpec => []NamesFindTheLast
<1>1. LoadSpec => []DatabaseInv
  BY LoadStarts, LoadKeeps, PTL DEF LoadSpec
<1> QED BY <1>1, DatabaseInvSuffices, PTL

-----------------------------------------------------------------------------
(* The risk assessor.  The loops over the plan each have done their work for    *)
(* what lies behind the cursor; the plan is the scored findings in an order     *)
(* that a permutation gives.                                                    *)

N == Len(findings)

ScoresAreOfTheFindings ==
  /\ findings \in Seq(FindingType)
  /\ assessing \in {"score", "sort", "count", "files", "overall", "done"}
  /\ scored \in Seq(Nat \X Nat) /\ Len(scored) <= N
  /\ \A i \in 1 .. Len(scored) : scored[i] = <<i, Score(findings[i])>>
  /\ assessing # "score" => Len(scored) = N

\* The finding that an action of the plan is of.
IsOrder(order) ==
  /\ order \in [1 .. N -> 1 .. N] /\ \A i \in 1 .. N : \E j \in 1 .. N : order[j] = i
  /\ plan = [j \in 1 .. N |-> <<order[j], Score(findings[order[j]])>>]

PlanIsInOrder ==
  assessing \notin {"score", "sort"} => /\ \E order : IsOrder(order)
                                        /\ Descending(plan)

\* How far each loop over the plan has come.
CountedUpTo ==
  IF assessing \in {"score", "sort"} THEN 0 ELSE IF assessing = "count" THEN handled ELSE N
SummarisedUpTo ==
  IF assessing = "files" THEN handled ELSE IF assessing \in {"overall", "done"} THEN N ELSE 0

CursorsMove ==
  /\ handled \in 0 .. N
  /\ assessing \in {"score", "sort"} => handled = 0

CountsAreOfThePlan ==
  /\ counts \in [Priority -> Nat]
  /\ \A j \in 1 .. CountedUpTo : counts[Band(ScoreOf(plan[j]))] > 0

\* The actions of a file among the first k of the plan.
OfFile(f, k) == {j \in 1 .. k : FileOf(plan[j]) = f}

SummaryIs(s, f, k) ==
  /\ s.count \in Nat /\ s.max \in Nat /\ s.sum \in Nat
  /\ s.count = Cardinality(OfFile(f, k))
  /\ \A j \in OfFile(f, k) : ScoreOf(plan[j]) <= s.max
  /\ \E j \in OfFile(f, k) : ScoreOf(plan[j]) = s.max
  /\ s.sum <= s.count * s.max

SummariesAreOfThePlan ==
  /\ DOMAIN summary = {FileOf(plan[j]) : j \in 1 .. SummarisedUpTo}
  /\ \A f \in DOMAIN summary : SummaryIs(summary[f], f, SummarisedUpTo)

ConclusionFollows == assessing = "done" => overall = OverallScore /\ readiness = Readiness

RiskInv ==
  /\ ScoresAreOfTheFindings /\ PlanIsInOrder /\ CursorsMove
  /\ CountsAreOfThePlan /\ SummariesAreOfThePlan /\ ConclusionFollows

\* A score is a number between nothing and the cap, and has a band.
LEMMA ScoreTyped ==
  ASSUME NEW f \in FindingType
  PROVE  Score(f) \in Nat
<1>1. ASSUME NEW x \in Nat, NEW c \in BOOLEAN
      PROVE  /\ Times(x, c, 7, 10) \in Nat /\ Times(x, c, 13, 10) \in Nat /\ Times(x, c, 5, 4) \in Nat
             /\ Times(x, c, 6, 5) \in Nat /\ Times(x, c, 11, 10) \in Nat
  BY DEF Times
<1>2. /\ IsTest(f) \in BOOLEAN /\ IsNetwork(f) \in BOOLEAN /\ IsStorage(f) \in BOOLEAN
      /\ IsBusy(f) \in BOOLEAN /\ f.key \in BOOLEAN /\ f.loop \in BOOLEAN
  BY DEF IsTest, IsNetwork, IsStorage, IsBusy, FindingType
<1>3. Multiplier(f) \in Nat
  <2>1. One \in Nat
    BY DEF One
  <2> DEFINE test    == Times(One,     IsTest(f),     7, 10)
             network == Times(test,    IsNetwork(f), 13, 10)
             storage == Times(network, IsStorage(f),  5,  4)
             key     == Times(storage, f.key,         6,  5)
             loop    == Times(key,     f.loop,       11, 10)
  <2>2. test \in Nat
    BY <1>1, <1>2, <2>1
  <2> HIDE DEF test
  <2>3. network \in Nat
    BY <1>1, <1>2, <2>2
  <2> HIDE DEF network
  <2>4. storage \in Nat
    BY <1>1, <1>2, <2>3
  <2> HIDE DEF storage
  <2>5. key \in Nat
    BY <1>1, <1>2, <2>4
  <2> HIDE DEF key
  <2>6. loop \in Nat
    BY <1>1, <1>2, <2>5
  <2> HIDE DEF loop
  <2>7. Times(loop, IsBusy(f), 11, 10) \in Nat
    BY <1>1, <1>2, <2>6
  <2> QED BY <2>7 DEF Multiplier, test, network, storage, key, loop
<1>4. f.base * Multiplier(f) \in Nat
  <2>1. f.base \in Nat
    BY DEF FindingType
  <2> QED BY <1>3, <2>1
<1> QED BY <1>4 DEF Score, AtMost, MaxRisk, Points, One

LEMMA BandIsPriority ==
  ASSUME NEW s \in Nat
  PROVE  /\ Band(s) \in Priority
         /\ s >= 9 * Points <=> Band(s) = "CRITICAL"
         /\ s >= 7 * Points => Band(s) \in {"CRITICAL", "HIGH"}
BY DEF Band, Priority, Points, One

LEMMA FindingsTyped ==
  ASSUME ScoresAreOfTheFindings
  PROVE  /\ N \in Nat /\ DOMAIN findings = 1 .. N
         /\ \A i \in 1 .. N : findings[i] \in FindingType /\ Score(findings[i]) \in Nat
<1>1. N \in Nat /\ DOMAIN findings = 1 .. N /\ \A i \in 1 .. N : findings[i] \in FindingType
  BY DEF ScoresAreOfTheFindings, N
<1> QED BY <1>1, ScoreTyped

\* What the plan holds, in terms of the findings.
LEMMA PlanTyped ==
  ASSUME ScoresAreOfTheFindings, NEW order, IsOrder(order)
  PROVE  /\ Len(plan) = N /\ DOMAIN plan = 1 .. N
         /\ \A j \in 1 .. N : /\ order[j] \in 1 .. N
                              /\ plan[j] = <<order[j], Score(findings[order[j]])>>
                              /\ ScoreOf(plan[j]) = Score(findings[order[j]])
                              /\ FileOf(plan[j]) = findings[order[j]].file
                              /\ ScoreOf(plan[j]) \in Nat
<1>1. N \in Nat /\ \A i \in 1 .. N : Score(findings[i]) \in Nat
  BY FindingsTyped
<1>2. \A j \in 1 .. N : <<order[j], Score(findings[order[j]])>> \in Nat \X Nat
  <2> SUFFICES ASSUME NEW j \in 1 .. N PROVE <<order[j], Score(findings[order[j]])>> \in Nat \X Nat
    OBVIOUS
  <2>1. order[j] \in 1 .. N
    BY DEF IsOrder
  <2>2. order[j] \in Nat /\ Score(findings[order[j]]) \in Nat
    BY <1>1, <2>1
  <2> QED BY <2>2
<1>3. plan \in [1 .. N -> Nat \X Nat]
  BY <1>2 DEF IsOrder
<1>4. plan \in Seq(Nat \X Nat) /\ Len(plan) = N /\ DOMAIN plan = 1 .. N
  BY <1>1, <1>3
<1> QED BY <1>1, <1>4 DEF IsOrder, ScoreOf, FileOf

LEMMA AssessStarts == AssessInit => RiskInv
<1> SUFFICES ASSUME AssessInit PROVE RiskInv
  OBVIOUS
<1>1. findings \in Seq(FindingType)
  BY RiskConstants DEF AssessInit
<1>6. N \in Nat
  BY <1>1 DEF N
<1>2. ScoresAreOfTheFindings
  <2>1. scored = <<>> /\ assessing = "score"
    BY DEF AssessInit
  <2>2. scored \in Seq(Nat \X Nat) /\ Len(scored) = 0
    BY <2>1
  <2> QED BY <1>1, <1>6, <2>1, <2>2 DEF ScoresAreOfTheFindings
<1>3. CursorsMove /\ PlanIsInOrder /\ ConclusionFollows
  <2>1. assessing = "score" /\ handled = 0
    BY DEF AssessInit
  <2> QED BY <1>6, <2>1 DEF CursorsMove, PlanIsInOrder, ConclusionFollows
<1>4. CountsAreOfThePlan
  <2>1. CountedUpTo = 0 /\ counts = [p \in Priority |-> 0]
    BY DEF AssessInit, CountedUpTo
  <2> QED BY <2>1 DEF CountsAreOfThePlan
<1>5. SummariesAreOfThePlan
  <2>1. DOMAIN summary = {} /\ SummarisedUpTo = 0
    BY DEF AssessInit, SummarisedUpTo
  <2> QED BY <2>1 DEF SummariesAreOfThePlan
<1> QED BY <1>2, <1>3, <1>4, <1>5 DEF RiskInv

LEMMA ScoreNextKeeps == ASSUME RiskInv, ScoreNext PROVE RiskInv'
<1> USE DEF RiskInv
<1>0. /\ findings' = findings /\ N' = N /\ plan' = plan /\ handled' = handled /\ counts' = counts
      /\ summary' = summary /\ assessing = "score"
  BY DEF ScoreNext, given, N
<1>1. N \in Nat /\ \A i \in 1 .. N : findings[i] \in FindingType /\ Score(findings[i]) \in Nat
  BY FindingsTyped
<1>2. scored \in Seq(Nat \X Nat) /\ Len(scored) \in Nat /\ Len(scored) <= N
  BY DEF ScoresAreOfTheFindings
<1>5. \A x : Score(x)' = Score(x)
  BY DEF Score, Multiplier, IsTest, IsNetwork, IsStorage, IsBusy
<1>3. CASE Len(scored) + 1 <= N
  <2>1. scored' = Append(scored, <<Len(scored) + 1, Score(findings[Len(scored) + 1])>>) /\ assessing' = "score"
    BY <1>0, <1>3 DEF ScoreNext, N
  <2>2. Len(scored) + 1 \in 1 .. N
    BY <1>1, <1>2, <1>3
  <2>3. PICK k : k = Len(scored) + 1 /\ k \in 1 .. N /\ k \in Nat
    BY <2>2
  <2>4. <<k, Score(findings[k])>> \in Nat \X Nat
    BY <1>1, <2>3
  <2>5. /\ scored' \in Seq(Nat \X Nat) /\ Len(scored') = k
        /\ scored'[k] = <<k, Score(findings[k])>>
        /\ \A i \in 1 .. Len(scored) : scored'[i] = scored[i]
    BY <1>2, <2>1, <2>3, <2>4
  <2>6. ASSUME NEW i \in 1 .. Len(scored') PROVE scored'[i] = <<i, Score(findings[i])>>
    <3>1. i = k \/ i \in 1 .. Len(scored)
      BY <1>2, <2>3, <2>5
    <3> QED BY <2>5, <3>1 DEF ScoresAreOfTheFindings
  <2>8. ScoresAreOfTheFindings'
    <3>1. findings' \in Seq(FindingType) /\ assessing' = "score" /\ Len(scored') <= N'
      BY <1>0, <2>1, <2>3, <2>5 DEF ScoresAreOfTheFindings
    <3>2. \A i \in 1 .. Len(scored') : scored'[i] = <<i, Score(findings[i])>>'
      BY <1>0, <2>6
    <3> QED BY <2>5, <3>1, <3>2 DEF ScoresAreOfTheFindings
  <2> QED BY <1>0, <2>1, <2>8 DEF PlanIsInOrder, CursorsMove, CountsAreOfThePlan, CountedUpTo,
             SummariesAreOfThePlan, SummarisedUpTo, ConclusionFollows
<1>4. CASE ~(Len(scored) + 1 <= N)
  <2>1. scored' = scored /\ assessing' = "sort"
    BY <1>0, <1>4 DEF ScoreNext, N
  <2>2. Len(scored) = N
    BY <1>1, <1>2, <1>4
  <2>3. ScoresAreOfTheFindings'
    BY <1>0, <1>5, <2>1, <2>2 DEF ScoresAreOfTheFindings
  <2> QED BY <1>0, <2>1, <2>3 DEF PlanIsInOrder, CursorsMove, CountsAreOfThePlan, CountedUpTo,
             SummariesAreOfThePlan, SummarisedUpTo, ConclusionFollows
<1> QED BY <1>3, <1>4

LEMMA SortPlanKeeps == ASSUME RiskInv, SortPlan PROVE RiskInv'
<1> USE DEF RiskInv
<1>0. /\ findings' = findings /\ N' = N /\ scored' = scored /\ handled' = handled /\ counts' = counts
      /\ summary' = summary /\ assessing = "sort" /\ assessing' = "count"
  BY DEF SortPlan, given, N
<1>1. N \in Nat /\ \A i \in 1 .. N : Score(findings[i]) \in Nat
  BY FindingsTyped
<1>2. Len(scored) = N /\ \A i \in 1 .. N : scored[i] = <<i, Score(findings[i])>>
  BY <1>0 DEF ScoresAreOfTheFindings
<1>3. PICK order \in [1 .. N -> 1 .. N] :
        /\ \A i \in 1 .. N : \E j \in 1 .. N : order[j] = i
        /\ plan' = [j \in 1 .. N |-> scored[order[j]]] /\ Descending(plan')
  BY <1>2 DEF SortPlan, Arrangements
<1>4. plan' = [j \in 1 .. N |-> <<order[j], Score(findings[order[j]])>>]
  BY <1>2, <1>3
<1>5. IsOrder(order)'
  BY <1>0, <1>3, <1>4 DEF IsOrder
<1>6. PlanIsInOrder'
  BY <1>3, <1>5 DEF PlanIsInOrder
<1>7. ScoresAreOfTheFindings'
  <2>1. \A x : Score(x)' = Score(x)
    BY DEF Score, Multiplier, IsTest, IsNetwork, IsStorage, IsBusy
  <2> QED BY <1>0, <2>1 DEF ScoresAreOfTheFindings
<1>8. CursorsMove' /\ handled = 0
  BY <1>0 DEF CursorsMove
<1>9. SummariesAreOfThePlan'
  <2>1. DOMAIN summary = {} /\ SummarisedUpTo' = 0
    BY <1>0 DEF SummariesAreOfThePlan, SummarisedUpTo
  <2> QED BY <1>0, <2>1 DEF SummariesAreOfThePlan
<1>10. CountsAreOfThePlan'
  BY <1>0, <1>8 DEF CountsAreOfThePlan, CountedUpTo
<1> QED BY <1>0, <1>6, <1>7, <1>8, <1>9, <1>10 DEF ConclusionFollows

\* A step that leaves findings, scores and plan keeps what is said of them.
LEMMA PlanStays ==
  ASSUME RiskInv, UNCHANGED <<findings, scored, plan>>, assessing \notin {"score", "sort"},
         assessing' \in {"count", "files", "overall", "done"}
  PROVE  /\ ScoresAreOfTheFindings' /\ PlanIsInOrder' /\ N' = N /\ N \in Nat /\ Len(plan) = N
         /\ \A j \in 1 .. N : ScoreOf(plan[j]) \in Nat /\ FileOf(plan[j])' = FileOf(plan[j])
         /\ \A f, k : OfFile(f, k)' = OfFile(f, k)
<1> USE DEF RiskInv
<1>1. N' = N /\ N \in Nat
  BY FindingsTyped DEF N
<1>2. \A order : IsOrder(order)' = IsOrder(order)
  BY <1>1 DEF IsOrder
<1>3. ScoresAreOfTheFindings' /\ PlanIsInOrder'
  BY <1>1, <1>2 DEF ScoresAreOfTheFindings, PlanIsInOrder
<1>4. PICK order : IsOrder(order)
  BY DEF PlanIsInOrder
<1>5. Len(plan) = N /\ \A j \in 1 .. N : ScoreOf(plan[j]) \in Nat
  BY <1>4, PlanTyped
<1>6. \A x : FileOf(x)' = FileOf(x)
  BY DEF FileOf
<1> QED BY <1>1, <1>3, <1>5 DEF OfFile, FileOf

LEMMA CountNextKeeps == ASSUME RiskInv, CountNext PROVE RiskInv'
<1> USE DEF RiskInv
<1>0. /\ findings' = findings /\ scored' = scored /\ plan' = plan /\ summary' = summary
      /\ assessing = "count" /\ assessing' \in {"count", "files"}
  BY DEF CountNext, given
<1>1. /\ ScoresAreOfTheFindings' /\ PlanIsInOrder' /\ N' = N /\ N \in Nat /\ Len(plan) = N
      /\ \A j \in 1 .. N : ScoreOf(plan[j]) \in Nat
  BY <1>0, PlanStays
<1>2. SummariesAreOfThePlan' /\ ConclusionFollows'
  <2>1. DOMAIN summary = {} /\ SummarisedUpTo = 0
    BY <1>0 DEF SummariesAreOfThePlan, SummarisedUpTo
  <2>2. CASE assessing' = "count"
    BY <1>0, <2>1, <2>2 DEF SummariesAreOfThePlan, SummarisedUpTo, ConclusionFollows
  <2>3. CASE assessing' = "files"
    <3>1. handled' = 0
      BY <1>0, <2>3 DEF CountNext
    <3> QED BY <1>0, <2>1, <2>3, <3>1 DEF SummariesAreOfThePlan, SummarisedUpTo, ConclusionFollows
  <2> QED BY <1>0, <2>2, <2>3
<1>3. CASE handled < N
  <2>1. PICK k, b : k = handled + 1 /\ b = Band(ScoreOf(plan[k]))
    OBVIOUS
  <2>2. k \in 1 .. N /\ b \in Priority /\ handled \in 0 .. N
    BY <1>1, <1>3, <2>1, BandIsPriority DEF CursorsMove
  <2>3. handled' = k /\ assessing' = "count" /\ counts' = [counts EXCEPT ![b] = @ + 1]
    BY <1>1, <1>3, <2>1 DEF CountNext, PriorityOf
  <2>4. /\ counts \in [Priority -> Nat] /\ \A j \in 1 .. handled : counts[Band(ScoreOf(plan[j]))] > 0
        /\ \A j \in 1 .. N : Band(ScoreOf(plan[j])) \in Priority
    BY <1>0, <1>1, BandIsPriority DEF CountsAreOfThePlan, CountedUpTo
  <2>5. counts' \in [Priority -> Nat] /\ counts'[b] > 0 /\ \A p \in Priority : counts'[p] >= counts[p]
    BY <2>2, <2>3, <2>4
  <2>6. ASSUME NEW j \in 1 .. k PROVE counts'[Band(ScoreOf(plan[j]))] > 0
    <3>1. CASE j = k
      BY <2>1, <2>5, <3>1
    <3>2. CASE j # k
      <4>1. j \in 1 .. handled /\ j \in 1 .. N
        BY <1>1, <2>1, <2>2, <3>2
      <4>2. PICK p \in Priority : p = Band(ScoreOf(plan[j]))
        BY <2>4, <4>1
      <4>3. counts[p] > 0 /\ counts[p] \in Nat /\ counts'[p] \in Nat /\ counts'[p] >= counts[p]
        BY <2>4, <2>5, <4>1, <4>2
      <4> QED BY <4>2, <4>3
    <3> QED BY <3>1, <3>2
  <2>7. CountsAreOfThePlan'
    BY <1>0, <2>3, <2>5, <2>6 DEF CountsAreOfThePlan, CountedUpTo, ScoreOf
  <2> QED BY <1>1, <1>2, <2>2, <2>3, <2>7 DEF CursorsMove
<1>4. CASE ~(handled < N)
  <2>1. handled = N /\ handled' = 0 /\ assessing' = "files" /\ counts' = counts
    BY <1>1, <1>4 DEF CountNext, CursorsMove
  <2>2. CountsAreOfThePlan'
    BY <1>0, <1>1, <2>1 DEF CountsAreOfThePlan, CountedUpTo, ScoreOf
  <2> QED BY <1>1, <1>2, <2>1, <2>2 DEF CursorsMove
<1> QED BY <1>3, <1>4

\* The arithmetic of one more action in a sum bounded by count and maximum.
LEMMA OneMore ==
  ASSUME NEW c \in Nat, NEW s \in Nat, NEW m \in Nat, NEW x \in Nat, NEW M \in Nat,
         s <= c * m, m <= M, x <= M
  PROVE  s + x <= (c + 1) * M
<1>1. c * m <= c * M
  <2>1. M = m + (M - m) /\ M - m \in Nat
    OBVIOUS
  <2>2. c * (m + (M - m)) = c * m + c * (M - m)
    OBVIOUS
  <2>3. c * (M - m) >= 0 /\ c * (M - m) \in Int /\ c * m \in Int
    BY <2>1
  <2> QED BY <2>1, <2>2, <2>3
<1>2. (c + 1) * M = c * M + M /\ c * M \in Int /\ c * m \in Int
  OBVIOUS
<1> QED BY <1>1, <1>2

LEMMA NothingIsOfAFile ==
  ASSUME NEW f, NEW k \in Nat, \A j \in 1 .. k : FileOf(plan[j]) # f
  PROVE  OfFile(f, k) = {}
BY DEF OfFile

\* One more action of the plan is one of its file and of no other.
LEMMA OneMoreOfFile ==
  ASSUME NEW k \in Nat, NEW f
  PROVE  /\ OfFile(f, k + 1) = IF f = FileOf(plan[k + 1]) THEN OfFile(f, k) \cup {k + 1} ELSE OfFile(f, k)
         /\ k + 1 \notin OfFile(f, k) /\ IsFiniteSet(OfFile(f, k))
<1>1. OfFile(f, k) \subseteq 1 .. k /\ k + 1 \notin 1 .. k
  BY DEF OfFile
<1>2. IsFiniteSet(1 .. k)
  BY FS_Interval
<1>3. 1 .. (k + 1) = (1 .. k) \cup {k + 1}
  OBVIOUS
<1> QED BY <1>1, <1>2, <1>3, FS_Subset DEF OfFile

\* The summary of a file with one more action.
LEMMA SummaryGrows ==
  ASSUME NEW k \in Nat, NEW f, f = FileOf(plan[k + 1]), ScoreOf(plan[k + 1]) \in Nat, NEW old,
         SummaryIs(old, f, k) \/ (old = NoSummary /\ OfFile(f, k) = {}),
         \A j \in 1 .. k : ScoreOf(plan[j]) \in Nat
  PROVE  SummaryIs(Added(old, ScoreOf(plan[k + 1])), f, k + 1)
<1>1. PICK x, new : x \in Nat /\ x = ScoreOf(plan[k + 1]) /\ new = Added(old, x)
  OBVIOUS
<1>2. /\ old.count \in Nat /\ old.max \in Nat /\ old.sum \in Nat
      /\ old.count = Cardinality(OfFile(f, k)) /\ \A j \in OfFile(f, k) : ScoreOf(plan[j]) <= old.max
      /\ old.sum <= old.count * old.max
      /\ (\E j \in OfFile(f, k) : ScoreOf(plan[j]) = old.max) \/ old.max = 0
  <2>1. CASE SummaryIs(old, f, k)
    BY <2>1 DEF SummaryIs
  <2>2. CASE old = NoSummary /\ OfFile(f, k) = {}
    BY <2>2, FS_EmptySet DEF NoSummary
  <2> QED BY <2>1, <2>2
<1>3. /\ new.count = old.count + 1 /\ new.sum = old.sum + x
      /\ new.max = IF old.max < x THEN x ELSE old.max
  BY <1>1 DEF Added
<1>4. new.count \in Nat /\ new.sum \in Nat /\ new.max \in Nat /\ old.max <= new.max /\ x <= new.max
  <2>1. PICK c \in Nat, m \in Nat, t \in Nat : c = old.count /\ m = old.max /\ t = old.sum
    BY <1>2
  <2>2. new.count = c + 1 /\ new.sum = t + x /\ new.max = IF m < x THEN x ELSE m
    BY <1>3, <2>1
  <2>3. new.count \in Nat /\ new.sum \in Nat /\ new.max \in Nat /\ m <= new.max /\ x <= new.max
    BY <1>1, <2>2
  <2> QED BY <2>1, <2>3
<1>5. OfFile(f, k + 1) = OfFile(f, k) \cup {k + 1} /\ k + 1 \notin OfFile(f, k) /\ IsFiniteSet(OfFile(f, k))
  BY OneMoreOfFile
<1>6. new.count = Cardinality(OfFile(f, k + 1))
  <2>1. Cardinality(OfFile(f, k) \cup {k + 1}) = Cardinality(OfFile(f, k)) + 1
    BY <1>5, FS_AddElement
  <2> QED BY <1>2, <1>3, <1>5, <2>1
<1>7. ASSUME NEW j \in OfFile(f, k + 1) PROVE ScoreOf(plan[j]) <= new.max
  <2>1. CASE j = k + 1
    BY <1>1, <1>4, <2>1
  <2>2. CASE j \in OfFile(f, k)
    <3>1. j \in 1 .. k /\ ScoreOf(plan[j]) <= old.max
      BY <1>2, <2>2 DEF OfFile
    <3> QED BY <1>2, <1>4, <3>1
  <2> QED BY <1>5, <2>1, <2>2
<1>8. \E j \in OfFile(f, k + 1) : ScoreOf(plan[j]) = new.max
  <2>1. CASE new.max = x
    BY <1>1, <1>5, <2>1
  <2>2. CASE new.max # x
    <3>1. new.max = old.max /\ old.max # 0
      BY <1>1, <1>2, <1>3, <2>2
    <3>2. PICK j \in OfFile(f, k) : ScoreOf(plan[j]) = old.max
      BY <1>2, <3>1
    <3> QED BY <1>5, <3>1, <3>2
  <2> QED BY <2>1, <2>2
<1>9. new.sum <= new.count * new.max
  <2>1. PICK c \in Nat, m \in Nat, t \in Nat, M \in Nat :
          c = old.count /\ m = old.max /\ t = old.sum /\ M = new.max
    BY <1>2, <1>4
  <2>2. t <= c * m /\ m <= M /\ x <= M
    BY <1>2, <1>4, <2>1
  <2>3. t + x <= (c + 1) * M
    BY <1>1, <2>2, OneMore
  <2> QED BY <1>3, <2>1, <2>3
<1>10. SummaryIs(new, f, k + 1)
  BY <1>4, <1>6, <1>7, <1>8, <1>9 DEF SummaryIs
<1> QED BY <1>1, <1>10

LEMMA SummariseNextKeeps == ASSUME RiskInv, SummariseNext PROVE RiskInv'
<1> USE DEF RiskInv
<1>0. /\ findings' = findings /\ scored' = scored /\ plan' = plan /\ counts' = counts
      /\ assessing = "files" /\ assessing' \in {"files", "overall"}
  BY DEF SummariseNext, given
<1>1. /\ ScoresAreOfTheFindings' /\ PlanIsInOrder' /\ N' = N /\ N \in Nat /\ Len(plan) = N
      /\ \A j \in 1 .. N : ScoreOf(plan[j]) \in Nat
      /\ \A f, k : OfFile(f, k)' = OfFile(f, k)
  BY <1>0, PlanStays
<1>2. CountsAreOfThePlan' /\ ConclusionFollows'
  BY <1>0, <1>1 DEF CountsAreOfThePlan, CountedUpTo, ScoreOf, ConclusionFollows
<1>3. /\ DOMAIN summary = {FileOf(plan[j]) : j \in 1 .. handled} /\ handled \in 0 .. N
      /\ \A f \in DOMAIN summary : SummaryIs(summary[f], f, handled)
  BY <1>0 DEF SummariesAreOfThePlan, SummarisedUpTo, CursorsMove
<1>4. \A s, f, k : SummaryIs(s, f, k)' = SummaryIs(s, f, k)
  BY <1>0, <1>1 DEF SummaryIs, ScoreOf
<1>5. \A j : FileOf(plan[j])' = FileOf(plan[j])
  BY <1>0 DEF FileOf
<1>6. CASE handled < N
  <2>1. PICK f, old, k : /\ f = FileOf(plan[k]) /\ k = handled + 1
                         /\ old = IF f \in DOMAIN summary THEN summary[f] ELSE NoSummary
    OBVIOUS
  <2>2. k \in 1 .. N /\ handled \in Nat /\ handled' = k /\ assessing' = "files"
    BY <1>0, <1>1, <1>3, <1>6, <2>1 DEF SummariseNext
  <2>3. summary' = [g \in DOMAIN summary \cup {f} |-> IF g = f THEN Added(old, ScoreOf(plan[k])) ELSE summary[g]]
    BY <1>0, <1>1, <1>6, <2>1 DEF SummariseNext
  <2>4. SummaryIs(old, f, handled) \/ (old = NoSummary /\ OfFile(f, handled) = {})
    <3>1. CASE f \in DOMAIN summary
      BY <1>3, <2>1, <3>1
    <3>2. CASE f \notin DOMAIN summary
      <4>1. \A j \in 1 .. handled : FileOf(plan[j]) # f
        BY <1>3, <3>2
      <4> QED BY <2>1, <2>2, <3>2, <4>1, NothingIsOfAFile
    <3> QED BY <3>1, <3>2
  <2>5. SummaryIs(Added(old, ScoreOf(plan[k])), f, k)
    <3>1. \A j \in 1 .. handled : ScoreOf(plan[j]) \in Nat
      BY <1>1, <1>3
    <3> QED BY <1>1, <2>1, <2>2, <2>4, <3>1, SummaryGrows
  <2>6. ASSUME NEW g \in DOMAIN summary', g # f PROVE SummaryIs(summary[g], g, k)
    <3>1. OfFile(g, k) = OfFile(g, handled)
      BY <2>1, <2>2, <2>6, OneMoreOfFile
    <3>2. SummaryIs(summary[g], g, handled)
      BY <1>3, <2>3, <2>6
    <3> QED BY <3>1, <3>2 DEF SummaryIs
  <2>7. DOMAIN summary' = {FileOf(plan[j]) : j \in 1 .. k}
    <3>1. 1 .. k = (1 .. handled) \cup {k}
      BY <2>1, <2>2
    <3> QED BY <1>3, <2>1, <2>3, <3>1
  <2>8. ASSUME NEW g \in DOMAIN summary' PROVE SummaryIs(summary'[g], g, k)
    BY <2>3, <2>5, <2>6
  <2>9. SummarisedUpTo' = k
    BY <2>2 DEF SummarisedUpTo
  <2>10. SummariesAreOfThePlan'
    <3>1. DOMAIN summary' = {FileOf(plan[j])' : j \in 1 .. k}
      BY <1>5, <2>7
    <3>2. \A g \in DOMAIN summary' : SummaryIs(summary[g], g, SummarisedUpTo)'
      <4> SUFFICES ASSUME NEW g \in DOMAIN summary' PROVE SummaryIs(summary[g], g, SummarisedUpTo)'
        OBVIOUS
      <4>1. PICK s : s = summary'[g]
        OBVIOUS
      <4>2. SummaryIs(s, g, k)'
        BY <1>4, <2>8, <4>1
      <4> QED BY <2>9, <4>1, <4>2 DEF SummaryIs
    <3> QED BY <2>9, <3>1, <3>2 DEF SummariesAreOfThePlan
  <2> QED BY <1>1, <1>2, <2>2, <2>10 DEF CursorsMove
<1>7. CASE ~(handled < N)
  <2>1. handled = N /\ handled' = 0 /\ assessing' = "overall" /\ summary' = summary
    BY <1>0, <1>1, <1>3, <1>7 DEF SummariseNext
  <2>2. SummariesAreOfThePlan'
    <3>1. SummarisedUpTo' = N
      BY <1>1, <2>1 DEF SummarisedUpTo
    <3>2. DOMAIN summary' = {FileOf(plan[j])' : j \in 1 .. N}
      BY <1>3, <1>5, <2>1
    <3>3. \A g \in DOMAIN summary' : SummaryIs(summary[g], g, SummarisedUpTo)'
      <4> SUFFICES ASSUME NEW g \in DOMAIN summary' PROVE SummaryIs(summary[g], g, SummarisedUpTo)'
        OBVIOUS
      <4>1. PICK s : s = summary'[g]
        OBVIOUS
      <4>2. SummaryIs(s, g, N)
        BY <1>3, <2>1, <4>1
      <4>3. \A i : i = N => SummaryIs(s, g, i)'
        BY <1>4, <4>2
      <4> QED BY <3>1, <4>1, <4>3 DEF SummaryIs
    <3> QED BY <3>1, <3>2, <3>3 DEF SummariesAreOfThePlan
  <2> QED BY <1>1, <1>2, <2>1, <2>2 DEF CursorsMove
<1> QED BY <1>6, <1>7

\* A step that leaves all the loops have built.
LEMMA QuietAssessKeeps ==
  ASSUME RiskInv, UNCHANGED <<findings, scored, plan, handled, counts, summary>>,
         \/ UNCHANGED <<certs, overall, readiness, assessing>>
         \/ assessing = "overall" /\ assessing' = "done" /\ ConclusionFollows'
  PROVE  RiskInv'
<1> USE DEF RiskInv
<1>1. N' = N /\ \A order : IsOrder(order)' = IsOrder(order)
  BY DEF N, IsOrder
<1>2. ScoresAreOfTheFindings' /\ PlanIsInOrder' /\ CursorsMove'
  BY <1>1 DEF ScoresAreOfTheFindings, PlanIsInOrder, CursorsMove
<1>3. CountedUpTo' = CountedUpTo /\ SummarisedUpTo' = SummarisedUpTo
  BY <1>1 DEF CountedUpTo, SummarisedUpTo
<1>4. CountsAreOfThePlan'
  BY <1>3 DEF CountsAreOfThePlan, ScoreOf
<1>5. \A s, f, k : SummaryIs(s, f, k)' = SummaryIs(s, f, k)
  BY DEF SummaryIs, OfFile, FileOf, ScoreOf
<1>6. SummariesAreOfThePlan'
  <2>1. PICK k : k = SummarisedUpTo
    OBVIOUS
  <2>2. \A f \in DOMAIN summary : SummaryIs(summary[f], f, k)
    BY <2>1 DEF SummariesAreOfThePlan
  <2>3. \A f \in DOMAIN summary' : SummaryIs(summary[f], f, SummarisedUpTo)'
    <3> SUFFICES ASSUME NEW f \in DOMAIN summary' PROVE SummaryIs(summary[f], f, SummarisedUpTo)'
      OBVIOUS
    <3>1. PICK s : s = summary[f]
      OBVIOUS
    <3>2. SummaryIs(s, f, k)'
      BY <1>5, <2>2, <3>1
    <3> QED BY <1>3, <2>1, <3>1, <3>2 DEF SummaryIs
  <2> QED BY <1>3, <2>3 DEF SummariesAreOfThePlan, FileOf
<1>7. ConclusionFollows'
  <2> SUFFICES ASSUME UNCHANGED <<certs, overall, readiness, assessing>> PROVE ConclusionFollows'
    OBVIOUS
  <2>1. Total' = Total
    BY Zenon DEF Total, ScoreOf
  <2>2. OverallScore' = OverallScore /\ Readiness' = Readiness
    BY <2>1 DEF OverallScore, MaxCert, Readiness
  <2> QED BY <2>2 DEF ConclusionFollows
<1> QED BY <1>2, <1>4, <1>6, <1>7

LEMMA ConcludeKeeps == ASSUME RiskInv, Conclude PROVE RiskInv'
<1>1. UNCHANGED <<findings, certs, scored, plan, handled, counts, summary>>
  BY DEF Conclude, given
<1>2. ConclusionFollows'
  BY <1>1 DEF ConclusionFollows, Conclude, OverallScore, Total, MaxCert, Readiness, ScoreOf
<1> QED BY <1>1, <1>2, QuietAssessKeeps DEF Conclude

LEMMA AssessKeeps == RiskInv /\ [AssessNext]_risk => RiskInv'
<1> SUFFICES ASSUME RiskInv, [AssessNext]_risk PROVE RiskInv'
  OBVIOUS
<1>1. CASE ScoreNext
  BY <1>1, ScoreNextKeeps
<1>2. CASE SortPlan
  BY <1>2, SortPlanKeeps
<1>3. CASE CountNext
  BY <1>3, CountNextKeeps
<1>4. CASE SummariseNext
  BY <1>4, SummariseNextKeeps
<1>5. CASE Conclude
  BY <1>5, ConcludeKeeps
<1>6. CASE Assessed \/ UNCHANGED risk
  BY <1>6, QuietAssessKeeps DEF Assessed, risk
<1> QED BY <1>1, <1>2, <1>3, <1>4, <1>5, <1>6 DEF AssessNext

-----------------------------------------------------------------------------
(* What the parts of AssessmentIsSound say at the end.                         *)

AreSums(t, a, m) == t \in [0 .. m -> Nat] /\ t[0] = 0 /\ \A k \in 1 .. m : t[k] = t[k - 1] + a[k]

\* The sums of the first actions exist.
LEMMA SumsExist ==
  ASSUME NEW n \in Nat, NEW a \in [1 .. n -> Nat]
  PROVE  \E t : AreSums(t, a, n)
<1> DEFINE T == {m \in Nat : m <= n /\ ~ \E t : AreSums(t, a, m)}
<1> SUFFICES ASSUME T # {} PROVE FALSE
  <2>1. n \notin T
    OBVIOUS
  <2> QED BY <2>1
<1>1. PICK m \in T : \A j \in T : m <= j
  BY LeastNat
<1>2. CASE m = 0
  <2>1. AreSums([k \in 0 .. 0 |-> 0], a, 0)
    BY DEF AreSums
  <2> QED BY <1>2, <2>1
<1>3. CASE m # 0
  <2>1. m \in 1 .. n /\ m - 1 \in 0 .. n /\ m - 1 \notin T
    BY <1>1, <1>3
  <2>2. PICK g : AreSums(g, a, m - 1)
    BY <2>1
  <2>7. g \in [0 .. m - 1 -> Nat] /\ g[0] = 0 /\ \A k \in 1 .. m - 1 : g[k] = g[k - 1] + a[k]
    BY <2>2, Zenon DEF AreSums
  <2> DEFINE h == [k \in 0 .. m |-> IF k = m THEN g[m - 1] + a[m] ELSE g[k]]
  <2>3. h \in [0 .. m -> Nat]
    BY <2>1, <2>7
  <2>4. h[0] = 0
    BY <1>3, <2>1, <2>7
  <2>5. ASSUME NEW k \in 1 .. m PROVE h[k] = h[k - 1] + a[k]
    <3>1. h[k - 1] = g[k - 1]
      BY <2>1
    <3>2. CASE k = m
      BY <2>1, <3>1, <3>2
    <3>3. CASE k # m
      <4>1. k \in 1 .. m - 1 /\ h[k] = g[k]
        BY <2>1, <3>3
      <4> QED BY <2>7, <3>1, <4>1
    <3> QED BY <3>2, <3>3
  <2> HIDE DEF h
  <2>6. AreSums(h, a, m)
    BY <2>3, <2>4, <2>5, Zenon DEF AreSums
  <2> QED BY <1>1, <2>6
<1> QED BY <1>2, <1>3

\* Total is what its equation says.
LEMMA TotalIs ==
  ASSUME NEW n \in Nat, Len(plan) = n, \A j \in 1 .. n : ScoreOf(plan[j]) \in Nat
  PROVE  /\ Total[0] = 0 /\ \A k \in 0 .. n : Total[k] \in Nat
         /\ \A k \in 1 .. n : Total[k] = Total[k - 1] + ScoreOf(plan[k])
<1> DEFINE a == [j \in 1 .. n |-> ScoreOf(plan[j])]
<1>1. a \in [1 .. n -> Nat] /\ \A j \in 1 .. n : a[j] = ScoreOf(plan[j])
  OBVIOUS
<1> HIDE DEF a
<1>2. PICK t \in [0 .. n -> Nat] : t[0] = 0 /\ \A k \in 1 .. n : t[k] = t[k - 1] + a[k]
  BY <1>1, SumsExist, Zenon DEF AreSums
<1>3. t = [k \in 0 .. n |-> IF k = 0 THEN 0 ELSE t[k - 1] + ScoreOf(plan[k])]
  <2>1. t = [k \in 0 .. n |-> t[k]]
    OBVIOUS
  <2>2. \A k \in 0 .. n : t[k] = IF k = 0 THEN 0 ELSE t[k - 1] + ScoreOf(plan[k])
    BY <1>1, <1>2
  <2> QED BY <2>1, <2>2
<1>4. \E g : g = [k \in 0 .. Len(plan) |-> IF k = 0 THEN 0 ELSE g[k - 1] + ScoreOf(plan[k])]
  BY <1>3, Zenon
<1>5. Total = [k \in 0 .. Len(plan) |-> IF k = 0 THEN 0 ELSE Total[k - 1] + ScoreOf(plan[k])]
  BY <1>4, Zenon DEF Total
<1> DEFINE A == Total
<1>6. A = [k \in 0 .. n |-> IF k = 0 THEN 0 ELSE A[k - 1] + ScoreOf(plan[k])]
  BY <1>5, Zenon
<1> HIDE DEF A
<1>7. A[0] = 0 /\ \A k \in 1 .. n : A[k] = A[k - 1] + ScoreOf(plan[k])
  <2>1. \A k \in 1 .. n : k \in 0 .. n /\ k # 0
    OBVIOUS
  <2>2. 0 \in 0 .. n
    OBVIOUS
  <2> QED BY <1>6, <2>1, <2>2, Zenon
<1>8. \A k \in 0 .. n : A[k] = t[k]
  <2> DEFINE T == {k \in Nat : k <= n /\ A[k] # t[k]}
  <2> SUFFICES ASSUME T # {} PROVE FALSE
    OBVIOUS
  <2>1. PICK k \in T : \A j \in T : k <= j
    BY LeastNat
  <2>2. k # 0
    BY <1>2, <1>7, <2>1
  <2>3. k \in 1 .. n /\ k - 1 \notin T /\ k - 1 \in 0 .. n
    BY <2>1, <2>2
  <2>4. A[k - 1] = t[k - 1]
    BY <2>3
  <2> QED BY <1>1, <1>2, <1>7, <2>1, <2>3, <2>4
<1>9. \A k \in 0 .. n : A[k] \in Nat
  BY <1>8
<1> QED BY <1>7, <1>9 DEF A

\* In a descending plan no action stands behind a smaller one.
LEMMA DescendingIsSorted ==
  ASSUME NEW n \in Nat, Len(plan) = n, \A j \in 1 .. n : ScoreOf(plan[j]) \in Nat, Descending(plan),
         NEW i \in 1 .. n
  PROVE  \A j \in i .. n : ScoreOf(plan[i]) >= ScoreOf(plan[j])
<1> DEFINE T == {j \in Nat : j \in i .. n /\ ~(ScoreOf(plan[i]) >= ScoreOf(plan[j]))}
<1> SUFFICES ASSUME T # {} PROVE FALSE
  OBVIOUS
<1>1. PICK j \in T : \A k \in T : j <= k
  BY LeastNat
<1>2. j # i
  BY <1>1
<1>3. j - 1 \in i .. n /\ j - 1 \in 1 .. n - 1 /\ j - 1 \notin T /\ j \in 1 .. n
  BY <1>1, <1>2
<1>4. ScoreOf(plan[i]) >= ScoreOf(plan[j - 1])
  BY <1>3
<1>5. ScoreOf(plan[j - 1]) >= ScoreOf(plan[j])
  <2>1. plan[j - 1][2] >= plan[(j - 1) + 1][2] /\ (j - 1) + 1 = j
    BY <1>3 DEF Descending
  <2> QED BY <2>1 DEF ScoreOf
<1>6. ScoreOf(plan[i]) \in Nat /\ ScoreOf(plan[j - 1]) \in Nat /\ ScoreOf(plan[j]) \in Nat
  BY <1>3
<1> QED BY <1>1, <1>4, <1>5, <1>6

\* A sum of k numbers none of which is below x is at least k times x.
LEMMA TotalOfLarge ==
  ASSUME NEW n \in Nat, Len(plan) = n, \A j \in 1 .. n : ScoreOf(plan[j]) \in Nat,
         NEW k \in 0 .. n, NEW x \in Nat, \A j \in 1 .. k : ScoreOf(plan[j]) >= x
  PROVE  Total[k] >= k * x
<1> DEFINE T == {m \in Nat : m <= k /\ ~(Total[m] >= m * x)}
<1> SUFFICES ASSUME T # {} PROVE FALSE
  OBVIOUS
<1>1. PICK m \in T : \A j \in T : m <= j
  BY LeastNat
<1>2. m # 0
  BY <1>1, TotalIs
<1>3. m \in 1 .. k /\ m - 1 \notin T /\ m - 1 \in 0 .. k /\ m \in 1 .. n /\ m - 1 \in 0 .. n
  BY <1>1, <1>2
<1>4. Total[m - 1] >= (m - 1) * x
  BY <1>3
<1>5. Total[m] = Total[m - 1] + ScoreOf(plan[m]) /\ Total[m - 1] \in Nat
  BY <1>3, TotalIs
<1>6. PICK a \in Nat, b \in Nat : a = Total[m - 1] /\ b = ScoreOf(plan[m]) /\ b >= x
  BY <1>3, <1>5
<1>7. (m - 1) * x + x = m * x /\ (m - 1) * x \in Int /\ m * x \in Int
  BY <1>3
<1>8. a + b >= m * x
  BY <1>4, <1>6, <1>7
<1> QED BY <1>1, <1>5, <1>6, <1>8

\* The mean of the first n of a descending plan is not below that of the first k.
LEMMA MeanFalls ==
  ASSUME NEW len \in Nat, Len(plan) = len, \A j \in 1 .. len : ScoreOf(plan[j]) \in Nat, Descending(plan),
         NEW n \in 1 .. len, NEW k \in n .. len
  PROVE  Total[n] * k >= Total[k] * n
<1> DEFINE T == {m \in Nat : m \in n .. len /\ ~(Total[n] * m >= Total[m] * n)}
<1> SUFFICES ASSUME T # {} PROVE FALSE
  OBVIOUS
<1>0. \A i \in 0 .. len : Total[i] \in Nat
  BY TotalIs
<1>1. PICK m \in T : \A j \in T : m <= j
  BY LeastNat
<1>2. m # n
  <2>1. Total[n] * n >= Total[n] * n
    <3>1. Total[n] * n \in Int
      BY <1>0
    <3> QED BY <3>1
  <2> QED BY <1>1, <2>1
<1>3. m - 1 \in n .. len /\ m - 1 \notin T /\ m \in 1 .. len /\ m - 1 \in 0 .. len /\ m \in n .. len
  BY <1>1, <1>2
<1>4. Total[n] * (m - 1) >= Total[m - 1] * n
  <2>1. m - 1 \in Nat /\ m - 1 \in n .. len /\ m - 1 \notin T
    BY <1>3
  <2> QED BY <2>1
<1>5. Total[m] = Total[m - 1] + ScoreOf(plan[m])
  BY <1>3, TotalIs
<1>6. PICK t \in Nat, a \in Nat, x \in Nat : t = Total[n] /\ a = Total[m - 1] /\ x = ScoreOf(plan[m])
  BY <1>0, <1>3
<1>7. t >= n * x
  <2>1. \A j \in 1 .. n : ScoreOf(plan[j]) >= x
    <3> SUFFICES ASSUME NEW j \in 1 .. n PROVE ScoreOf(plan[j]) >= x
      OBVIOUS
    <3>1. j \in 1 .. len /\ m \in j .. len
      BY <1>3
    <3>2. \A i \in j .. len : ScoreOf(plan[j]) >= ScoreOf(plan[i])
      BY <3>1, DescendingIsSorted
    <3> QED BY <1>6, <3>1, <3>2
  <2>2. n \in 0 .. len
    OBVIOUS
  <2>3. Total[n] >= n * x
    BY <2>1, <2>2, TotalOfLarge
  <2> QED BY <1>6, <2>3
<1>8. t * m >= (a + x) * n
  <2>1. t * (m - 1) >= a * n
    BY <1>4, <1>6
  <2>2. t * m = t * (m - 1) + t /\ t * (m - 1) \in Int
    BY <1>3
  <2>3. (a + x) * n = a * n + n * x /\ a * n \in Int /\ n * x \in Int
    OBVIOUS
  <2> QED BY <1>7, <2>1, <2>2, <2>3
<1> QED BY <1>1, <1>5, <1>6, <1>8

LEMMA HeadFollows == ASSUME RiskInv PROVE HeadIsWorst
<1> SUFFICES ASSUME AllAssessed, certs = {}, findings # <<>>
             PROVE  /\ overall[1] * Len(plan) >= Total[Len(plan)] * overall[2]
                    /\ \A j \in DOMAIN plan : j > TopN => overall[1] >= ScoreOf(plan[j]) * overall[2]
  BY DEF HeadIsWorst
<1> USE DEF RiskInv
<1>1. PICK order : IsOrder(order) /\ Descending(plan)
  BY DEF PlanIsInOrder, AllAssessed
<1>2. /\ Len(plan) = N /\ DOMAIN plan = 1 .. N /\ N \in Nat /\ \A j \in 1 .. N : ScoreOf(plan[j]) \in Nat
      /\ N # 0
  <2>1. N # 0
    BY DEF ScoresAreOfTheFindings, N
  <2> QED BY <1>1, <2>1, PlanTyped, FindingsTyped
<1>3. PICK n : n = AtMost(N, TopN) /\ n \in 1 .. N /\ (TopN < N => n = TopN)
  BY <1>2, RiskConstants DEF AtMost
<1>4. overall[1] = Total[n] /\ overall[2] = n
  BY <1>2, <1>3 DEF ConclusionFollows, AllAssessed, OverallScore
<1>5. Total[n] * N >= Total[N] * n
  <2>1. N \in n .. N
    BY <1>2, <1>3
  <2> QED BY <1>1, <1>2, <1>3, <2>1, MeanFalls
<1>6. ASSUME NEW j \in 1 .. N, j > TopN PROVE Total[n] >= ScoreOf(plan[j]) * n
  <2>1. n = TopN /\ n \in 0 .. N
    BY <1>2, <1>3, <1>6, RiskConstants
  <2>2. PICK x \in Nat : x = ScoreOf(plan[j])
    BY <1>2
  <2>3. \A i \in 1 .. n : ScoreOf(plan[i]) >= x
    <3> SUFFICES ASSUME NEW i \in 1 .. n PROVE ScoreOf(plan[i]) >= x
      OBVIOUS
    <3>1. i \in 1 .. N /\ j \in i .. N
      BY <1>2, <1>3, <1>6, <2>1
    <3> QED BY <1>1, <1>2, <2>2, <3>1, DescendingIsSorted
  <2>4. Total[n] >= n * x
    BY <1>2, <2>1, <2>3, TotalOfLarge
  <2>5. n * x = x * n
    BY <1>3
  <2> QED BY <2>2, <2>4, <2>5
<1> QED BY <1>2, <1>4, <1>5, <1>6

\* As many actions of a file stand in the plan as it has findings.
LEMMA AsManyActions ==
  ASSUME ScoresAreOfTheFindings, NEW order, IsOrder(order), NEW f
  PROVE  Cardinality(OfFile(f, N)) = Cardinality(In(f))
<1>1. /\ N \in Nat /\ DOMAIN findings = 1 .. N
      /\ order \in [1 .. N -> 1 .. N] /\ \A i \in 1 .. N : \E j \in 1 .. N : order[j] = i
      /\ \A j \in 1 .. N : FileOf(plan[j]) = findings[order[j]].file
  BY FindingsTyped, PlanTyped DEF IsOrder
<1>2. IsFiniteSet(1 .. N)
  BY <1>1, FS_Interval
<1>3. order \in Injection(1 .. N, 1 .. N)
  <2>1. order \in Surjection(1 .. N, 1 .. N)
    BY <1>1 DEF Surjection
  <2> QED BY <1>2, <2>1, FS_SurjSameCardinalityImpliesInj
<1>4. \A i, j \in 1 .. N : order[i] = order[j] => i = j
  BY <1>3 DEF Injection, IsInjective
<1> DEFINE S == OfFile(f, N)
           T == In(f)
           g == [j \in S |-> order[j]]
<1>5. S = {j \in 1 .. N : findings[order[j]].file = f} /\ T = {i \in 1 .. N : findings[i].file = f}
  BY <1>1 DEF OfFile, In
<1>6. IsFiniteSet(S)
  BY <1>2, <1>5, FS_Subset
<1>7. g \in [S -> T]
  BY <1>1, <1>5
<1>8. \A i, j \in S : g[i] = g[j] => i = j
  BY <1>4, <1>5
<1>9. \A i \in T : \E j \in S : g[j] = i
  <2> SUFFICES ASSUME NEW i \in T PROVE \E j \in S : g[j] = i
    OBVIOUS
  <2>1. PICK j \in 1 .. N : order[j] = i
    BY <1>1, <1>5
  <2>2. j \in S
    BY <1>5, <2>1
  <2> QED BY <2>1, <2>2
<1> HIDE DEF S, T, g
<1>10. g \in Bijection(S, T)
  BY <1>7, <1>8, <1>9 DEF Bijection, Injection, Surjection, IsInjective
<1>11. Cardinality(T) = Cardinality(S)
  BY <1>6, <1>10, FS_Bijection DEF ExistsBijection
<1> QED BY <1>11 DEF S, T

LEMMA SummariesFollow == ASSUME RiskInv PROVE PlanIsComplete /\ SummariesPartition
<1> USE DEF RiskInv
<1> SUFFICES ASSUME AllAssessed PROVE PlanIsComplete /\ SummariesPartition
  BY DEF PlanIsComplete, SummariesPartition
<1>1. PICK order : IsOrder(order)
  BY DEF PlanIsInOrder, AllAssessed
<1>2. /\ N \in Nat /\ DOMAIN findings = 1 .. N /\ Len(plan) = N /\ DOMAIN plan = 1 .. N
      /\ \A j \in 1 .. N : /\ order[j] \in 1 .. N
                           /\ plan[j] = <<order[j], Score(findings[order[j]])>>
                           /\ ScoreOf(plan[j]) = Score(findings[order[j]])
                           /\ FileOf(plan[j]) = findings[order[j]].file
      /\ \A i \in 1 .. N : \E j \in 1 .. N : order[j] = i
  BY <1>1, FindingsTyped, PlanTyped DEF IsOrder
<1>3. PlanIsComplete
  <2>1. ASSUME NEW i \in DOMAIN findings
        PROVE  \E j \in DOMAIN plan : plan[j] = <<i, Score(findings[i])>>
    <3>1. PICK j \in 1 .. N : order[j] = i
      BY <1>2
    <3> QED BY <1>2, <3>1
  <2> QED BY <1>2, <2>1 DEF PlanIsComplete, N
<1>4. /\ DOMAIN summary = {FileOf(plan[j]) : j \in 1 .. N}
      /\ \A f \in DOMAIN summary : SummaryIs(summary[f], f, N)
  BY DEF SummariesAreOfThePlan, SummarisedUpTo, AllAssessed
<1>5. DOMAIN summary = {findings[i].file : i \in DOMAIN findings}
  <2>1. ASSUME NEW j \in 1 .. N PROVE \E i \in 1 .. N : FileOf(plan[j]) = findings[i].file
    BY <1>2
  <2>2. ASSUME NEW i \in 1 .. N PROVE \E j \in 1 .. N : FileOf(plan[j]) = findings[i].file
    <3>1. PICK j \in 1 .. N : order[j] = i
      BY <1>2
    <3> QED BY <1>2, <3>1
  <2>3. {FileOf(plan[j]) : j \in 1 .. N} \subseteq {findings[i].file : i \in 1 .. N}
    BY <2>1
  <2>4. {findings[i].file : i \in 1 .. N} \subseteq {FileOf(plan[j]) : j \in 1 .. N}
    <3> SUFFICES ASSUME NEW i \in 1 .. N PROVE findings[i].file \in {FileOf(plan[j]) : j \in 1 .. N}
      OBVIOUS
    <3>1. PICK j \in 1 .. N : FileOf(plan[j]) = findings[i].file
      BY <2>2
    <3> QED BY <3>1
  <2> QED BY <1>2, <1>4, <2>3, <2>4
<1>6. ASSUME NEW f \in DOMAIN summary
      PROVE  /\ summary[f].count = Cardinality(In(f))
             /\ \A i \in In(f) : Score(findings[i]) <= summary[f].max
             /\ \E i \in In(f) : Score(findings[i]) = summary[f].max
             /\ summary[f].sum <= summary[f].count * summary[f].max
  <2>1. SummaryIs(summary[f], f, N)
    BY <1>4
  <2>2. summary[f].count = Cardinality(In(f))
    BY <1>1, <2>1, AsManyActions DEF SummaryIs
  <2>3. ASSUME NEW i \in In(f) PROVE Score(findings[i]) <= summary[f].max
    <3>1. i \in 1 .. N /\ findings[i].file = f
      BY <1>2 DEF In
    <3>2. PICK j \in 1 .. N : order[j] = i
      BY <1>2, <3>1
    <3>3. j \in OfFile(f, N)
      BY <1>2, <3>1, <3>2 DEF OfFile
    <3> QED BY <1>2, <2>1, <3>2, <3>3 DEF SummaryIs
  <2>4. \E i \in In(f) : Score(findings[i]) = summary[f].max
    <3>1. PICK j \in OfFile(f, N) : ScoreOf(plan[j]) = summary[f].max
      BY <2>1 DEF SummaryIs
    <3>2. j \in 1 .. N /\ FileOf(plan[j]) = f
      BY <3>1 DEF OfFile
    <3>3. order[j] \in In(f)
      BY <1>2, <3>2 DEF In
    <3> QED BY <1>2, <3>1, <3>2, <3>3
  <2> QED BY <2>1, <2>2, <2>3, <2>4 DEF SummaryIs
<1> QED BY <1>3, <1>5, <1>6 DEF SummariesPartition

LEMMA VerdictFollows == ASSUME RiskInv PROVE ReadinessIsHonest
<1> USE DEF RiskInv
<1> SUFFICES ASSUME AllAssessed PROVE ReadinessIsHonest
  BY DEF ReadinessIsHonest
<1>1. PICK order : IsOrder(order)
  BY DEF PlanIsInOrder, AllAssessed
<1>2. /\ N \in Nat /\ DOMAIN findings = 1 .. N
      /\ \A j \in 1 .. N : ScoreOf(plan[j]) = Score(findings[order[j]]) /\ ScoreOf(plan[j]) \in Nat
      /\ \A i \in 1 .. N : \E j \in 1 .. N : order[j] = i
  BY <1>1, FindingsTyped, PlanTyped DEF IsOrder
<1>3. counts \in [Priority -> Nat] /\ \A j \in 1 .. N : counts[Band(ScoreOf(plan[j]))] > 0
  BY DEF CountsAreOfThePlan, CountedUpTo, AllAssessed
<1>4. ASSUME NEW i \in 1 .. N
      PROVE  counts[Band(Score(findings[i]))] > 0 /\ Score(findings[i]) \in Nat
  <2>1. PICK j \in 1 .. N : order[j] = i
    BY <1>2
  <2> QED BY <1>2, <1>3, <2>1
<1>5. readiness = Readiness
  BY DEF ConclusionFollows, AllAssessed
<1>6. counts["CRITICAL"] \in Nat /\ counts["HIGH"] \in Nat
  BY <1>3 DEF Priority
<1>7. readiness = "compliant" => findings = <<>> /\ certs = {}
  BY <1>5 DEF Readiness
<1>8. readiness = "near-compliant" => \A i \in DOMAIN findings : Score(findings[i]) < 7 * Points
  <2> SUFFICES ASSUME readiness = "near-compliant", NEW i \in 1 .. N, Score(findings[i]) >= 7 * Points
               PROVE  FALSE
    BY <1>2, <1>4 DEF Points, One
  <2>1. ~(counts["CRITICAL"] > 0) /\ ~(counts["HIGH"] > 0)
    BY <1>5 DEF Readiness
  <2>2. Band(Score(findings[i])) \in {"CRITICAL", "HIGH"}
    BY <1>4, BandIsPriority
  <2> QED BY <1>4, <2>1, <2>2
<1>9. readiness = "in-progress" => \A i \in DOMAIN findings : Score(findings[i]) < 9 * Points
  <2> SUFFICES ASSUME readiness = "in-progress", NEW i \in 1 .. N, Score(findings[i]) >= 9 * Points
               PROVE  FALSE
    BY <1>2, <1>4 DEF Points, One
  <2>1. ~(counts["CRITICAL"] > 0)
    BY <1>5 DEF Readiness
  <2>2. Band(Score(findings[i])) = "CRITICAL"
    BY <1>4, BandIsPriority
  <2> QED BY <1>4, <2>1, <2>2
<1> QED BY <1>7, <1>8, <1>9 DEF ReadinessIsHonest

\* Whatever is found in whatever files, the plan holds each finding once, the summaries
\* partition it, the head of it decides the score, and the verdict does not flatter
\* (AssessmentIsSound, of assess).
THEOREM AssessmentIsSoundAlways == AssessSpec => []AssessmentIsSound
<1>1. AssessSpec => []RiskInv
  BY AssessStarts, AssessKeeps, PTL DEF AssessSpec
<1>2. RiskInv => AssessmentIsSound
  BY HeadFollows, SummariesFollow, VerdictFollows DEF AssessmentIsSound
<1> QED BY <1>1, <1>2, PTL
=============================================================================
