--------------------------- MODULE AnalyserProofs ---------------------------
(***************************************************************************)
(* Theorems about two parts of the AST analyser: the search for reachable  *)
(* functions, for every translation unit (any definitions, names, lines,   *)
(* calls and linkages); and the values of local variables, for every       *)
(* translation unit, every order in which its functions are populated, all *)
(* limits of depth and everything a caller may pass.                       *)
(***************************************************************************)
EXTENDS Reachability, LocalValues, FiniteSetTheorems, WellFoundedInduction, TLAPS

(***************************************************************************)
(* The type invariant.                                                     *)
(***************************************************************************)
\* A key made for a definition is a key, and it is new to the map or the
\* one that the definition shares with an earlier one.
LEMMA KeyForIsKey == ASSUME NEW d \in Def PROVE KeyFor(d) \in Key
BY ConstantsOK DEF KeyFor, Key

\* A call is resolved to keys of the map (find_overload_keys and the
\* simple-name fallback).
LEMMA CalleesAreKeys == ASSUME NEW k PROVE Callees(k) \subseteq DOMAIN summaries
BY DEF Callees, Resolve, OverloadKeys, UniqueSimpleMatch

\* Every behaviour keeps the map a function from keys to definitions already
\* met and the work sets inside its domain.
THEOREM TypeCorrect == Spec => []TypeOK
<1>1. Init => TypeOK
  BY DEF Init, TypeOK
<1>2. TypeOK /\ [Next]_vars => TypeOK'
  <2> SUFFICES ASSUME TypeOK, [Next]_vars PROVE TypeOK'
    OBVIOUS
  <2> USE DEF TypeOK
  <2>1. ASSUME NEW d \in Def, Register(d) PROVE TypeOK'
    <3> DEFINE K == KeyFor(d)
    <3>1. K \in Key
      BY KeyForIsKey
    <3> HIDE DEF K
    <3>2. /\ summaries' = [k \in DOMAIN summaries \cup {K} |-> IF k = K THEN d ELSE summaries[k]]
          /\ unmet' = unmet \ {d} /\ d \in unmet
          /\ UNCHANGED <<calls, linkage, toExamine, frontier, reachable, pc>>
      BY <2>1 DEF Register, K, unit
    <3>3. DOMAIN summaries' = DOMAIN summaries \cup {K}
      BY <3>2
    <3>4. \A k \in DOMAIN summaries' : summaries'[k] \in Def \ unmet'
      BY <3>2, <3>3
    <3>5. summaries' \in [DOMAIN summaries' -> (Def \ unmet)']
      BY <3>2, <3>3, <3>4
    <3> QED
      BY <3>1, <3>2, <3>3, <3>5
  <2>2. CASE StartRoots
    BY <2>2 DEF StartRoots, unit
  <2>3. ASSUME NEW k \in toExamine, ExamineRoot(k) PROVE TypeOK'
    BY <2>3 DEF ExamineRoot, unit
  <2>4. CASE StartSearch
    BY <2>4 DEF StartSearch, unit
  <2>5. ASSUME NEW k \in frontier, Visit(k) PROVE TypeOK'
    BY <2>5, CalleesAreKeys DEF Visit, unit
  <2>6. CASE Finish
    BY <2>6 DEF Finish, unit
  <2>7. CASE UNCHANGED vars
    BY <2>7 DEF vars
  <2> QED
    BY <2>1, <2>2, <2>3, <2>4, <2>5, <2>6, <2>7 DEF Next, Terminated
<1> QED
  BY <1>1, <1>2, PTL DEF Spec

(***************************************************************************)
(* The loop invariant of the search.  It is not inductive alone: it needs  *)
(* what the two earlier phases leave behind.                               *)
(***************************************************************************)
WorkInv ==
  /\ pc = "collect" => reachable = {} /\ frontier = {}
  /\ pc # "collect" => unmet = {}
  /\ pc = "roots" => /\ frontier = reachable
                     /\ \A k \in DOMAIN summaries :
                          IsRoot(summaries[k]) => k \in reachable \cup toExamine
  /\ pc = "done" => frontier = {}
  /\ SearchInvariant

\* Once the unit has been visited, the search changes none of what roots and
\* callees are computed from.
LEMMA GraphFixed ==
  ASSUME UNCHANGED <<calls, linkage, summaries>>
  PROVE  /\ \A d : IsRoot(d)' = IsRoot(d)
         /\ \A k : Callees(k)' = Callees(k)
BY DEF IsRoot, IsStatic, IsInAnonNs, Callees, Resolve, OverloadKeys, UniqueSimpleMatch

\* What each phase leaves to the next, and the search's own loop invariant
\* (compute_reachability).
THEOREM WorkCorrect == Spec => []WorkInv
<1>1. Init => WorkInv
  BY DEF Init, WorkInv, SearchInvariant
<1>2. TypeOK /\ WorkInv /\ [Next]_vars => WorkInv'
  <2> SUFFICES ASSUME TypeOK, WorkInv, [Next]_vars PROVE WorkInv'
    OBVIOUS
  <2> USE DEF WorkInv, SearchInvariant
  <2>1. ASSUME NEW d \in Def, Register(d) PROVE WorkInv'
    BY <2>1 DEF Register, unit
  <2>2. CASE StartRoots
    BY <2>2 DEF StartRoots, unit
  <2>3. ASSUME NEW k \in toExamine, ExamineRoot(k) PROVE WorkInv'
    <3>1. UNCHANGED <<calls, linkage, summaries>>
      BY <2>3 DEF ExamineRoot, unit
    <3>2. \A j \in DOMAIN summaries' :
            IsRoot(summaries[j])' => j \in reachable' \cup toExamine'
      BY <2>3, <3>1, GraphFixed DEF ExamineRoot
    <3> QED
      BY <2>3, <3>1, <3>2 DEF ExamineRoot, unit
  <2>4. CASE StartSearch
    <3>1. UNCHANGED <<calls, linkage, summaries>>
      BY <2>4 DEF StartSearch, unit
    <3> QED
      BY <2>4, <3>1, GraphFixed DEF StartSearch, unit
  <2>5. ASSUME NEW k \in frontier, Visit(k) PROVE WorkInv'
    <3>1. UNCHANGED <<calls, linkage, summaries>>
      BY <2>5 DEF Visit, unit
    <3>2. \A j \in reachable' \ frontier' : Callees(j) \subseteq reachable'
      BY <2>5 DEF Visit
    <3> QED
      BY <2>5, <3>1, <3>2, GraphFixed DEF Visit, unit
  <2>6. CASE Finish
    <3>1. UNCHANGED <<calls, linkage, summaries>>
      BY <2>6 DEF Finish, unit
    <3> QED
      BY <2>6, <3>1, GraphFixed DEF Finish, unit
  <2>7. CASE UNCHANGED vars
    <3>1. UNCHANGED <<calls, linkage, summaries>>
      BY <2>7 DEF vars
    <3> QED
      BY <2>7, <3>1, GraphFixed DEF vars
  <2> QED
    BY <2>1, <2>2, <2>3, <2>4, <2>5, <2>6, <2>7 DEF Next, Terminated
<1> QED
  BY <1>1, <1>2, TypeCorrect, PTL DEF Spec

\* Every root ends up reached, and a key taken from the queue has had all its
\* callees reached: the search forgets nothing (compute_reachability).
THEOREM SearchForgetsNothing == Spec => []SearchInvariant
<1>1. WorkInv => SearchInvariant
  BY DEF WorkInv
<1> QED
  BY <1>1, WorkCorrect, PTL

(***************************************************************************)
(* The map of summaries stands for the definitions one to one, provided    *)
(* that no two of a name start on one line.                                *)
(***************************************************************************)
KeyInv ==
  /\ \A k \in DOMAIN summaries :
        /\ k = <<Qual[summaries[k]], 0>> \/ k = <<Qual[summaries[k]], Line[summaries[k]]>>
        /\ \A j \in DOMAIN summaries : summaries[j] = summaries[k] => j = k
  /\ \A d \in Def \ unmet : \E k \in DOMAIN summaries : summaries[k] = d

\* Every definition of the unit keeps a summary of its own when no two of a
\* name share a line (build_function_summary).
THEOREM NoSummaryIsReplaced ==
  ASSUME LinesDistinct
  PROVE  Spec => []KeyInv
<1>1. Init => KeyInv
  BY DEF Init, KeyInv
<1>2. TypeOK /\ KeyInv /\ [Next]_vars => KeyInv'
  <2> SUFFICES ASSUME TypeOK, KeyInv, [Next]_vars PROVE KeyInv'
    OBVIOUS
  <2>1. ASSUME NEW d \in Def, Register(d) PROVE KeyInv'
    <3> DEFINE K == KeyFor(d)
    <3>1. /\ summaries' = [k \in DOMAIN summaries \cup {K} |-> IF k = K THEN d ELSE summaries[k]]
          /\ unmet' = unmet \ {d} /\ d \in unmet
      BY <2>1 DEF Register
    <3>2. K = <<Qual[d], 0>> \/ K = <<Qual[d], Line[d]>>
      BY DEF KeyFor
    <3>3. K \notin DOMAIN summaries
      <4>1. CASE <<Qual[d], 0>> \notin DOMAIN summaries
        BY <4>1 DEF KeyFor
      <4>2. CASE <<Qual[d], 0>> \in DOMAIN summaries
        <5> SUFFICES ASSUME <<Qual[d], Line[d]>> \in DOMAIN summaries PROVE FALSE
          BY <4>2 DEF KeyFor
        <5> DEFINE e == summaries[<<Qual[d], Line[d]>>]
        <5>1. e \in Def \ unmet
          BY DEF TypeOK
        <5>2. Line[d] # 0
          BY ConstantsOK
        <5>3. Qual[e] = Qual[d] /\ Line[e] = Line[d]
          BY <5>2 DEF KeyInv
        <5> QED
          BY <5>1, <5>3, <3>1, LinesDistinct DEF LinesDistinct
      <4> QED
        BY <4>1, <4>2
    <3> HIDE DEF K
    <3>4. /\ DOMAIN summaries' = DOMAIN summaries \cup {K}
          /\ summaries'[K] = d
          /\ \A k \in DOMAIN summaries : summaries'[k] = summaries[k] /\ summaries[k] # d
      BY <3>1, <3>3 DEF TypeOK
    <3>5. \A k \in DOMAIN summaries' :
            k = <<Qual[summaries'[k]], 0>> \/ k = <<Qual[summaries'[k]], Line[summaries'[k]]>>
      BY <3>2, <3>4 DEF KeyInv
    <3>6. \A k, j \in DOMAIN summaries' : summaries'[j] = summaries'[k] => j = k
      BY <3>4 DEF KeyInv
    <3>7. \A c \in Def \ unmet' : \E k \in DOMAIN summaries' : summaries'[k] = c
      BY <3>1, <3>4 DEF KeyInv
    <3> QED
      BY <3>5, <3>6, <3>7 DEF KeyInv
  <2>2. CASE UNCHANGED <<summaries, unmet>>
    BY <2>2 DEF KeyInv
  <2> QED
    BY <2>1, <2>2 DEF Next, vars, StartRoots, ExamineRoot, StartSearch, Visit, Finish, Terminated
<1> QED
  BY <1>1, <1>2, TypeCorrect, PTL DEF Spec

\* Resolving a call through the map gives the definitions the source gives.
LEMMA ResolveIsEntered ==
  ASSUME TypeOK, KeyInv, unmet = {}, NEW n
  PROVE  {summaries[k] : k \in Resolve(n)} = Entered(n)
<1>1. \A k \in DOMAIN summaries : summaries[k] \in Def /\ k[1] = Qual[summaries[k]]
  BY DEF TypeOK, KeyInv
<1>2. \A d \in Def : \E k \in DOMAIN summaries : summaries[k] = d
  BY DEF KeyInv
<1>3. \A j, k \in DOMAIN summaries : summaries[j] = summaries[k] => j = k
  BY DEF KeyInv
<1>4. CASE \E e \in Def : Qual[e] = n
  <2>1. OverloadKeys(n) # {}
    BY <1>1, <1>2, <1>4 DEF OverloadKeys
  <2>2. Resolve(n) = {k \in DOMAIN summaries : Qual[summaries[k]] = n}
    BY <2>1, <1>1 DEF Resolve, OverloadKeys
  <2>3. Entered(n) = {e \in Def : Qual[e] = n}
    BY <1>4 DEF Entered
  <2> QED
    BY <2>2, <2>3, <1>1, <1>2
<1>5. CASE ~ \E e \in Def : Qual[e] = n
  <2>1. OverloadKeys(n) = {}
    BY <1>1, <1>5 DEF OverloadKeys
  <2> DEFINE B == {k \in DOMAIN summaries : Simple[summaries[k]] = n}
             D == {x \in Def : Simple[x] = n}
  <2>2. Resolve(n) = {k \in B : B = {k}}
    BY <2>1 DEF Resolve, UniqueSimpleMatch
  <2>3. Entered(n) = {e \in Def : D = {e}}
    BY <1>5 DEF Entered
  <2>4. \A k \in DOMAIN summaries : (k \in B /\ B = {k}) <=> D = {summaries[k]}
    BY <1>1, <1>2, <1>3
  <2>5. \A d \in Entered(n) : \E k \in Resolve(n) : summaries[k] = d
    BY <2>2, <2>3, <2>4, <1>2
  <2>6. \A k \in Resolve(n) : summaries[k] \in Entered(n)
    BY <2>2, <2>3, <2>4, <1>1
  <2> QED
    BY <2>5, <2>6
<1> QED
  BY <1>4, <1>5

\* The callees the map has are those of the source.
LEMMA CalleesAreSourceEdges ==
  ASSUME TypeOK, KeyInv, unmet = {}, NEW k \in DOMAIN summaries
  PROVE  {summaries[j] : j \in Callees(k)} = SourceEdges[summaries[k]]
<1>1. summaries[k] \in Def
  BY DEF TypeOK
<1>2. SourceEdges[summaries[k]] = UNION {Entered(n) : n \in calls[summaries[k]]}
  BY <1>1 DEF SourceEdges
<1>3. \A n : {summaries[j] : j \in Resolve(n)} = Entered(n)
  BY ResolveIsEntered
<1> QED
  BY <1>2, <1>3 DEF Callees

(***************************************************************************)
(* Everything reached lies in every closed set: the search adds no         *)
(* definition that no path from a root enters.                             *)
(***************************************************************************)
OnlyForced ==
  \A S \in SUBSET Def :
    Abstract!Closed(S) => \A k \in reachable : summaries[k] \in S

\* The source's graph never changes, so a set closed in one state is closed
\* in the next.
LEMMA SourceFixed ==
  ASSUME [Next]_vars
  PROVE  /\ UNCHANGED <<SourceEdges, SourceRoots>>
         /\ \A S : Abstract!Closed(S)' = Abstract!Closed(S)
<1>1. UNCHANGED <<calls, linkage>>
  BY DEF Next, vars, unit, Register, StartRoots, ExamineRoot, StartSearch, Visit, Finish,
         Terminated
<1>2. UNCHANGED <<SourceEdges, SourceRoots>>
  BY <1>1 DEF SourceEdges, SourceRoots, Entered, IsRoot, IsStatic, IsInAnonNs
<1> QED
  BY <1>2 DEF Abstract!Closed

\* When no two definitions of a name share a line, nothing is reached that a
\* root does not force (compute_reachability).
THEOREM ReachedIsForced ==
  ASSUME LinesDistinct
  PROVE  Spec => []OnlyForced
<1>1. Init => OnlyForced
  BY DEF Init, OnlyForced
<1>2. TypeOK /\ WorkInv /\ KeyInv /\ OnlyForced /\ [Next]_vars => OnlyForced'
  <2> SUFFICES ASSUME TypeOK, WorkInv, KeyInv, OnlyForced, [Next]_vars,
                      NEW S \in SUBSET Def, Abstract!Closed(S)',
                      NEW j \in reachable'
               PROVE  summaries'[j] \in S
    BY DEF OnlyForced
  <2>1. Abstract!Closed(S)
    BY SourceFixed
  <2>2. \A k \in reachable : summaries[k] \in S
    BY <2>1 DEF OnlyForced
  <2>3. ASSUME NEW d \in Def, Register(d) PROVE summaries'[j] \in S
    BY <2>3 DEF Register, WorkInv
  <2>4. ASSUME NEW k \in toExamine, ExamineRoot(k) PROVE summaries'[j] \in S
    <3>1. UNCHANGED summaries
      BY <2>4 DEF ExamineRoot
    <3>2. CASE j \in reachable
      BY <3>1, <3>2, <2>2
    <3>3. CASE j \notin reachable
      <4>1. j = k /\ IsRoot(summaries[k]) /\ summaries[k] \in Def
        BY <3>3, <2>4 DEF ExamineRoot, TypeOK
      <4> QED
        BY <4>1, <3>1, <2>1 DEF Abstract!Closed, SourceRoots
    <3> QED
      BY <3>2, <3>3
  <2>5. ASSUME NEW k \in frontier, Visit(k) PROVE summaries'[j] \in S
    <3>1. UNCHANGED summaries
      BY <2>5 DEF Visit
    <3>2. CASE j \in reachable
      BY <3>1, <3>2, <2>2
    <3>3. CASE j \notin reachable
      <4>1. j \in Callees(k) /\ k \in DOMAIN summaries /\ summaries[k] \in S
        BY <3>3, <2>5, <2>2 DEF Visit, TypeOK
      <4>2. unmet = {}
        BY <2>5 DEF Visit, WorkInv
      <4>3. {summaries[i] : i \in Callees(k)} = SourceEdges[summaries[k]]
        BY <4>1, <4>2, CalleesAreSourceEdges
      <4>4. summaries[j] \in SourceEdges[summaries[k]]
        BY <4>1, <4>3
      <4>5. SourceEdges[summaries[k]] \subseteq S
        BY <4>1, <2>1 DEF Abstract!Closed
      <4> QED
        BY <4>4, <4>5, <3>1
    <3> QED
      BY <3>2, <3>3
  <2>6. CASE UNCHANGED <<summaries, reachable>>
    BY <2>6, <2>2
  <2> QED
    BY <2>3, <2>4, <2>5, <2>6 DEF Next, vars, StartRoots, StartSearch, Finish, Terminated
<1> QED
  BY <1>1, <1>2, WorkCorrect, TypeCorrect, NoSummaryIsReplaced, PTL DEF Spec

(***************************************************************************)
(* The refinement.                                                         *)
(***************************************************************************)
\* When the queue is empty, the definitions reached are the least closed set.
LEMMA DoneIsClosure ==
  ASSUME TypeOK, KeyInv, WorkInv, OnlyForced, pc = "search", frontier = {}
  PROVE  {summaries[k] : k \in reachable} = Abstract!Closure
<1> DEFINE R == {summaries[k] : k \in reachable}
<1>1. R \subseteq Def /\ unmet = {}
  BY DEF TypeOK, WorkInv
<1>2. SourceRoots \subseteq R
  <2> SUFFICES ASSUME NEW d \in Def, IsRoot(d) PROVE d \in R
    BY DEF SourceRoots
  <2>1. PICK k \in DOMAIN summaries : summaries[k] = d
    BY <1>1 DEF KeyInv
  <2> QED
    BY <2>1 DEF WorkInv, SearchInvariant
<1>3. \A d \in R : SourceEdges[d] \subseteq R
  <2> SUFFICES ASSUME NEW k \in reachable PROVE SourceEdges[summaries[k]] \subseteq R
    OBVIOUS
  <2>1. Callees(k) \subseteq reachable
    BY DEF WorkInv, SearchInvariant
  <2>2. {summaries[j] : j \in Callees(k)} = SourceEdges[summaries[k]]
    BY <1>1, CalleesAreSourceEdges DEF TypeOK
  <2> QED
    BY <2>1, <2>2
<1>4. Abstract!Closed(R)
  BY <1>2, <1>3 DEF Abstract!Closed
<1>5. Abstract!Closure \subseteq R
  BY <1>1, <1>4 DEF Abstract!Closure
<1>6. R \subseteq Abstract!Closure
  BY <1>1 DEF Abstract!Closure, OnlyForced
<1> QED
  BY <1>5, <1>6

\* The search decides, for every translation unit whose same-named definitions
\* start on different lines, what the one-step specification decides
\* (precollect_visitor, build_function_summary, compute_reachability).
THEOREM Refinement ==
  ASSUME LinesDistinct
  PROVE  Spec => ReachRefinesAbstract
<1>1. Init => Abstract!Init
  <2> SUFFICES ASSUME Init PROVE Abstract!Init
    OBVIOUS
  <2>1. SourceEdges \in [Def -> SUBSET Def]
    BY DEF SourceEdges, Entered
  <2>2. SourceRoots \in SUBSET Def
    BY DEF SourceRoots
  <2> QED
    BY <2>1, <2>2 DEF Init, Abstract!Init, Verdict
<1>2. TypeOK /\ WorkInv /\ KeyInv /\ OnlyForced /\ [Next]_vars
        => [Abstract!Decide]_(Abstract!vars)
  <2> SUFFICES ASSUME TypeOK, WorkInv, KeyInv, OnlyForced, [Next]_vars
               PROVE  [Abstract!Decide]_(Abstract!vars)
    OBVIOUS
  <2>1. UNCHANGED <<SourceEdges, SourceRoots>>
    BY SourceFixed
  <2>2. CASE Finish
    <3>1. pc = "search" /\ pc' = "done" /\ frontier = {} /\ UNCHANGED <<summaries, reachable>>
      BY <2>2 DEF Finish
    <3>2. Verdict' = Abstract!Closure
      BY <3>1, DoneIsClosure DEF Verdict
    <3> QED
      BY <2>1, <3>1, <3>2 DEF Abstract!Decide
  <2>3. CASE pc # "done" /\ pc' # "done"
    <3>1. UNCHANGED <<Verdict, pc = "done">>
      BY <2>3 DEF Verdict
    <3> QED
      BY <2>1, <3>1 DEF Abstract!vars
  <2>4. CASE UNCHANGED vars
    <3>1. UNCHANGED <<Verdict, pc = "done">>
      BY <2>4 DEF Verdict, vars
    <3> QED
      BY <2>1, <3>1 DEF Abstract!vars
  <2> QED
    BY <2>2, <2>3, <2>4
       DEF Next, Register, StartRoots, ExamineRoot, StartSearch, Visit, Terminated
<1> QED
  BY <1>1, <1>2, TypeCorrect, WorkCorrect, NoSummaryIsReplaced, ReachedIsForced, PTL
     DEF Spec, ReachRefinesAbstract, Abstract!Spec

-----------------------------------------------------------------------------
(***************************************************************************)
(* Values of local variables.  Numbers first.                              *)
(***************************************************************************)
\* Every set of natural numbers that is not empty has a least element.
LEMMA LeastNat ==
  ASSUME NEW T, T \subseteq Nat, T # {}
  PROVE  \E m \in T : \A k \in T : m <= k
<1> DEFINE R == OpToRel(<, Nat)
<1>1. IsWellFoundedOn(R, Nat)
  BY NatLessThanWellFounded
<1>2. \A x, y \in Nat : x < y => <<x, y>> \in R
  BY DEF OpToRel
<1> HIDE DEF R
<1>3. PICK x \in T : \A y \in T : ~ (<<y, x>> \in R)
  BY <1>1, WFMin
<1>4. ASSUME NEW k \in T PROVE x <= k
  <2>1. k \in Nat /\ x \in Nat
    OBVIOUS
  <2>2. ~(k < x)
    BY <1>2, <1>3, <2>1
  <2> QED BY <2>1, <2>2
<1> QED BY <1>4

-----------------------------------------------------------------------------
(***************************************************************************)
(* Recursive definitions.  A step is given as a function, so that a lemma  *)
(* can be about any of them.                                               *)
(***************************************************************************)
\* A set of natural numbers with 0 and the successor of each member is Nat.
LEMMA Induction ==
  ASSUME NEW T, 0 \in T, \A n \in Nat : n \in T => n + 1 \in T
  PROVE  Nat \subseteq T
<1> DEFINE U == Nat \ T
<1> SUFFICES ASSUME U # {} PROVE FALSE
  OBVIOUS
<1>1. PICK m \in U : \A k \in U : m <= k
  BY LeastNat
<1>2. m \in Nat /\ m # 0 /\ m - 1 \in Nat /\ ~(m <= m - 1) /\ (m - 1) + 1 = m
  OBVIOUS
<1>3. m - 1 \in T
  BY <1>1, <1>2
<1> QED BY <1>2, <1>3

\* g follows the step up to n.
Follows(g, base, step, n) == g[0] = base /\ \A k \in 1 .. n : g[k] = step[k, g[k - 1]]

Recurs(g, base, step) == g[0] = base /\ \A n \in Nat : n > 0 => g[n] = step[n, g[n - 1]]

\* A function on the natural numbers may be defined by its value at 0 and its
\* value at n from that at n - 1.
LEMMA NatRecursion ==
  ASSUME NEW S, NEW base \in S, NEW step \in [Nat \X S -> S]
  PROVE  \E g \in [Nat -> S] : Recurs(g, base, step)
<1> DEFINE T == {n \in Nat : \E g \in [0 .. n -> S] : Follows(g, base, step, n)}
<1>1. 0 \in T
  <2>1. [k \in 0 .. 0 |-> base] \in [0 .. 0 -> S] /\ Follows([k \in 0 .. 0 |-> base], base, step, 0)
    BY DEF Follows
  <2> QED BY <2>1
<1>2. ASSUME NEW n \in Nat, n \in T PROVE n + 1 \in T
  <2>1. PICK g \in [0 .. n -> S] : Follows(g, base, step, n)
    BY <1>2
  <2> DEFINE h == [k \in 0 .. n + 1 |-> IF k <= n THEN g[k] ELSE step[n + 1, g[n]]]
  <2>2. n \in 0 .. n /\ n + 1 \in Nat /\ 0 \in 0 .. n /\ 0 \in 0 .. n + 1 /\ ~(n + 1 <= n)
    OBVIOUS
  <2>3. g[n] \in S /\ step[n + 1, g[n]] \in S
    BY <2>1, <2>2
  <2>4. \A k \in 0 .. n + 1 : k <= n => k \in 0 .. n
    OBVIOUS
  <2>5. h \in [0 .. n + 1 -> S]
    BY <2>1, <2>3, <2>4
  <2>6. ASSUME NEW k \in 1 .. n + 1 PROVE h[k] = step[k, h[k - 1]]
    <3>1. k - 1 \in 0 .. n + 1 /\ k - 1 <= n /\ k \in 0 .. n + 1 /\ k \in Nat
      OBVIOUS
    <3>2. h[k - 1] = g[k - 1]
      BY <3>1
    <3>3. CASE k <= n
      <4>1. k \in 1 .. n
        BY <3>3
      <4>2. h[k] = g[k]
        BY <3>1, <3>3
      <4> HIDE DEF h
      <4> QED BY <2>1, <3>2, <4>1, <4>2 DEF Follows
    <3>4. CASE k = n + 1
      <4>1. k - 1 = n
        BY <3>4
      <4>2. h[k] = step[n + 1, g[n]]
        BY <2>2, <3>1, <3>4
      <4> HIDE DEF h
      <4> QED BY <3>2, <3>4, <4>1, <4>2
    <3>5. k <= n \/ k = n + 1
      BY <3>1
    <3> QED BY <3>3, <3>4, <3>5
  <2>7. h[0] = base
    <3>1. h[0] = g[0]
      BY <2>2
    <3> HIDE DEF h
    <3> QED BY <2>1, <3>1 DEF Follows
  <2> HIDE DEF h
  <2>8. Follows(h, base, step, n + 1)
    BY <2>6, <2>7 DEF Follows
  <2> QED BY <2>2, <2>5, <2>8
<1>3. Nat \subseteq T
  <2> HIDE DEF T
  <2> QED BY <1>1, <1>2, Induction
<1> DEFINE part(n) == CHOOSE g \in [0 .. n -> S] : Follows(g, base, step, n)
<1>4. \A n \in Nat : part(n) \in [0 .. n -> S] /\ Follows(part(n), base, step, n)
  <2> TAKE n \in Nat
  <2>1. \E g \in [0 .. n -> S] : Follows(g, base, step, n)
    BY <1>3
  <2> QED BY <2>1
<1> HIDE DEF part
<1>5. ASSUME NEW n \in Nat PROVE \A k \in 0 .. n : part(n)[k] = part(k)[k]
  <2> DEFINE V == {k \in Nat : k \in 0 .. n => \A m \in k .. n : part(m)[k] = part(n)[k]}
  <2>1. 0 \in V
    <3>1. ASSUME NEW m \in 0 .. n PROVE part(m)[0] = part(n)[0]
      <4>1. m \in Nat
        OBVIOUS
      <4> QED BY <1>4, <4>1 DEF Follows
    <3> QED BY <3>1
  <2>2. ASSUME NEW k \in Nat, k \in V PROVE k + 1 \in V
    <3> SUFFICES ASSUME k + 1 \in 0 .. n, NEW m \in (k + 1) .. n PROVE part(m)[k + 1] = part(n)[k + 1]
      OBVIOUS
    <3>1. m \in Nat /\ k + 1 \in 1 .. m /\ k + 1 \in 1 .. n /\ m \in k .. n /\ (k + 1) - 1 = k
      OBVIOUS
    <3>2. part(m)[k + 1] = step[k + 1, part(m)[k]]
      BY <1>4, <3>1 DEF Follows
    <3>3. part(n)[k + 1] = step[k + 1, part(n)[k]]
      BY <1>4, <3>1 DEF Follows
    <3>4. part(m)[k] = part(n)[k]
      BY <2>2, <3>1
    <3> QED BY <3>2, <3>3, <3>4
  <2>3. Nat \subseteq V
    <3> HIDE DEF V
    <3> QED BY <2>1, <2>2, Induction
  <2> QED BY <2>3
<1> DEFINE f == [n \in Nat |-> part(n)[n]]
<1>6. f \in [Nat -> S]
  BY <1>4
<1>7. f[0] = base
  BY <1>4 DEF Follows
<1>8. ASSUME NEW n \in Nat, n > 0 PROVE f[n] = step[n, f[n - 1]]
  <2>1. n \in 1 .. n /\ n - 1 \in 0 .. n /\ n - 1 \in Nat
    BY <1>8
  <2>2. part(n)[n] = step[n, part(n)[n - 1]]
    BY <1>4, <2>1 DEF Follows
  <2>3. part(n)[n - 1] = part(n - 1)[n - 1]
    BY <1>5, <2>1
  <2> QED BY <2>1, <2>2, <2>3
<1> QED BY <1>6, <1>7, <1>8 DEF Recurs

\* The parts of an expression are expressions, and lower.
LEMMA PartsAreLower ==
  ASSUME NEW e \in Expr
  PROVE  /\ Parts(e) \subseteq Expr
         /\ Height[e] \in Nat
         /\ \A part \in Parts(e) : Height[part] \in Nat /\ Height[part] < Height[e]
<1>1. Parts(e) \subseteq Expr
  <2>1. CASE e.kind = "paren"
    <3>1. e.of \in Expr
      BY <2>1, ExpressionsAreTrees DEF IsExpression
    <3> QED BY <2>1, <3>1 DEF Parts
  <2>2. CASE e.kind = "call"
    <3>1. e.args \in Seq(Expr)
      BY <2>2, ExpressionsAreTrees DEF IsExpression
    <3> QED BY <2>2, <3>1 DEF Parts
  <2>3. CASE e.kind \notin {"paren", "call"}
    BY <2>3 DEF Parts
  <2> QED BY <2>1, <2>2, <2>3
<1> QED BY <1>1, ExpressionsAreTrees

\* The step at an expression looks at its parts only.
LooksAtParts(step, R) ==
  \A e \in Expr : \A g, h \in [Expr -> R] :
    (\A part \in Parts(e) : g[part] = h[part]) => step[e, g] = step[e, h]

\* A function on the expressions may be defined by its value at an expression
\* from those at the parts.
LEMMA TreeRecursion ==
  ASSUME NEW R, NEW r \in R, NEW step \in [Expr \X [Expr -> R] -> R], LooksAtParts(step, R)
  PROVE  \E f \in [Expr -> R] : \A e \in Expr : f[e] = step[e, f]
<1> DEFINE S == [Expr -> R]
           base == [e \in Expr |-> r]
           next == [a \in Nat \X S |-> [e \in Expr |-> step[e, a[2]]]]
<1>1. base \in S
  OBVIOUS
<1>2. next \in [Nat \X S -> S]
  OBVIOUS
<1>3. \A n \in Nat : \A g \in S : next[n, g] = [e \in Expr |-> step[e, g]]
  OBVIOUS
<1> HIDE DEF S, base, next
<1>4. PICK level \in [Nat -> S] : Recurs(level, base, next)
  BY <1>1, <1>2, NatRecursion
<1>5. ASSUME NEW n \in Nat, NEW e \in Expr PROVE level[n + 1][e] = step[e, level[n]]
  <2>1. n + 1 \in Nat /\ n + 1 > 0 /\ (n + 1) - 1 = n
    OBVIOUS
  <2>2. level[n] \in S
    OBVIOUS
  <2>3. level[n + 1] = next[n + 1, level[n]]
    BY <1>4, <2>1 DEF Recurs
  <2>4. next[n + 1, level[n]] = [c \in Expr |-> step[c, level[n]]]
    BY <1>3, <2>1, <2>2
  <2> QED BY <2>3, <2>4
<1> USE DEF S
<1> DEFINE Settled == {k \in Nat : \A e \in Expr : Height[e] = k =>
                          \A n \in Nat : n > k => level[n][e] = level[k + 1][e]}
<1>6. Nat \subseteq Settled
  <2> SUFFICES ASSUME Nat \ Settled # {} PROVE FALSE
    OBVIOUS
  <2>1. PICK k \in Nat \ Settled : \A m \in Nat \ Settled : k <= m
    BY LeastNat
  <2>2. PICK e \in Expr : Height[e] = k /\ \E n \in Nat : n > k /\ level[n][e] # level[k + 1][e]
    BY <2>1
  <2>3. PICK n \in Nat : n > k /\ level[n][e] # level[k + 1][e]
    BY <2>2
  <2>4. n - 1 \in Nat /\ n - 1 >= k /\ (n - 1) + 1 = n
    BY <2>3
  <2>5. ASSUME NEW part \in Parts(e) PROVE level[n - 1][part] = level[k][part]
    <3>1. part \in Expr /\ Height[part] \in Nat /\ Height[part] < k
      BY <2>2, PartsAreLower
    <3>2. Height[part] \in Settled
      <4> HIDE DEF Settled
      <4>1. k \in Nat /\ ~(k <= Height[part])
        BY <3>1
      <4> QED BY <2>1, <3>1, <4>1
    <3>3. n - 1 > Height[part] /\ k > Height[part]
      BY <2>4, <3>1
    <3> QED BY <2>4, <3>1, <3>2, <3>3
  <2>6. level[n - 1] \in [Expr -> R] /\ level[k] \in [Expr -> R]
    BY <2>4
  <2>7. level[n][e] = step[e, level[n - 1]]
    BY <1>5, <2>4
  <2>8. level[k + 1][e] = step[e, level[k]]
    BY <1>5
  <2> QED BY <2>3, <2>5, <2>6, <2>7, <2>8 DEF LooksAtParts
<1> HIDE DEF Settled
<1> DEFINE f == [e \in Expr |-> level[Height[e] + 1][e]]
<1>7. f \in [Expr -> R]
  <2>1. ASSUME NEW e \in Expr PROVE level[Height[e] + 1][e] \in R
    <3>1. Height[e] + 1 \in Nat
      BY PartsAreLower
    <3> QED BY <3>1
  <2> QED BY <2>1
<1>8. ASSUME NEW e \in Expr PROVE f[e] = step[e, f]
  <2>1. Height[e] \in Nat
    BY PartsAreLower
  <2>2. f[e] = step[e, level[Height[e]]]
    BY <1>5, <2>1
  <2>3. ASSUME NEW part \in Parts(e) PROVE f[part] = level[Height[e]][part]
    <3>1. part \in Expr /\ Height[part] \in Nat /\ Height[part] < Height[e]
      BY PartsAreLower
    <3>2. Height[part] \in Settled
      BY <1>6, <3>1
    <3> QED BY <2>1, <3>1, <3>2 DEF Settled
  <2>4. level[Height[e]] \in [Expr -> R]
    BY <2>1
  <2> HIDE DEF f
  <2> QED BY <1>7, <2>2, <2>3, <2>4 DEF LooksAtParts
<1> QED BY <1>7, <1>8

-----------------------------------------------------------------------------
(***************************************************************************)
(* What the recursive definitions say.                                     *)
(***************************************************************************)
\* The names an expression reads.
LEMMA ReadsIs ==
  /\ Reads \in [Expr -> SUBSET Variable]
  /\ \A e \in Expr : Reads[e] = IF e.kind = "name" THEN {e.name}
                                ELSE UNION {Reads[part] : part \in Parts(e)}
<1> DEFINE R == SUBSET Variable
           step == [a \in Expr \X [Expr -> R] |->
                      IF a[1].kind = "name" THEN {a[1].name} ELSE UNION {a[2][part] : part \in Parts(a[1])}]
<1>1. ASSUME NEW e \in Expr, NEW g \in [Expr -> R]
      PROVE  /\ step[e, g] = IF e.kind = "name" THEN {e.name} ELSE UNION {g[part] : part \in Parts(e)}
             /\ step[e, g] \in R
  <2>1. step[e, g] = IF e.kind = "name" THEN {e.name} ELSE UNION {g[part] : part \in Parts(e)}
    OBVIOUS
  <2>2. e.kind = "name" => e.name \in Variable
    BY ExpressionsAreTrees DEF IsExpression
  <2>3. Parts(e) \subseteq Expr
    BY PartsAreLower
  <2>4. UNION {g[part] : part \in Parts(e)} \subseteq Variable
    <3> SUFFICES ASSUME NEW part \in Parts(e) PROVE g[part] \subseteq Variable
      OBVIOUS
    <3> QED BY <2>3
  <2> HIDE DEF step
  <2> QED BY <2>1, <2>2, <2>4
<1>2. step \in [Expr \X [Expr -> R] -> R]
  <2>1. step = [a \in Expr \X [Expr -> R] |-> step[a]]
    OBVIOUS
  <2>2. ASSUME NEW a \in Expr \X [Expr -> R] PROVE step[a] \in R
    <3>1. a = <<a[1], a[2]>> /\ a[1] \in Expr /\ a[2] \in [Expr -> R]
      OBVIOUS
    <3> HIDE DEF step, R
    <3> QED BY <1>1, <3>1
  <2> HIDE DEF step, R
  <2> QED BY <2>1, <2>2
<1> HIDE DEF step
<1>3. LooksAtParts(step, R)
  <2> SUFFICES ASSUME NEW e \in Expr, NEW g \in [Expr -> R], NEW h \in [Expr -> R],
                      \A part \in Parts(e) : g[part] = h[part]
               PROVE  step[e, g] = step[e, h]
    BY DEF LooksAtParts
  <2> HIDE DEF R
  <2>1. {g[part] : part \in Parts(e)} = {h[part] : part \in Parts(e)}
    OBVIOUS
  <2> QED BY <1>1, <2>1
<1>4. {} \in R
  OBVIOUS
<1>5. PICK f \in [Expr -> R] : \A e \in Expr : f[e] = step[e, f]
  <2> HIDE DEF step, R
  <2> QED BY <1>2, <1>3, <1>4, TreeRecursion
<1>6. f = [e \in Expr |-> IF e.kind = "name" THEN {e.name} ELSE UNION {f[part] : part \in Parts(e)}]
  <2> HIDE DEF step
  <2> QED BY <1>1, <1>5
<1> HIDE DEF step, R
<1>7. Reads = [e \in Expr |-> IF e.kind = "name" THEN {e.name} ELSE UNION {Reads[part] : part \in Parts(e)}]
  BY <1>6, Zenon DEF Reads
<1>8. \A e \in Expr : Reads[e] = IF e.kind = "name" THEN {e.name} ELSE UNION {Reads[part] : part \in Parts(e)}
  BY <1>7, Zenon
<1>9. \A e \in Expr : Reads[e] \in SUBSET Variable
  <2> DEFINE T == {k \in Nat : \E e \in Expr : Height[e] = k /\ ~(Reads[e] \subseteq Variable)}
  <2> SUFFICES ASSUME NEW e \in Expr, ~(Reads[e] \subseteq Variable) PROVE FALSE
    OBVIOUS
  <2>1. Height[e] \in T
    BY PartsAreLower
  <2>2. PICK k \in T : \A m \in T : k <= m
    BY <2>1, LeastNat
  <2>3. PICK c \in Expr : Height[c] = k /\ ~(Reads[c] \subseteq Variable)
    BY <2>2
  <2>4. c.kind # "name"
    BY <1>8, <2>3, ExpressionsAreTrees DEF IsExpression
  <2>5. PICK part \in Parts(c) : ~(Reads[part] \subseteq Variable)
    <3>1. Reads[c] = UNION {Reads[part] : part \in Parts(c)}
      BY <1>8, <2>4
    <3>2. PICK x \in UNION {Reads[part] : part \in Parts(c)} : x \notin Variable
      BY <2>3, <3>1
    <3> QED BY <3>2
  <2>6. part \in Expr /\ Height[part] \in Nat /\ Height[part] < k
    BY <2>3, PartsAreLower
  <2>7. Height[part] \in T
    BY <2>5, <2>6
  <2> QED BY <2>2, <2>6, <2>7
<1>10. Reads \in [Expr -> SUBSET Variable]
  BY <1>7, <1>9, Zenon
<1> QED BY <1>8, <1>10

-----------------------------------------------------------------------------
\* The parts of a program have their types.
LEMMA ProgramTypes ==
  ASSUME NEW P \in Programs, NEW f \in Function
  PROVE  /\ P.body[f] \in Seq(Item) /\ Len(P.body[f]) \in Nat /\ DOMAIN P.body[f] = 1 .. Len(P.body[f])
         /\ P.params[f] \in Seq(Variable) /\ ParamNames(P, f) \subseteq Variable
         /\ P.calls[f] \in [Given(P, f) -> SUBSET Result]
         /\ ParamNames(P, f) \cap DOMAIN P.global = {}
         /\ \A x \in DOMAIN P.global : x \in Variable /\ P.global[x] \in Value
         /\ P.plain[f] \in Function
<1>1. IsProgram(P)
  BY ProgramsAreWhole
<1>2. P.body[f] \in Seq(Item) /\ P.params[f] \in Seq(Variable) /\ P.plain[f] \in Function
  BY <1>1 DEF IsProgram
<1>3. ParamNames(P, f) \subseteq Variable
  <2>1. \A i \in DOMAIN P.params[f] : P.params[f][i] \in Variable
    BY <1>2
  <2> QED BY <2>1 DEF ParamNames
<1>4. ParamNames(P, f) \cap DOMAIN P.global = {}
  BY <1>1 DEF IsProgram, NamesAreDeclared
<1>5. /\ P.calls[f] \in [Given(P, f) -> SUBSET Result]
      /\ \A x \in DOMAIN P.global : x \in Variable /\ P.global[x] \in Value
  BY <1>1 DEF IsProgram
<1> QED BY <1>2, <1>3, <1>4, <1>5

\* An item has a kind, a variable, an expression, a branch and a line.
LEMMA ItemTypes ==
  ASSUME NEW P \in Programs, NEW f \in Function, NEW p \in DOMAIN P.body[f]
  PROVE  /\ P.body[f][p] \in Item /\ p \in Nat /\ p > 0 /\ p <= Len(P.body[f])
         /\ P.body[f][p].kind \in {"set", "open", "hidden", "return", "use"}
         /\ P.body[f][p].name \in Variable /\ P.body[f][p].expr \in Expr
         /\ P.body[f][p].when \in {"always", "then", "else"} /\ P.body[f][p].line \in Nat
<1>1. P.body[f] \in Seq(Item) /\ Len(P.body[f]) \in Nat /\ DOMAIN P.body[f] = 1 .. Len(P.body[f])
  BY ProgramTypes
<1>2. P.body[f][p] \in Item
  BY <1>1
<1> QED BY <1>1, <1>2 DEF Item, Branch

\* Results are known values or the unknown one, and no value is unknown.
LEMMA ResultTypes == Value \subseteq Result /\ Unknown \in Result /\ Unknown \notin Value
BY ProgramsAreWhole DEF Result

\* What m is, by the kind of the expression.
MeansBy(m, P, env, e, o) ==
  /\ e.kind \in {"literal", "name", "operator", "paren", "call"}
  /\ e.kind = "literal" => m = {e.value} /\ e.value \in Value
  /\ e.kind = "name" => m = {env[e.name]} /\ e.name \in Variable
  /\ e.kind = "operator" => m = {Unknown}
  /\ e.kind = "paren" => m = o[e.of] /\ e.of \in Expr /\ e.of \in Parts(e)
  /\ e.kind = "call" =>
       /\ e.args \in Seq(Expr) /\ \A i \in DOMAIN e.args : e.args[i] \in Expr /\ e.args[i] \in Parts(e)
       /\ e.callee \notin Function => m = {Unknown}
       /\ e.callee \in Function => m = UNION {P.calls[e.callee][given] : given \in Passing(P, e, o)}

\* The meaning of each kind of expression.
LEMMA OutcomeOf ==
  ASSUME NEW P, NEW env, NEW e \in Expr, NEW o
  PROVE  MeansBy(Outcome(P, env, e, o), P, env, e, o)
<1> DEFINE m == Outcome(P, env, e, o)
<1>1. IsExpression(e)
  BY ExpressionsAreTrees
<1>2. e.kind \in {"literal", "name", "operator", "paren", "call"}
  BY <1>1 DEF IsExpression
<1>3. /\ e.kind = "literal" => m = {e.value}
      /\ e.kind = "name" => m = {env[e.name]}
      /\ e.kind = "operator" => m = {Unknown}
      /\ e.kind = "paren" => m = o[e.of]
  BY DEF Outcome
<1>4. e.kind = "call" => m = IF e.callee \in Function
                             THEN UNION {P.calls[e.callee][given] : given \in Passing(P, e, o)} ELSE {Unknown}
  BY DEF Outcome
<1> HIDE DEF m
<1> SUFFICES MeansBy(m, P, env, e, o)
  BY DEF m
<1>5. e.kind = "literal" => e.value \in Value
  BY <1>1 DEF IsExpression
<1>6. e.kind = "name" => e.name \in Variable
  BY <1>1 DEF IsExpression
<1>7. e.kind = "paren" => e.of \in Expr /\ e.of \in Parts(e)
  BY <1>1 DEF IsExpression, Parts
<1>8. e.kind = "call" => e.args \in Seq(Expr) /\ \A i \in DOMAIN e.args : e.args[i] \in Expr /\ e.args[i] \in Parts(e)
  <2> SUFFICES ASSUME e.kind = "call"
               PROVE  e.args \in Seq(Expr) /\ \A i \in DOMAIN e.args : e.args[i] \in Expr /\ e.args[i] \in Parts(e)
    OBVIOUS
  <2>1. e.args \in Seq(Expr)
    BY <1>1 DEF IsExpression
  <2> QED BY <2>1 DEF Parts
<1> QED BY <1>2, <1>3, <1>4, <1>5, <1>6, <1>7, <1>8 DEF MeansBy

\* What may come of an expression are results.
LEMMA OutcomeTyped ==
  ASSUME NEW P \in Programs, NEW env \in Env, NEW e \in Expr, NEW o \in [Expr -> SUBSET Result]
  PROVE  Outcome(P, env, e, o) \in SUBSET Result
<1> DEFINE m == Outcome(P, env, e, o)
<1>0. MeansBy(m, P, env, e, o)
  BY OutcomeOf
<1> HIDE DEF m
<1> SUFFICES m \in SUBSET Result
  BY DEF m
<1>1. CASE e.kind \in {"literal", "name", "operator"}
  BY <1>0, <1>1, ResultTypes DEF Env, MeansBy
<1>2. CASE e.kind = "paren"
  BY <1>0, <1>2 DEF MeansBy
<1>3. CASE e.kind = "call" /\ e.callee \notin Function
  BY <1>0, <1>3, ResultTypes DEF MeansBy
<1>4. CASE e.kind = "call" /\ e.callee \in Function
  <2>1. P.calls[e.callee] \in [Given(P, e.callee) -> SUBSET Result]
    BY <1>4, ProgramTypes
  <2>2. \A given \in Passing(P, e, o) : P.calls[e.callee][given] \subseteq Result
    BY <2>1 DEF Passing
  <2>3. UNION {P.calls[e.callee][given] : given \in Passing(P, e, o)} \subseteq Result
    BY <2>2
  <2> QED BY <1>0, <1>4, <2>3 DEF MeansBy
<1> QED BY <1>0, <1>1, <1>2, <1>3, <1>4 DEF MeansBy

\* The meaning of an expression looks at its parts only.
LEMMA OutcomeLooksAtParts ==
  ASSUME NEW P, NEW env, NEW e \in Expr, NEW g, NEW h, \A part \in Parts(e) : g[part] = h[part]
  PROVE  Outcome(P, env, e, g) = Outcome(P, env, e, h)
<1>1. MeansBy(Outcome(P, env, e, g), P, env, e, g) /\ MeansBy(Outcome(P, env, e, h), P, env, e, h)
  BY OutcomeOf
<1>2. CASE e.kind # "call"
  BY <1>1, <1>2 DEF MeansBy
<1>3. CASE e.kind = "call"
  <2>1. \A i \in DOMAIN e.args : g[e.args[i]] = h[e.args[i]]
    BY <1>1, <1>3 DEF MeansBy
  <2>2. Passing(P, e, g) = Passing(P, e, h)
    BY <2>1 DEF Passing
  <2> QED BY <1>1, <1>3, <2>2 DEF MeansBy
<1> QED BY <1>2, <1>3

\* Outcomes is what its definition says.
LEMMA OutcomesAre ==
  ASSUME NEW P \in Programs, NEW env \in Env
  PROVE  /\ Outcomes(P, env) \in [Expr -> SUBSET Result]
         /\ \A e \in Expr : Outcomes(P, env)[e] = Outcome(P, env, e, Outcomes(P, env))
<1> DEFINE R == SUBSET Result
           step == [a \in Expr \X [Expr -> R] |-> Outcome(P, env, a[1], a[2])]
<1>1. ASSUME NEW e \in Expr, NEW g \in [Expr -> R] PROVE step[e, g] = Outcome(P, env, e, g)
  OBVIOUS
<1>2. step \in [Expr \X [Expr -> R] -> R]
  <2>1. ASSUME NEW a \in Expr \X [Expr -> R] PROVE Outcome(P, env, a[1], a[2]) \in R
    BY OutcomeTyped
  <2> HIDE DEF R
  <2> QED BY <2>1
<1> HIDE DEF step
<1>3. LooksAtParts(step, R)
  <2> SUFFICES ASSUME NEW e \in Expr, NEW g \in [Expr -> R], NEW h \in [Expr -> R],
                      \A part \in Parts(e) : g[part] = h[part]
               PROVE  step[e, g] = step[e, h]
    BY DEF LooksAtParts
  <2> HIDE DEF R
  <2>1. Outcome(P, env, e, g) = Outcome(P, env, e, h)
    BY OutcomeLooksAtParts
  <2> QED BY <1>1, <2>1
<1>4. {} \in R
  OBVIOUS
<1> HIDE DEF R
<1>5. PICK g \in [Expr -> R] : \A e \in Expr : g[e] = step[e, g]
  BY <1>2, <1>3, <1>4, TreeRecursion
<1>6. g = [e \in Expr |-> Outcome(P, env, e, g)]
  BY <1>1, <1>5
<1> DEFINE outcome[e \in Expr] == Outcome(P, env, e, outcome)
<1>7. Outcomes(P, env) = outcome
  BY DEF Outcomes
<1>8. outcome = [e \in Expr |-> Outcome(P, env, e, outcome)]
  BY <1>6, Zenon DEF outcome
<1> HIDE DEF outcome
<1>9. \A e \in Expr : outcome[e] = Outcome(P, env, e, outcome)
  BY <1>8, Zenon
<1>10. \A e \in Expr : outcome[e] \subseteq Result
  <2> DEFINE T == {k \in Nat : \E e \in Expr : Height[e] = k /\ ~(outcome[e] \subseteq Result)}
  <2> SUFFICES ASSUME NEW e \in Expr, ~(outcome[e] \subseteq Result) PROVE FALSE
    OBVIOUS
  <2>1. Height[e] \in T
    BY PartsAreLower
  <2>2. PICK k \in T : \A m \in T : k <= m
    BY <2>1, LeastNat
  <2>3. PICK c \in Expr : Height[c] = k /\ ~(outcome[c] \subseteq Result)
    BY <2>2
  <2>4. ASSUME NEW part \in Parts(c) PROVE outcome[part] \subseteq Result
    <3>1. part \in Expr /\ Height[part] \in Nat /\ Height[part] < k
      BY <2>3, PartsAreLower
    <3>2. Height[part] \notin T
      BY <2>2, <3>1
    <3> QED BY <3>1, <3>2
  <2> DEFINE h == [e2 \in Expr |-> IF e2 \in Parts(c) THEN outcome[e2] ELSE {}]
  <2> HIDE DEF T
  <2>5. h \in [Expr -> SUBSET Result]
    BY <2>4
  <2>6. \A part \in Parts(c) : h[part] = outcome[part]
    BY PartsAreLower
  <2> HIDE DEF h
  <2>7. Outcome(P, env, c, outcome) = Outcome(P, env, c, h)
    BY <2>6, OutcomeLooksAtParts
  <2>8. Outcome(P, env, c, h) \subseteq Result
    BY <2>5, OutcomeTyped
  <2> QED BY <1>9, <2>3, <2>7, <2>8
<1>11. outcome \in [Expr -> SUBSET Result]
  BY <1>8, <1>10, Zenon
<1> QED BY <1>7, <1>9, <1>11

-----------------------------------------------------------------------------
(***************************************************************************)
(* Runs of a body.                                                         *)
(***************************************************************************)
\* What stands in `after`, item by item.
ComesBy(after, P, item, branch, before) ==
  /\ ~Executed(item, branch) \/ item.kind = "use" => after = before
  /\ Executed(item, branch) /\ item.kind = "return" => after = {}
  /\ Executed(item, branch) /\ item.kind = "set" =>
       \A env2 : env2 \in after <=>
         \E env \in before : \E v \in Outcomes(P, env)[item.expr] : env2 = [env EXCEPT ![item.name] = v]
  /\ Executed(item, branch) /\ item.kind \in {"open", "hidden"} =>
       after = {[env EXCEPT ![item.name] = Unknown] : env \in before}

\* After is what ComesBy says.
LEMMA AfterIs ==
  ASSUME NEW P, NEW item, NEW branch, NEW before
  PROVE  ComesBy(After(P, item, branch, before), P, item, branch, before)
<1> DEFINE after == After(P, item, branch, before)
<1>1. ~Executed(item, branch) \/ item.kind = "use" => after = before
  BY DEF After
<1>2. Executed(item, branch) /\ item.kind = "return" => after = {}
  BY DEF After
<1>3. Executed(item, branch) /\ item.kind = "set" =>
        after = UNION {{[env EXCEPT ![item.name] = v] : v \in Outcomes(P, env)[item.expr]} : env \in before}
  BY DEF After
<1>4. Executed(item, branch) /\ item.kind \in {"open", "hidden"} =>
        after = {[env EXCEPT ![item.name] = Unknown] : env \in before}
  BY DEF After
<1> HIDE DEF after
<1>5. Executed(item, branch) /\ item.kind = "set" =>
       \A env2 : env2 \in after <=>
         \E env \in before : \E v \in Outcomes(P, env)[item.expr] : env2 = [env EXCEPT ![item.name] = v]
  BY <1>3
<1>6. ComesBy(after, P, item, branch, before)
  BY <1>1, <1>2, <1>4, <1>5 DEF ComesBy
<1> QED BY <1>6 DEF after

\* Every item leaves the variables with results.
LEMMA AfterTyped ==
  ASSUME NEW P \in Programs, NEW f \in Function, NEW p \in DOMAIN P.body[f], NEW branch,
         NEW before \in SUBSET Env
  PROVE  After(P, P.body[f][p], branch, before) \in SUBSET Env
<1> DEFINE item == P.body[f][p]
           after == After(P, item, branch, before)
<1>1. ComesBy(after, P, item, branch, before)
  BY AfterIs
<1>2. item.kind \in {"set", "open", "hidden", "return", "use"} /\ item.name \in Variable /\ item.expr \in Expr
  BY ItemTypes
<1> HIDE DEF after, item
<1>3. after \in SUBSET Env
  <2> SUFFICES ASSUME NEW env2 \in after PROVE env2 \in Env
    OBVIOUS
  <2>1. CASE ~Executed(item, branch) \/ item.kind \in {"use", "return"}
    BY <1>1, <1>2, <2>1 DEF ComesBy
  <2>2. CASE Executed(item, branch) /\ item.kind = "set"
    <3>1. PICK env \in before : \E v \in Outcomes(P, env)[item.expr] : env2 = [env EXCEPT ![item.name] = v]
      BY <1>1, <2>2 DEF ComesBy
    <3>2. PICK v \in Outcomes(P, env)[item.expr] : env2 = [env EXCEPT ![item.name] = v]
      BY <3>1
    <3>3. v \in Result
      <4>1. env \in Env
        OBVIOUS
      <4>2. Outcomes(P, env) \in [Expr -> SUBSET Result]
        BY <4>1, OutcomesAre
      <4> QED BY <1>2, <4>2
    <3> QED BY <3>2, <3>3 DEF Env
  <2>3. CASE Executed(item, branch) /\ item.kind \in {"open", "hidden"}
    <3>1. PICK env \in before : env2 = [env EXCEPT ![item.name] = Unknown]
      BY <1>1, <2>3 DEF ComesBy
    <3> QED BY <3>1, ResultTypes DEF Env
  <2> QED BY <1>2, <2>1, <2>2, <2>3
<1> QED BY <1>3 DEF after, item

\* A body starts with what it was called with, its globals and unknown locals.
LEMMA StartTyped ==
  ASSUME NEW P \in Programs, NEW f \in Function, NEW given \in Given(P, f)
  PROVE  Start(P, f, given) \in Env
<1>1. ASSUME NEW x \in Variable, x \in ParamNames(P, f)
      PROVE  given[CHOOSE i \in DOMAIN P.params[f] : P.params[f][i] = x] \in Result
  <2>1. \E i \in DOMAIN P.params[f] : P.params[f][i] = x
    BY <1>1 DEF ParamNames
  <2>2. (CHOOSE i \in DOMAIN P.params[f] : P.params[f][i] = x) \in DOMAIN P.params[f]
    BY <2>1
  <2> QED BY <2>2 DEF Given
<1>2. \A x \in DOMAIN P.global : P.global[x] \in Result
  BY ProgramTypes, ResultTypes
<1> QED BY <1>1, <1>2, ResultTypes DEF Start, Env

\* Runs(...)[n] comes from Runs(...)[n - 1] by the n-th item.
RunsBy(run, P, f, given, branch) ==
  /\ run[0] = {Start(P, f, given)}
  /\ \A n \in 1 .. Len(P.body[f]) : run[n] = After(P, P.body[f][n], branch, run[n - 1])
  /\ \A n \in 0 .. Len(P.body[f]) : run[n] \in SUBSET Env

\* Runs is what its definition says.
LEMMA RunsAre ==
  ASSUME NEW P \in Programs, NEW f \in Function, NEW given \in Given(P, f), NEW branch
  PROVE  RunsBy(Runs(P, f, given, branch), P, f, given, branch)
<1> DEFINE len == Len(P.body[f])
           S == SUBSET Env
           step == [a \in Nat \X S |-> IF a[1] \in 1 .. len THEN After(P, P.body[f][a[1]], branch, a[2]) ELSE a[2]]
<1>0. len \in Nat /\ DOMAIN P.body[f] = 1 .. len
  BY ProgramTypes
<1>1. ASSUME NEW n \in 1 .. len, NEW s \in S PROVE step[n, s] = After(P, P.body[f][n], branch, s)
  <2>1. n \in Nat
    BY <1>0
  <2> QED BY <2>1
<1>2. step \in [Nat \X S -> S]
  <2>1. ASSUME NEW a \in Nat \X S, a[1] \in 1 .. len PROVE After(P, P.body[f][a[1]], branch, a[2]) \in S
    BY <1>0, <2>1, AfterTyped
  <2> HIDE DEF S, len
  <2> QED BY <2>1
<1>3. {Start(P, f, given)} \in S
  BY StartTyped
<1> HIDE DEF step, S, len
<1>4. PICK level \in [Nat -> S] : Recurs(level, {Start(P, f, given)}, step)
  BY <1>2, <1>3, NatRecursion
<1> DEFINE g == [n \in 0 .. len |-> level[n]]
<1>5. g = [n \in 0 .. len |-> IF n = 0 THEN {Start(P, f, given)} ELSE After(P, P.body[f][n], branch, g[n - 1])]
  <2> SUFFICES ASSUME NEW n \in 0 .. len
               PROVE  g[n] = IF n = 0 THEN {Start(P, f, given)} ELSE After(P, P.body[f][n], branch, g[n - 1])
    OBVIOUS
  <2>1. CASE n = 0
    BY <1>4, <2>1 DEF Recurs
  <2>2. CASE n # 0
    <3>1. n \in 1 .. len /\ n \in Nat /\ n > 0 /\ n - 1 \in 0 .. len /\ n - 1 \in Nat
      BY <1>0, <2>2
    <3>2. level[n] = step[n, level[n - 1]]
      BY <1>4, <3>1 DEF Recurs
    <3>3. level[n - 1] \in S
      BY <3>1
    <3>4. step[n, level[n - 1]] = After(P, P.body[f][n], branch, level[n - 1])
      BY <1>1, <3>1, <3>3
    <3> QED BY <2>2, <3>1, <3>2, <3>4
  <2> QED BY <2>1, <2>2
<1> HIDE DEF g
<1> DEFINE run[n \in 0 .. Len(P.body[f])] ==
             IF n = 0 THEN {Start(P, f, given)} ELSE After(P, P.body[f][n], branch, run[n - 1])
<1>6. Runs(P, f, given, branch) = run
  BY DEF Runs
<1>7. run = [n \in 0 .. len |-> IF n = 0 THEN {Start(P, f, given)} ELSE After(P, P.body[f][n], branch, run[n - 1])]
  BY <1>5, Zenon DEF run, len
<1> HIDE DEF run
<1>8. run[0] = {Start(P, f, given)}
  <2>1. 0 \in 0 .. len
    BY <1>0
  <2> QED BY <1>7, <2>1
<1>9. \A n \in 1 .. len : run[n] = After(P, P.body[f][n], branch, run[n - 1])
  <2>1. \A n \in 1 .. len : n \in 0 .. len /\ n # 0
    BY <1>0
  <2> QED BY <1>7, <2>1
<1>10. \A n \in 0 .. len : run[n] \in SUBSET Env
  <2> DEFINE T == {n \in Nat : n \in 0 .. len => run[n] \in SUBSET Env}
  <2>1. 0 \in T
    BY <1>8, StartTyped
  <2>2. ASSUME NEW n \in Nat, n \in T PROVE n + 1 \in T
    <3> SUFFICES ASSUME n + 1 \in 0 .. len PROVE run[n + 1] \in SUBSET Env
      OBVIOUS
    <3>1. n \in 0 .. len /\ n + 1 \in 1 .. len /\ (n + 1) - 1 = n
      BY <1>0
    <3>2. run[n + 1] = After(P, P.body[f][n + 1], branch, run[n])
      BY <1>9, <3>1
    <3>3. run[n] \in SUBSET Env
      BY <2>2, <3>1
    <3>4. n + 1 \in DOMAIN P.body[f]
      BY <1>0, <3>1
    <3>5. After(P, P.body[f][n + 1], branch, run[n]) \in SUBSET Env
      BY <3>3, <3>4, AfterTyped
    <3> QED BY <3>2, <3>5
  <2> HIDE DEF T
  <2>3. Nat \subseteq T
    BY <2>1, <2>2, Induction
  <2> QED BY <1>0, <2>3 DEF T
<1> QED BY <1>6, <1>8, <1>9, <1>10 DEF RunsBy, len

\* No call of the program is without a result.
CallsReturn(P) == \A f \in Function : \A given \in Given(P, f) : P.calls[f][given] # {}

\* Some call passes v as the k-th argument, if there is a k-th parameter.
IsPassed(P, e, o, k, v) == \E given \in Passing(P, e, o) : k \in DOMAIN P.params[e.callee] => given[k] = v

\* An argument may be any of the outcomes of its expression, whatever the others are.
LEMMA AnyIsPassed ==
  ASSUME NEW P \in Programs, NEW e \in Expr, e.kind = "call", e.callee \in Function,
         NEW o \in [Expr -> SUBSET Result],
         \A i \in DOMAIN e.args : o[e.args[i]] # {},
         NEW k, k \in DOMAIN e.args, NEW v \in o[e.args[k]]
  PROVE  IsPassed(P, e, o, k, v)
<1> DEFINE params == P.params[e.callee]
           pick(i) == IF i = k THEN v ELSE CHOOSE u \in o[e.args[i]] : TRUE
           given == [i \in DOMAIN params |-> IF i \in DOMAIN e.args THEN pick(i) ELSE Unknown]
<1>1. \A i \in DOMAIN e.args : pick(i) \in o[e.args[i]]
  OBVIOUS
<1> HIDE DEF pick
<1>2. \A i \in DOMAIN e.args : e.args[i] \in Expr
  BY ExpressionsAreTrees DEF IsExpression
<1>3. \A i \in DOMAIN e.args : pick(i) \in Result
  BY <1>1, <1>2
<1>4. given \in Given(P, e.callee)
  BY <1>3, ResultTypes DEF Given
<1>5. given \in Passing(P, e, o)
  BY <1>1, <1>4 DEF Passing
<1>6. k \in DOMAIN params => given[k] = v
  BY DEF pick
<1> QED BY <1>5, <1>6 DEF IsPassed

\* Where calls return, every expression has an outcome.
LEMMA OutcomesExist ==
  ASSUME NEW P \in Programs, CallsReturn(P), NEW env \in Env, NEW e \in Expr
  PROVE  Outcomes(P, env)[e] # {}
<1> DEFINE o == Outcomes(P, env)
           T == {k \in Nat : \E c \in Expr : Height[c] = k /\ o[c] = {}}
<1>0. o \in [Expr -> SUBSET Result]
  BY OutcomesAre
<1> SUFFICES ASSUME o[e] = {} PROVE FALSE
  OBVIOUS
<1> HIDE DEF o
<1>1. Height[e] \in T
  BY PartsAreLower
<1>2. PICK k \in T : \A m \in T : k <= m
  BY <1>1, LeastNat
<1>3. PICK c \in Expr : Height[c] = k /\ o[c] = {}
  BY <1>2
<1>4. ASSUME NEW part \in Parts(c) PROVE o[part] # {}
  <2>1. part \in Expr /\ Height[part] \in Nat /\ Height[part] < k
    BY <1>3, PartsAreLower
  <2>2. Height[part] \notin T
    BY <1>2, <2>1
  <2> QED BY <2>1, <2>2
<1>5. MeansBy(o[c], P, env, c, o)
  <2>1. o[c] = Outcome(P, env, c, o)
    BY OutcomesAre DEF o
  <2> QED BY <2>1, OutcomeOf
<1>6. CASE c.kind # "call" \/ c.callee \notin Function
  BY <1>3, <1>4, <1>5, <1>6 DEF MeansBy
<1>7. CASE c.kind = "call" /\ c.callee \in Function
  <2>1. \A i \in DOMAIN c.args : o[c.args[i]] # {}
    BY <1>4, <1>5, <1>7 DEF MeansBy
  <2>2. \E given : given \in Passing(P, c, o)
    <3>1. CASE \E i : i \in DOMAIN c.args
      <4>1. PICK i : i \in DOMAIN c.args
        BY <3>1
      <4>2. PICK v : v \in o[c.args[i]]
        BY <2>1, <4>1
      <4>3. IsPassed(P, c, o, i, v)
        BY <1>0, <1>7, <2>1, <4>1, <4>2, AnyIsPassed
      <4> QED BY <4>3 DEF IsPassed
    <3>2. CASE ~ \E i : i \in DOMAIN c.args
      <4>1. [i \in DOMAIN P.params[c.callee] |-> Unknown] \in Given(P, c.callee)
        BY ResultTypes DEF Given
      <4> QED BY <3>2, <4>1 DEF Passing
    <3> QED BY <3>1, <3>2
  <2>3. PICK given : given \in Passing(P, c, o)
    BY <2>2
  <2>4. given \in Given(P, c.callee)
    BY <2>3 DEF Passing
  <2>5. P.calls[c.callee][given] # {}
    BY <1>7, <2>4 DEF CallsReturn
  <2> QED BY <1>3, <1>5, <1>7, <2>3, <2>5 DEF MeansBy
<1> QED BY <1>6, <1>7

\* An item of the body does something to the variable.
WritesTo(P, f, q, x) == P.body[f][q].kind \in {"set", "open", "hidden"} /\ P.body[f][q].name = x

\* No item of from + 1 .. to does.
Untouched(P, f, from, to, x) == \A q \in from + 1 .. to : ~WritesTo(P, f, q, x)

\* No item of from + 1 .. to returns when the condition goes that way.
GoesOn(P, f, from, to, branch) ==
  \A q \in from + 1 .. to : ~(P.body[f][q].kind = "return" /\ Executed(P.body[f][q], branch))

\* An item that does not return leaves every other variable as it was.
LEMMA ItemGoesOn ==
  ASSUME NEW P \in Programs, CallsReturn(P), NEW f \in Function, NEW p \in DOMAIN P.body[f], NEW branch,
         NEW before \in SUBSET Env, NEW env \in before,
         ~(P.body[f][p].kind = "return" /\ Executed(P.body[f][p], branch))
  PROVE  \E env2 \in After(P, P.body[f][p], branch, before) :
            \A x \in Variable : ~WritesTo(P, f, p, x) => env2[x] = env[x]
<1> DEFINE item == P.body[f][p]
           after == After(P, item, branch, before)
<1>1. ComesBy(after, P, item, branch, before)
  BY AfterIs
<1>2. item.kind \in {"set", "open", "hidden", "return", "use"} /\ item.name \in Variable /\ item.expr \in Expr
  BY ItemTypes
<1>3. \A x : WritesTo(P, f, p, x) <=> item.kind \in {"set", "open", "hidden"} /\ item.name = x
  BY DEF WritesTo
<1>4. ~(item.kind = "return" /\ Executed(item, branch))
  OBVIOUS
<1> HIDE DEF after, item
<1>5. \E env2 \in after : \A x \in Variable : ~WritesTo(P, f, p, x) => env2[x] = env[x]
  <2>1. CASE ~Executed(item, branch) \/ item.kind = "use"
    BY <1>1, <2>1 DEF ComesBy
  <2>2. CASE Executed(item, branch) /\ item.kind = "set"
    <3>1. env \in Env
      OBVIOUS
    <3>2. PICK v : v \in Outcomes(P, env)[item.expr]
      BY <1>2, <3>1, OutcomesExist
    <3>3. [env EXCEPT ![item.name] = v] \in after
      BY <1>1, <2>2, <3>2 DEF ComesBy
    <3>4. \A x \in Variable : ~WritesTo(P, f, p, x) => [env EXCEPT ![item.name] = v][x] = env[x]
      BY <1>3, <2>2, <3>1 DEF Env
    <3> QED BY <3>3, <3>4
  <2>3. CASE Executed(item, branch) /\ item.kind \in {"open", "hidden"}
    <3>1. [env EXCEPT ![item.name] = Unknown] \in after
      BY <1>1, <2>3 DEF ComesBy
    <3>2. \A x \in Variable : ~WritesTo(P, f, p, x) => [env EXCEPT ![item.name] = Unknown][x] = env[x]
      BY <1>3, <2>3 DEF Env
    <3> QED BY <3>1, <3>2
  <2> QED BY <1>2, <1>4, <2>1, <2>2, <2>3
<1> QED BY <1>5 DEF after, item

\* While nothing returns a run goes on, and a variable nobody writes keeps its
\* contents.
LEMMA RunsGoOn ==
  ASSUME NEW P \in Programs, CallsReturn(P), NEW f \in Function, NEW given \in Given(P, f), NEW branch,
         NEW from \in 0 .. Len(P.body[f]), NEW to \in from .. Len(P.body[f]),
         GoesOn(P, f, from, to, branch),
         NEW env \in Runs(P, f, given, branch)[from]
  PROVE  \E env2 \in Runs(P, f, given, branch)[to] :
            \A x \in Variable : Untouched(P, f, from, to, x) => env2[x] = env[x]
<1> DEFINE len == Len(P.body[f])
           run == Runs(P, f, given, branch)
           Kept(n) == \E env2 \in run[n] : \A x \in Variable : Untouched(P, f, from, n, x) => env2[x] = env[x]
           T == {k \in Nat : \A n \in from .. to : n = from + k => Kept(n)}
<1>0. len \in Nat /\ DOMAIN P.body[f] = 1 .. len /\ from \in Nat /\ to \in Nat /\ to <= len
  BY ProgramTypes
<1>1. RunsBy(run, P, f, given, branch)
  BY RunsAre
<1>2. env \in run[from]
  OBVIOUS
<1> HIDE DEF run
<1>3. 0 \in T
  BY <1>0, <1>2
<1>4. ASSUME NEW k \in Nat, k \in T PROVE k + 1 \in T
  <2> SUFFICES ASSUME NEW m \in from .. to, m = from + (k + 1) PROVE Kept(m)
    OBVIOUS
  <2> DEFINE n == from + k
  <2>0. m = n + 1 /\ n + 1 <= to /\ n \in from .. to
    BY <1>0
  <2>1. n \in Nat /\ n \in 0 .. len /\ n + 1 \in 1 .. len /\ (n + 1) - 1 = n /\ n + 1 \in from + 1 .. to /\ n <= to
    BY <1>0, <2>0
  <2>2. PICK env1 \in run[n] : \A x \in Variable : Untouched(P, f, from, n, x) => env1[x] = env[x]
    BY <1>4, <2>0
  <2> HIDE DEF n
  <2>3. run[n + 1] = After(P, P.body[f][n + 1], branch, run[n])
    BY <1>1, <2>1 DEF RunsBy
  <2>4. run[n] \in SUBSET Env
    BY <1>1, <2>1 DEF RunsBy
  <2>5. ~(P.body[f][n + 1].kind = "return" /\ Executed(P.body[f][n + 1], branch))
    BY <2>1 DEF GoesOn
  <2>6. n + 1 \in DOMAIN P.body[f]
    BY <1>0, <2>1
  <2>7. PICK env2 \in run[n + 1] : \A x \in Variable : ~WritesTo(P, f, n + 1, x) => env2[x] = env1[x]
    <3>1. \E env2 \in After(P, P.body[f][n + 1], branch, run[n]) :
            \A x \in Variable : ~WritesTo(P, f, n + 1, x) => env2[x] = env1[x]
      <4>1. PICK p \in DOMAIN P.body[f] : p = n + 1
        BY <2>6
      <4>2. PICK before \in SUBSET Env : before = run[n]
        BY <2>4
      <4>3. env1 \in before /\ ~(P.body[f][p].kind = "return" /\ Executed(P.body[f][p], branch))
        BY <2>2, <2>5, <4>1, <4>2
      <4>4. \E env2 \in After(P, P.body[f][p], branch, before) :
              \A x \in Variable : ~WritesTo(P, f, p, x) => env2[x] = env1[x]
        BY ONLY <4>3, ItemGoesOn, P \in Programs, CallsReturn(P), f \in Function, p \in DOMAIN P.body[f], before \in SUBSET Env
      <4> QED BY <4>1, <4>2, <4>4
    <3> QED BY <2>3, <3>1
  <2>8. ASSUME NEW x \in Variable, Untouched(P, f, from, n + 1, x) PROVE env2[x] = env[x]
    <3>1. Untouched(P, f, from, n, x)
      <4>1. \A q \in from + 1 .. n : q \in from + 1 .. n + 1
        BY <1>0, <2>1
      <4> QED BY <2>8, <4>1 DEF Untouched
    <3>2. ~WritesTo(P, f, n + 1, x)
      <4>1. n + 1 \in from + 1 .. n + 1
        BY <1>0, <2>1
      <4> QED BY <2>8, <4>1 DEF Untouched
    <3> QED BY <2>2, <2>7, <3>1, <3>2
  <2> QED BY <2>0, <2>7, <2>8
<1> HIDE DEF T
<1>5. Nat \subseteq T
  BY <1>3, <1>4, Induction
<1>6. to - from \in Nat /\ from + (to - from) = to
  BY <1>0
<1>7. Kept(to)
  <2>1. to - from \in T /\ to \in from .. to
    BY <1>0, <1>5, <1>6
  <2> HIDE DEF Kept
  <2> QED BY <1>6, <2>1 DEF T
<1> QED BY <1>7 DEF run

\* A run that nothing ends is somewhere, and what nobody has written is as it
\* was at the start.
LEMMA RunsFromStart ==
  ASSUME NEW P \in Programs, CallsReturn(P), NEW f \in Function, NEW given \in Given(P, f), NEW branch,
         NEW n \in 0 .. Len(P.body[f]), GoesOn(P, f, 0, n, branch)
  PROVE  \E env \in Runs(P, f, given, branch)[n] :
            \A x \in Variable : Untouched(P, f, 0, n, x) => env[x] = Start(P, f, given)[x]
<1>1. Len(P.body[f]) \in Nat /\ 0 \in 0 .. Len(P.body[f]) /\ n \in 0 .. Len(P.body[f])
  BY ProgramTypes
<1>2. RunsBy(Runs(P, f, given, branch), P, f, given, branch)
  BY RunsAre
<1>3. Start(P, f, given) \in Runs(P, f, given, branch)[0]
  BY <1>2 DEF RunsBy
<1> QED BY <1>1, <1>3, RunsGoOn

\* A variable that is set has, behind the item, an outcome of its expression.
LEMMA SetHolds ==
  ASSUME NEW P \in Programs, NEW f \in Function, NEW given \in Given(P, f), NEW branch,
         NEW p \in DOMAIN P.body[f], P.body[f][p].kind = "set", Executed(P.body[f][p], branch),
         NEW env \in Runs(P, f, given, branch)[p - 1], NEW v \in Outcomes(P, env)[P.body[f][p].expr]
  PROVE  \E env2 \in Runs(P, f, given, branch)[p] : env2[P.body[f][p].name] = v
<1> DEFINE run == Runs(P, f, given, branch)
           item == P.body[f][p]
<1>1. RunsBy(run, P, f, given, branch)
  BY RunsAre
<1>2. p \in 1 .. Len(P.body[f]) /\ p - 1 \in 0 .. Len(P.body[f])
  BY ProgramTypes
<1>3. item.name \in Variable
  BY ItemTypes
<1>4. run[p] = After(P, item, branch, run[p - 1]) /\ run[p - 1] \in SUBSET Env
  BY <1>1, <1>2 DEF RunsBy
<1>5. ComesBy(run[p], P, item, branch, run[p - 1])
  BY <1>4, AfterIs
<1>6. item.kind = "set" /\ Executed(item, branch) /\ env \in run[p - 1] /\ v \in Outcomes(P, env)[item.expr]
  OBVIOUS
<1> HIDE DEF run, item
<1>7. [env EXCEPT ![item.name] = v] \in run[p]
  BY <1>5, <1>6 DEF ComesBy
<1>8. [env EXCEPT ![item.name] = v][item.name] = v
  BY <1>3, <1>4, <1>6 DEF Env
<1>9. \E env2 \in run[p] : env2[item.name] = v
  BY <1>7, <1>8
<1> QED BY <1>9 DEF run, item

-----------------------------------------------------------------------------
(***************************************************************************)
(* What is rendered.                                                       *)
(***************************************************************************)
Entries == [line : Nat, text : Text]

\* Entries in the order of their lines.
Ascending(history) == \A j, k \in DOMAIN history : j <= k => history[j].line <= history[k].line

Frame == {frame \in [Variable -> Seq(Entries)] : \A x \in Variable : Ascending(frame[x])}

IsContext(rc) ==
  rc.frame \in Frame /\ rc.bound \in [Variable -> Text \cup {NoEntry}] /\ rc.active \in SUBSET Function

Table == [Function -> [Seq(Text) -> [SUBSET Function -> Text]]]

\* A set of natural numbers up to a bound that is not empty has a greatest.
LEMMA GreatestNat ==
  ASSUME NEW bound \in Nat, NEW T, T \subseteq 0 .. bound, T # {}
  PROVE  \E m \in T : \A k \in T : k <= m
<1> DEFINE U == {bound - k : k \in T}
<1>1. U \subseteq Nat /\ U # {}
  <2>1. \A k \in T : bound - k \in Nat
    OBVIOUS
  <2> QED BY <2>1
<1>2. PICK u \in U : \A k \in U : u <= k
  BY <1>1, LeastNat
<1>3. PICK m \in T : u = bound - m
  OBVIOUS
<1>4. ASSUME NEW k \in T PROVE k <= m
  <2>1. bound - m <= bound - k
    BY <1>2, <1>3
  <2>2. k \in Nat /\ m \in Nat
    OBVIOUS
  <2> QED BY <2>1, <2>2
<1> QED BY <1>4

\* The entry that is used is the last of those known (lookup_local).
LEMMA LatestIs ==
  ASSUME NEW history \in Seq(Entries), Ascending(history), NEW known \in SUBSET DOMAIN history, known # {}
  PROVE  \E j \in known : (\A k \in known : k <= j) /\ Latest(history, known) = history[j].text
<1>1. known \subseteq 0 .. Len(history) /\ Len(history) \in Nat
  OBVIOUS
<1>2. PICK j \in known : \A k \in known : k <= j
  BY <1>1, GreatestNat
<1> DEFINE IsLast(i) == \A k \in known : \/ history[k].line < history[i].line
                                         \/ history[k].line = history[i].line /\ k <= i
<1>3. ASSUME NEW k \in known PROVE k \in Nat /\ k \in DOMAIN history /\ history[k].line \in Nat
  <2>1. k \in Nat /\ k \in DOMAIN history
    BY <1>1
  <2>2. history[k] \in Entries
    BY <2>1
  <2> QED BY <2>1, <2>2 DEF Entries
<1>4. IsLast(j)
  BY <1>2, <1>3 DEF Ascending
<1>5. (CHOOSE i \in known : IsLast(i)) \in known /\ IsLast(CHOOSE i \in known : IsLast(i))
  BY <1>4
<1> DEFINE c == CHOOSE i \in known : IsLast(i)
<1>6. Latest(history, known) = history[c].text
  BY DEF Latest
<1>7. c \in known /\ (history[j].line < history[c].line \/ (history[j].line = history[c].line /\ j <= c))
  BY <1>5
<1> HIDE DEF c
<1>8. c = j
  <2>1. history[c].line <= history[j].line /\ c <= j
    BY <1>2, <1>3, <1>7 DEF Ascending
  <2> QED BY <1>3, <1>7, <2>1
<1> QED BY <1>2, <1>6, <1>8

\* What is looked up is a text, if there is anything.
LEMMA LookUpTyped ==
  ASSUME NEW rc, IsContext(rc), NEW x \in Variable, NEW limit
  PROVE  LookUp(rc, x, limit) \in Text \cup {NoEntry}
<1>1. rc.frame[x] \in Seq(Entries) /\ Ascending(rc.frame[x]) /\ rc.bound[x] \in Text \cup {NoEntry}
  BY DEF IsContext, Frame
<1>2. CASE UpTo(rc.frame[x], limit) # {}
  <2>1. UpTo(rc.frame[x], limit) \in SUBSET DOMAIN rc.frame[x]
    BY DEF UpTo
  <2>2. PICK j \in UpTo(rc.frame[x], limit) : Latest(rc.frame[x], UpTo(rc.frame[x], limit)) = rc.frame[x][j].text
    BY <1>1, <1>2, <2>1, LatestIs
  <2>3. rc.frame[x][j] \in Entries
    BY <1>1, <2>1
  <2>4. rc.frame[x][j].text \in Text
    BY <2>3 DEF Entries
  <2> QED BY <1>2, <2>2, <2>4 DEF LookUp
<1>3. CASE UpTo(rc.frame[x], limit) = {}
  BY <1>1, <1>3 DEF LookUp
<1> QED BY <1>2, <1>3

\* A variable is rendered as a text (resolve_decl_ref).
LEMMA VariableTextTyped ==
  ASSUME program \in Programs, NEW rc, IsContext(rc), NEW x \in Variable, NEW limit
  PROVE  VariableText(x, rc, limit) \in Text
<1>1. LookUp(rc, x, limit) \in Text \cup {NoEntry}
  BY LookUpTyped
<1>2. x \in DOMAIN program.global => program.global[x] \in Text
  <2>1. IsProgram(program)
    BY ProgramsAreWhole
  <2> QED BY <2>1 DEF IsProgram, Text
<1>3. Placeholder \in Text
  BY DEF Text
<1> QED BY <1>1, <1>2, <1>3 DEF VariableText

\* What m is, by the kind of the expression.
RenderedBy(m, e, depth, rc, limit, inlined, text) ==
  /\ e.kind \in {"literal", "name", "operator", "paren", "call"}
  /\ e.kind = "literal" => m = e.value /\ e.value \in Value
  /\ e.kind = "operator" => m = Source
  /\ e.kind \notin {"literal", "operator"} /\ depth = 0 => m = Source
  /\ e.kind = "paren" => e.of \in Expr /\ e.of \in Parts(e)
  /\ e.kind = "paren" /\ depth > 0 => m = text[depth - 1][e.of]
  /\ e.kind = "name" => e.name \in Variable
  /\ e.kind = "name" /\ depth > 0 => m = VariableText(e.name, rc, limit)
  /\ e.kind = "call" => e.args \in Seq(Expr) /\ \A i \in DOMAIN e.args : e.args[i] \in Expr /\ e.args[i] \in Parts(e)
  /\ e.kind = "call" /\ depth > 0 /\ ~(depth > 1 /\ e.callee \in Function) => m = Rendered
  /\ e.kind = "call" /\ depth > 0 /\ depth > 1 /\ e.callee \in Function =>
       m = inlined[Summary(e.callee)][[i \in DOMAIN e.args |-> text[depth - 1][e.args[i]]]][rc.active]

\* The text of each kind of expression (resolve_expr).
LEMMA RenderingOf ==
  ASSUME NEW e \in Expr, NEW depth \in Nat, NEW rc, NEW limit, NEW inlined, NEW text
  PROVE  RenderedBy(Rendering(e, depth, rc, limit, inlined, text), e, depth, rc, limit, inlined, text)
<1> DEFINE m == Rendering(e, depth, rc, limit, inlined, text)
<1>1. IsExpression(e)
  BY ExpressionsAreTrees
<1>2. e.kind \in {"literal", "name", "operator", "paren", "call"}
  BY <1>1 DEF IsExpression
<1>3. /\ e.kind = "literal" => m = e.value
      /\ e.kind = "operator" => m = Source
      /\ e.kind \notin {"literal", "operator"} /\ depth = 0 => m = Source
  <2>1. e.kind = "literal" => m = e.value
    BY DEF Rendering
  <2>2. e.kind = "operator" => m = Source
    BY DEF Rendering
  <2>3. e.kind \notin {"literal", "operator"} /\ depth = 0 => m = Source
    BY DEF Rendering
  <2> QED BY <2>1, <2>2, <2>3
<1>10. e.kind = "paren" /\ depth > 0 => m = text[depth - 1][e.of]
  BY DEF Rendering
<1>11. e.kind = "name" /\ depth > 0 => m = VariableText(e.name, rc, limit)
  BY DEF Rendering
<1>4. e.kind = "call" /\ depth > 0 =>
        m = IF depth > 1 /\ e.callee \in Function
            THEN inlined[Summary(e.callee)][[i \in DOMAIN e.args |-> text[depth - 1][e.args[i]]]][rc.active]
            ELSE Rendered
  BY DEF Rendering
<1> HIDE DEF m
<1>5. e.kind = "literal" => e.value \in Value
  BY <1>1 DEF IsExpression
<1>6. e.kind = "name" => e.name \in Variable
  BY <1>1 DEF IsExpression
<1>7. e.kind = "paren" => e.of \in Expr /\ e.of \in Parts(e)
  BY <1>1 DEF IsExpression, Parts
<1>8. e.kind = "call" => e.args \in Seq(Expr) /\ \A i \in DOMAIN e.args : e.args[i] \in Expr /\ e.args[i] \in Parts(e)
  <2> SUFFICES ASSUME e.kind = "call"
               PROVE  e.args \in Seq(Expr) /\ \A i \in DOMAIN e.args : e.args[i] \in Expr /\ e.args[i] \in Parts(e)
    OBVIOUS
  <2>1. e.args \in Seq(Expr)
    BY <1>1 DEF IsExpression
  <2> QED BY <2>1 DEF Parts
<1>9. RenderedBy(m, e, depth, rc, limit, inlined, text)
  BY <1>2, <1>3, <1>4, <1>5, <1>6, <1>7, <1>8, <1>10, <1>11 DEF RenderedBy
<1> QED BY <1>9 DEF m

\* As many members as a sequence has are a sequence.
LEMMA AsLong ==
  ASSUME NEW S, NEW T, NEW s \in Seq(S), NEW t \in [DOMAIN s -> T]
  PROVE  t \in Seq(T)
<1>1. Len(s) \in Nat /\ DOMAIN s = 1 .. Len(s)
  OBVIOUS
<1> QED BY <1>1

\* It is a text if the parts are rendered as texts.
LEMMA RenderingTyped ==
  ASSUME program \in Programs, NEW e \in Expr, NEW depth \in Nat, NEW rc, IsContext(rc), NEW limit,
         NEW inlined \in Table, NEW text,
         depth > 0 => \A part \in Parts(e) : text[depth - 1][part] \in Text
  PROVE  Rendering(e, depth, rc, limit, inlined, text) \in Text
<1> DEFINE m == Rendering(e, depth, rc, limit, inlined, text)
<1>0. RenderedBy(m, e, depth, rc, limit, inlined, text)
  BY RenderingOf
<1> HIDE DEF m
<1> SUFFICES m \in Text
  BY DEF m
<1>1. Source \in Text /\ Rendered \in Text /\ Value \subseteq Text
  BY DEF Text
<1>2. CASE e.kind \in {"literal", "operator"} \/ depth = 0
  <2>1. m \in Value \/ m = Source
    BY ONLY <1>0, <1>2, Zenon DEF RenderedBy
  <2> QED BY <1>1, <2>1
<1>6. CASE e.kind = "paren" /\ depth > 0
  <2>1. e.of \in Parts(e) /\ m = text[depth - 1][e.of]
    BY ONLY <1>0, <1>6, Zenon DEF RenderedBy
  <2> QED BY <1>6, <2>1
<1>3. CASE e.kind = "name" /\ depth > 0
  <2>1. e.name \in Variable /\ m = VariableText(e.name, rc, limit)
    BY ONLY <1>0, <1>3, Zenon DEF RenderedBy
  <2>2. VariableText(e.name, rc, limit) \in Text
    BY <2>1, VariableTextTyped
  <2> QED BY <2>1, <2>2
<1>4. CASE e.kind = "call" /\ depth > 0
  <2>1. CASE ~(depth > 1 /\ e.callee \in Function)
    BY <1>0, <1>1, <1>4, <2>1 DEF RenderedBy
  <2>2. CASE depth > 1 /\ e.callee \in Function
    <3> DEFINE texts == [i \in DOMAIN e.args |-> text[depth - 1][e.args[i]]]
    <3>1. e.args \in Seq(Expr) /\ \A i \in DOMAIN e.args : e.args[i] \in Parts(e)
      BY <1>0, <1>4 DEF RenderedBy
    <3>2. \A i \in DOMAIN e.args : text[depth - 1][e.args[i]] \in Text
      BY <1>4, <3>1
    <3>3. texts \in Seq(Text)
      <4>1. texts \in [DOMAIN e.args -> Text]
        BY <3>2
      <4> HIDE DEF texts
      <4> QED BY <3>1, <4>1, AsLong
    <3>4. Summary(e.callee) \in Function
      BY <2>2, ProgramTypes DEF Summary
    <3>5. m = inlined[Summary(e.callee)][texts][rc.active]
      BY <1>0, <1>4, <2>2 DEF RenderedBy
    <3> HIDE DEF texts
    <3>6. rc.active \in SUBSET Function
      BY DEF IsContext
    <3> QED BY <3>3, <3>4, <3>5, <3>6 DEF Table
  <2> QED BY <2>1, <2>2
<1>5. e.kind \in {"literal", "name", "operator", "paren", "call"} /\ (depth = 0 \/ depth > 0)
  <2>1. e.kind \in {"literal", "name", "operator", "paren", "call"}
    BY ONLY <1>0, Zenon DEF RenderedBy
  <2>2. depth = 0 \/ depth > 0
    BY ONLY depth \in Nat
  <2> QED BY <2>1, <2>2
<1> QED BY <1>2, <1>3, <1>4, <1>5, <1>6

\* It depends on the texts of the parts at the depth below only.
LEMMA RenderingLooksAtParts ==
  ASSUME NEW e \in Expr, NEW depth \in Nat, NEW rc, NEW limit, NEW inlined, NEW g, NEW h,
         depth > 0 => \A part \in Parts(e) : g[depth - 1][part] = h[depth - 1][part]
  PROVE  Rendering(e, depth, rc, limit, inlined, g) = Rendering(e, depth, rc, limit, inlined, h)
<1> DEFINE a == Rendering(e, depth, rc, limit, inlined, g)
           b == Rendering(e, depth, rc, limit, inlined, h)
<1>1. RenderedBy(a, e, depth, rc, limit, inlined, g) /\ RenderedBy(b, e, depth, rc, limit, inlined, h)
  BY RenderingOf
<1>0. depth > 0 => \A part \in Parts(e) : g[depth - 1][part] = h[depth - 1][part]
  OBVIOUS
<1> HIDE DEF a, b
<1> SUFFICES a = b
  BY DEF a, b
<1>2. CASE e.kind \in {"literal", "operator"} \/ depth = 0
  BY ONLY <1>1, <1>2, depth \in Nat DEF RenderedBy
<1>4. CASE e.kind = "name" /\ depth > 0
  BY ONLY <1>1, <1>4, Zenon DEF RenderedBy
<1>5. CASE e.kind = "paren" /\ depth > 0
  <2>1. e.of \in Parts(e) /\ a = g[depth - 1][e.of] /\ b = h[depth - 1][e.of]
    BY ONLY <1>1, <1>5, Zenon DEF RenderedBy
  <2> QED BY <1>0, <1>5, <2>1
<1>6. CASE e.kind = "call" /\ depth > 0 /\ ~(depth > 1 /\ e.callee \in Function)
  BY ONLY <1>1, <1>6, Zenon DEF RenderedBy
<1>3. CASE e.kind = "call" /\ depth > 0 /\ depth > 1 /\ e.callee \in Function
  <2>1. \A i \in DOMAIN e.args : g[depth - 1][e.args[i]] = h[depth - 1][e.args[i]]
    BY <1>0, <1>1, <1>3 DEF RenderedBy
  <2>2. [i \in DOMAIN e.args |-> g[depth - 1][e.args[i]]] = [i \in DOMAIN e.args |-> h[depth - 1][e.args[i]]]
    BY <2>1
  <2>3. /\ a = inlined[Summary(e.callee)][[i \in DOMAIN e.args |-> g[depth - 1][e.args[i]]]][rc.active]
        /\ b = inlined[Summary(e.callee)][[i \in DOMAIN e.args |-> h[depth - 1][e.args[i]]]][rc.active]
    BY ONLY <1>1, <1>3, Zenon DEF RenderedBy
  <2> QED BY <2>2, <2>3
<1>7. e.kind \in {"literal", "name", "operator", "paren", "call"} /\ (depth = 0 \/ depth > 0)
  <2>1. e.kind \in {"literal", "name", "operator", "paren", "call"}
    BY ONLY <1>1, Zenon DEF RenderedBy
  <2>2. depth = 0 \/ depth > 0
    BY ONLY depth \in Nat
  <2> QED BY <2>1, <2>2
<1> QED BY <1>2, <1>3, <1>4, <1>5, <1>6, <1>7

\* The texts follow each other up the expressions and the depths.
ResolvedBy(text, rc, limit, inlined) ==
  /\ text \in [Nat -> [Expr -> Text]]
  /\ \A depth \in Nat : \A e \in Expr : RenderedBy(text[depth][e], e, depth, rc, limit, inlined, text)

\* Resolved is what its definition says.
LEMMA ResolvedAre ==
  ASSUME program \in Programs, NEW rc, IsContext(rc), NEW limit, NEW inlined \in Table
  PROVE  ResolvedBy(Resolved(rc, limit, inlined), rc, limit, inlined)
<1> DEFINE S == [Expr -> Text]
           wide(s) == [k \in Nat |-> s]
           base == [e \in Expr |-> Rendering(e, 0, rc, limit, inlined, <<>>)]
           step == [a \in Nat \X S |-> [e \in Expr |-> Rendering(e, a[1], rc, limit, inlined, wide(a[2]))]]
<1>0. ASSUME NEW s, NEW depth \in Nat PROVE wide(s)[depth] = s
  OBVIOUS
<1> HIDE DEF wide
<1>1. base \in S
  <2>1. ASSUME NEW e \in Expr PROVE Rendering(e, 0, rc, limit, inlined, <<>>) \in Text
    <3>1. 0 \in Nat /\ ~(0 > 0)
      OBVIOUS
    <3> QED BY ONLY <3>1, RenderingTyped, program \in Programs, IsContext(rc), inlined \in Table, e \in Expr
  <2> QED BY <2>1
<1>2. ASSUME NEW n \in Nat, NEW s \in S, NEW e \in Expr
      PROVE  Rendering(e, n, rc, limit, inlined, wide(s)) \in Text
  <2>1. ASSUME n > 0, NEW part \in Parts(e) PROVE wide(s)[n - 1][part] \in Text
    <3>1. n - 1 \in Nat /\ part \in Expr
      BY <2>1, PartsAreLower
    <3> QED BY <1>0, <3>1
  <2> QED BY ONLY <2>1, RenderingTyped, program \in Programs, IsContext(rc), inlined \in Table, e \in Expr, n \in Nat
<1>3. ASSUME NEW n \in Nat, NEW s \in S
      PROVE  step[n, s] = [e \in Expr |-> Rendering(e, n, rc, limit, inlined, wide(s))]
  OBVIOUS
<1>4. step \in [Nat \X S -> S]
  <2>1. step = [a \in Nat \X S |-> step[a]]
    OBVIOUS
  <2>2. ASSUME NEW a \in Nat \X S PROVE step[a] \in S
    <3>1. PICK n \in Nat, s \in S : a = <<n, s>>
      OBVIOUS
    <3>2. [e \in Expr |-> Rendering(e, n, rc, limit, inlined, wide(s))] \in S
      BY <1>2
    <3> HIDE DEF step, S
    <3> QED BY <1>3, <3>1, <3>2
  <2> HIDE DEF step, S
  <2> QED BY <2>1, <2>2
<1> HIDE DEF step, base
<1>5. PICK t \in [Nat -> S] : Recurs(t, base, step)
  <2> HIDE DEF S
  <2> QED BY <1>1, <1>4, NatRecursion
<1>7. ASSUME NEW depth \in Nat
      PROVE  t[depth] = [e \in Expr |-> Rendering(e, depth, rc, limit, inlined, t)]
  <2>1. CASE depth = 0
    <3>1. t[0] = base
      BY <1>5 DEF Recurs
    <3>2. ASSUME NEW e \in Expr
          PROVE  Rendering(e, 0, rc, limit, inlined, <<>>) = Rendering(e, 0, rc, limit, inlined, t)
      <4>1. ~(0 > 0) /\ 0 \in Nat
        OBVIOUS
      <4> QED BY ONLY <4>1, RenderingLooksAtParts, e \in Expr
    <3> QED BY <2>1, <3>1, <3>2 DEF base
  <2>2. CASE depth # 0
    <3>1. depth > 0 /\ depth - 1 \in Nat
      BY <2>2
    <3>2. t[depth] = step[depth, t[depth - 1]]
      BY <1>5, <3>1 DEF Recurs
    <3>3. t[depth - 1] \in S
      BY <3>1
    <3>4. t[depth] = [e \in Expr |-> Rendering(e, depth, rc, limit, inlined, wide(t[depth - 1]))]
      BY <1>3, <3>2, <3>3
    <3>5. ASSUME NEW e \in Expr
          PROVE  Rendering(e, depth, rc, limit, inlined, wide(t[depth - 1])) = Rendering(e, depth, rc, limit, inlined, t)
      <4>1. ASSUME NEW part \in Parts(e) PROVE wide(t[depth - 1])[depth - 1][part] = t[depth - 1][part]
        BY <1>0, <3>1
      <4> QED BY ONLY <4>1, RenderingLooksAtParts, e \in Expr, depth \in Nat
    <3> QED BY <3>4, <3>5
  <2> QED BY <2>1, <2>2
<1>8. t = [depth \in Nat |-> [e \in Expr |-> Rendering(e, depth, rc, limit, inlined, t)]]
  BY <1>7
<1> DEFINE text[depth \in Nat] == [e \in Expr |-> Rendering(e, depth, rc, limit, inlined, text)]
<1>9. Resolved(rc, limit, inlined) = text
  BY DEF Resolved
<1>10. text = [depth \in Nat |-> [e \in Expr |-> Rendering(e, depth, rc, limit, inlined, text)]]
  BY <1>8, Zenon DEF text
<1> HIDE DEF text
<1>11. \A depth \in Nat : text[depth] = [e \in Expr |-> Rendering(e, depth, rc, limit, inlined, text)]
  BY <1>10, Zenon
<1>12. \A depth \in Nat : \A e \in Expr : text[depth][e] = Rendering(e, depth, rc, limit, inlined, text)
  BY <1>11
<1>13. \A depth \in Nat : text[depth] \in [Expr -> Text]
  <2> DEFINE T == {n \in Nat : text[n] \in [Expr -> Text]}
  <2>1. 0 \in T
    <3>1. ASSUME NEW e \in Expr PROVE Rendering(e, 0, rc, limit, inlined, text) \in Text
      <4>1. 0 \in Nat /\ ~(0 > 0)
        OBVIOUS
      <4> QED BY ONLY <4>1, RenderingTyped, program \in Programs, IsContext(rc), inlined \in Table, e \in Expr
    <3> QED BY <1>11, <3>1
  <2>2. ASSUME NEW n \in Nat, n \in T PROVE n + 1 \in T
    <3>0. n + 1 \in Nat /\ (n + 1) - 1 = n
      OBVIOUS
    <3>1. ASSUME NEW e \in Expr PROVE Rendering(e, n + 1, rc, limit, inlined, text) \in Text
      <4>1. ASSUME NEW part \in Parts(e) PROVE text[(n + 1) - 1][part] \in Text
        BY <2>2, <3>0, PartsAreLower
      <4> QED BY ONLY <3>0, <4>1, RenderingTyped, program \in Programs, IsContext(rc), inlined \in Table, e \in Expr
    <3>2. text[n + 1] = [e \in Expr |-> Rendering(e, n + 1, rc, limit, inlined, text)]
      BY <1>11, <3>0
    <3>3. text[n + 1] \in [Expr -> Text]
      BY <3>1, <3>2
    <3> QED BY <3>0, <3>3
  <2> HIDE DEF T
  <2>3. Nat \subseteq T
    BY <2>1, <2>2, Induction
  <2> QED BY <2>3 DEF T
<1>14. text \in [Nat -> [Expr -> Text]]
  <2>1. text = [depth \in Nat |-> text[depth]]
    BY <1>10, <1>11, Zenon
  <2> QED BY <1>13, <2>1
<1>15. \A depth \in Nat : \A e \in Expr : RenderedBy(text[depth][e], e, depth, rc, limit, inlined, text)
  BY <1>12, RenderingOf
<1>16. ResolvedBy(text, rc, limit, inlined)
  BY <1>14, <1>15 DEF ResolvedBy
<1> QED BY <1>9, <1>16

\* The state has its types.
ValuesTypes ==
  /\ program \in Programs
  /\ walked \in Function
  /\ actuals \in Seq(Text)
  /\ waiting \subseteq Function
  /\ locals \in [Function -> Frame]
  /\ returned \in [Function -> Expr \cup {NoEntry}]

\* Nothing is recorded at first.
LEMMA NoFrameTyped == NoFrame \in Frame /\ NoBinding \in [Variable -> Text \cup {NoEntry}]
<1>1. \A x \in Variable : NoFrame[x] = <<>>
  BY DEF NoFrame
<1>2. \A x \in Variable : Ascending(NoFrame[x])
  BY <1>1 DEF Ascending
<1>3. NoFrame \in [Variable -> Seq(Entries)]
  BY DEF NoFrame
<1> QED BY <1>2, <1>3 DEF Frame, NoBinding

\* What a call binds are texts.
LEMMA BoundTyped ==
  ASSUME program \in Programs, NEW f \in Function, NEW given \in Seq(Text)
  PROVE  Bound(f, given) \in [Variable -> Text \cup {NoEntry}]
<1>1. ASSUME NEW i, i \in DOMAIN given PROVE given[i] \in Text
  BY <1>1
<1>2. Placeholder \in Text
  BY DEF Text
<1> QED BY <1>1, <1>2 DEF Bound

\* A sequence that is not empty has a member.
LEMMA NotEmpty == ASSUME NEW S, NEW s \in Seq(S), s # <<>> PROVE DOMAIN s # {} /\ Len(s) \in Nat /\ Len(s) > 0
<1>1. Len(s) \in Nat /\ DOMAIN s = 1 .. Len(s) /\ Len(s) # 0
  OBVIOUS
<1>2. 1 \in DOMAIN s
  BY <1>1
<1> QED BY <1>1, <1>2

\* What a returned expression sees are texts.
LEMMA InsideTyped ==
  ASSUME ValuesTypes, NEW g \in Function, NEW given \in Seq(Text)
  PROVE  Inside(g, given) \in [Variable -> Text \cup {NoEntry}]
<1>1. Bound(g, given) \in [Variable -> Text \cup {NoEntry}]
  BY BoundTyped DEF ValuesTypes
<1>2. ASSUME NEW x \in Variable, locals[g][x] # <<>>
      PROVE  Latest(locals[g][x], DOMAIN locals[g][x]) \in Text
  <2>1. locals[g][x] \in Seq(Entries) /\ Ascending(locals[g][x])
    BY DEF ValuesTypes, Frame
  <2>2. DOMAIN locals[g][x] # {} /\ DOMAIN locals[g][x] \in SUBSET DOMAIN locals[g][x]
    BY <1>2, <2>1, NotEmpty
  <2>3. PICK j \in DOMAIN locals[g][x] : Latest(locals[g][x], DOMAIN locals[g][x]) = locals[g][x][j].text
    BY <2>1, <2>2, LatestIs
  <2>4. locals[g][x][j] \in Entries
    BY <2>1
  <2> QED BY <2>3, <2>4 DEF Entries
<1> QED BY <1>1, <1>2 DEF Inside

\* It is resolved in a context.
LEMMA NestedTyped ==
  ASSUME ValuesTypes, NEW g \in Function, NEW given \in Seq(Text), NEW active \in SUBSET Function
  PROVE  IsContext(Nested(g, given, active))
BY NoFrameTyped, InsideTyped DEF Nested, IsContext

\* What becomes of calls is a text (resolve_call_expr).
LEMMA InliningTyped ==
  ASSUME ValuesTypes, NEW inlined \in Table
  PROVE  /\ Inlining(inlined) \in Table
         /\ \A g \in Function : \A given \in Seq(Text) : \A active \in SUBSET Function :
              Inlining(inlined)[g][given][active] =
                IF CanInline(g, active)
                THEN Resolved(Nested(g, given, active), 0, inlined)[MaxInline][returned[g]]
                ELSE Rendered
<1> DEFINE become(g, given, active) ==
             IF CanInline(g, active)
             THEN Resolved(Nested(g, given, active), 0, inlined)[MaxInline][returned[g]]
             ELSE Rendered
<1>1. ASSUME NEW g \in Function, NEW given \in Seq(Text), NEW active \in SUBSET Function
      PROVE  become(g, given, active) \in Text
  <2>1. Rendered \in Text
    BY DEF Text
  <2>2. CASE CanInline(g, active)
    <3>1. returned[g] \in Expr
      BY <2>2 DEF CanInline, ValuesTypes
    <3>2. IsContext(Nested(g, given, active))
      BY NestedTyped
    <3>3. ResolvedBy(Resolved(Nested(g, given, active), 0, inlined), Nested(g, given, active), 0, inlined)
      BY <3>2, ResolvedAre DEF ValuesTypes
    <3>4. Resolved(Nested(g, given, active), 0, inlined)[MaxInline][returned[g]] \in Text
      BY <3>1, <3>3, TextsDiffer DEF ResolvedBy
    <3> QED BY <2>2, <3>4
  <2> QED BY <2>1, <2>2
<1>2. Inlining(inlined) =
        [g \in Function |-> [given \in Seq(Text) |-> [active \in SUBSET Function |-> become(g, given, active)]]]
  BY DEF Inlining
<1> HIDE DEF become
<1>3. Inlining(inlined) \in Table
  BY <1>1, <1>2 DEF Table
<1>4. \A g \in Function : \A given \in Seq(Text) : \A active \in SUBSET Function :
        Inlining(inlined)[g][given][active] = become(g, given, active)
  BY <1>2
<1> QED BY <1>3, <1>4 DEF become

\* The tables follow each other.
InlinedBy(tables) ==
  /\ tables \in [Nat -> Table]
  /\ tables[0] = NoInlining
  /\ \A left \in Nat : left > 0 => tables[left] = Inlining(tables[left - 1])

\* Inlined is what its definition says.
LEMMA InlinedAre ==
  ASSUME ValuesTypes
  PROVE  InlinedBy(Inlined)
<1> DEFINE step == [a \in Nat \X Table |-> Inlining(a[2])]
<1>1. NoInlining \in Table
  BY DEF NoInlining, Table, Text
<1>2. \A n \in Nat : \A s \in Table : step[n, s] = Inlining(s)
  OBVIOUS
<1>3. step \in [Nat \X Table -> Table]
  <2>1. \A a \in Nat \X Table : Inlining(a[2]) \in Table
    BY InliningTyped
  <2> QED BY <2>1
<1> HIDE DEF step
<1>4. PICK t \in [Nat -> Table] : Recurs(t, NoInlining, step)
  BY <1>1, <1>3, NatRecursion
<1>5. ASSUME NEW left \in Nat
      PROVE  t[left] = IF left = 0 THEN NoInlining ELSE Inlining(t[left - 1])
  <2>1. CASE left = 0
    BY <1>4, <2>1 DEF Recurs
  <2>2. CASE left # 0
    <3>1. left > 0 /\ left - 1 \in Nat
      BY <2>2
    <3>2. t[left] = step[left, t[left - 1]] /\ t[left - 1] \in Table
      BY <1>4, <3>1 DEF Recurs
    <3> QED BY <1>2, <2>2, <3>2
  <2> QED BY <2>1, <2>2
<1>6. t = [left \in Nat |-> IF left = 0 THEN NoInlining ELSE Inlining(t[left - 1])]
  BY <1>5
<1>7. Inlined = [left \in Nat |-> IF left = 0 THEN NoInlining ELSE Inlining(Inlined[left - 1])]
  BY <1>6, Zenon DEF Inlined
<1>8. Inlined[0] = NoInlining
  <2>1. 0 \in Nat
    OBVIOUS
  <2> QED BY <1>7, <2>1, Zenon
<1>9. \A left \in Nat : left > 0 => Inlined[left] = Inlining(Inlined[left - 1])
  <2>1. \A left \in Nat : Inlined[left] = IF left = 0 THEN NoInlining ELSE Inlining(Inlined[left - 1])
    BY <1>7, Zenon
  <2> QED BY <2>1
<1>10. \A left \in Nat : Inlined[left] \in Table
  <2> DEFINE T == {n \in Nat : Inlined[n] \in Table}
  <2>1. 0 \in T
    BY <1>1, <1>8
  <2>2. ASSUME NEW n \in Nat, n \in T PROVE n + 1 \in T
    <3>1. n + 1 \in Nat /\ n + 1 > 0 /\ (n + 1) - 1 = n
      OBVIOUS
    <3>2. Inlined[n + 1] = Inlining(Inlined[n])
      BY <1>9, <3>1
    <3>3. Inlined[n + 1] \in Table
      BY <2>2, <3>2, InliningTyped
    <3> QED BY <3>1, <3>3
  <2> HIDE DEF T
  <2>3. Nat \subseteq T
    BY <2>1, <2>2, Induction
  <2> QED BY <2>3 DEF T
<1>11. Inlined \in [Nat -> Table]
  <2>1. Inlined = [left \in Nat |-> Inlined[left]]
    BY <1>7, Zenon
  <2> QED BY <1>10, <2>1
<1> QED BY <1>8, <1>9, <1>11 DEF InlinedBy

\* An expression becomes a text.
LEMMA ResolveTyped ==
  ASSUME ValuesTypes, NEW e \in Expr, NEW rc, IsContext(rc), NEW limit
  PROVE  /\ Inlined[Cardinality(Function)] \in Table
         /\ ResolvedBy(Resolved(rc, limit, Inlined[Cardinality(Function)]), rc, limit, Inlined[Cardinality(Function)])
         /\ ResolveExpr(e, rc, limit) \in Text
<1>1. Cardinality(Function) \in Nat
  BY ProgramsAreWhole, FS_CardinalityType
<1>2. Inlined[Cardinality(Function)] \in Table
  BY <1>1, InlinedAre DEF InlinedBy
<1> DEFINE tab == Inlined[Cardinality(Function)]
<1> HIDE DEF tab
<1>3. ResolvedBy(Resolved(rc, limit, tab), rc, limit, tab)
  BY <1>2, ResolvedAre DEF ValuesTypes, tab
<1>4. Resolved(rc, limit, tab)[MaxResolve][e] \in Text
  BY <1>3, TextsDiffer DEF ResolvedBy
<1> QED BY <1>2, <1>3, <1>4 DEF ResolveExpr, tab
-----------------------------------------------------------------------------
(***************************************************************************)
(* Traceable programs, and what entries are to be.                         *)
(***************************************************************************)
\* An item of which an entry is made.
Noticed(f, q, x) == Recorded(Body(f)[q]) /\ Body(f)[q].name = x

\* A body of literals and other variables, called with known values.
Plain ==
  /\ \A i \in DOMAIN Params(walked) : i \in DOMAIN actuals /\ actuals[i] \in Value
  /\ \A p \in DOMAIN Body(walked) :
       LET item == Body(walked)[p]
       IN  /\ item.kind # "open"
           /\ item.kind \in {"set", "use"} => item.expr \in Direct[MaxResolve]
           /\ item.kind = "set" => Reads[item.expr] \cap ParamNames(program, walked) = {}

\* What the entry of an item says the variable may have behind the item.
IsReal(f, q, text) ==
  text \in Value =>
    \A given \in Given(program, f) : \A branch \in Branch : Reached(f, q, branch) =>
      \E env \in Runs(program, f, given, branch)[q] : env[Body(f)[q].name] = text

\* What is to hold of the text of an entry.
IsEntry(f, q, text) ==
  /\ text \in Text
  /\ Traceable => IsReal(f, q, text)
  /\ Plain /\ f = walked => text \in Value

\* The entries of a variable are those of its items, in their order: pos tells
\* the item of each entry.
IsHistory(f, n, history, x, pos) ==
  /\ pos \in [DOMAIN history -> 1 .. n]
  /\ \A j, k \in DOMAIN history : j < k => pos[j] < pos[k]
  /\ \A j \in DOMAIN history :
        /\ Noticed(f, pos[j], x)
        /\ history[j].line = Body(f)[pos[j]].line
        /\ IsEntry(f, pos[j], history[j].text)
  /\ \A q \in 1 .. n : Noticed(f, q, x) => \E j \in DOMAIN history : pos[j] = q

Histories(f, n, frame) == \A x \in Variable : \E pos : IsHistory(f, n, frame[x], x, pos)

\* What the entries known say, when they are those of the first m items.
LastEntry(f, m, x, history, known) ==
  \/ known = {} /\ \A q \in 1 .. m : ~Noticed(f, q, x)
  \/ /\ known # {}
     /\ \E w \in 1 .. m : /\ Noticed(f, w, x)
                          /\ \A q \in w + 1 .. m : ~Noticed(f, q, x)
                          /\ IsEntry(f, w, Latest(history, known))

\* The entries of the first m items say what the last of these items gave.
LEMMA LastIs ==
  ASSUME NEW f, NEW n \in Nat, NEW m \in 0 .. n, NEW x, NEW history \in Seq(Entries), Ascending(history),
         NEW pos, IsHistory(f, n, history, x, pos),
         NEW known \in SUBSET DOMAIN history, \A j \in DOMAIN history : j \in known <=> pos[j] <= m
  PROVE  LastEntry(f, m, x, history, known)
<1>1. CASE known = {}
  <2>1. ASSUME NEW q \in 1 .. m, Noticed(f, q, x) PROVE FALSE
    <3>1. q \in 1 .. n
      OBVIOUS
    <3>2. PICK j \in DOMAIN history : pos[j] = q
      BY <2>1, <3>1 DEF IsHistory
    <3>3. j \in known
      BY <3>2
    <3> QED BY <1>1, <3>3
  <2> QED BY <1>1, <2>1 DEF LastEntry
<1>2. CASE known # {}
  <2>1. PICK j \in known : (\A k \in known : k <= j) /\ Latest(history, known) = history[j].text
    BY <1>2, LatestIs
  <2>2. j \in DOMAIN history /\ pos[j] \in 1 .. n /\ pos[j] <= m
    BY DEF IsHistory
  <2>3. pos[j] \in 1 .. m
    BY <2>2
  <2>4. Noticed(f, pos[j], x) /\ IsEntry(f, pos[j], Latest(history, known))
    BY <2>1, <2>2 DEF IsHistory
  <2>5. ASSUME NEW q \in pos[j] + 1 .. m, Noticed(f, q, x) PROVE FALSE
    <3>1. q \in 1 .. n /\ q <= m /\ q > pos[j]
      BY <2>3
    <3>2. PICK k \in DOMAIN history : pos[k] = q
      BY <2>5, <3>1 DEF IsHistory
    <3>3. k \in known /\ k <= j
      BY <2>1, <3>1, <3>2
    <3>4. k \in Nat /\ j \in Nat
      BY <2>2
    <3>5. k = j \/ pos[k] < pos[j]
      BY <2>2, <3>3, <3>4 DEF IsHistory
    <3> QED BY <2>2, <3>1, <3>2, <3>5
  <2> QED BY <1>2, <2>3, <2>4, <2>5 DEF LastEntry
<1> QED BY <1>1, <1>2

\* Lines follow the order of the items.
LEMMA LinesAscend ==
  ASSUME program \in Programs, NEW f \in Function, NEW p \in DOMAIN Body(f), NEW q \in DOMAIN Body(f), p <= q
  PROVE  Body(f)[p].line <= Body(f)[q].line /\ Body(f)[p].line \in Nat /\ Body(f)[q].line \in Nat
<1>1. IsProgram(program)
  BY ProgramsAreWhole
<1>2. \A r, s \in DOMAIN program.body[f] : r < s => program.body[f][r].line <= program.body[f][s].line
  BY <1>1 DEF IsProgram
<1>3. Body(f)[p].line \in Nat /\ Body(f)[q].line \in Nat
  BY ItemTypes DEF Body
<1>4. p < q \/ p = q
  <2>1. p \in Nat /\ q \in Nat
    BY ItemTypes DEF Body
  <2> QED BY <2>1
<1> QED BY <1>2, <1>3, <1>4 DEF Body

\* What being traceable says of a body.
TracesIn(f) ==
  /\ Summary(f) = f
  /\ \A x \in DOMAIN program.global : \A q \in DOMAIN Body(f) : ~WritesTo(program, f, q, x)
  /\ ReturnsOf(f) # {} => \A x \in ParamNames(program, f) : \A q \in DOMAIN Body(f) : ~WritesTo(program, f, q, x)
  /\ \A q \in DOMAIN Body(f) : \A x : WritesTo(program, f, q, x) <=> Noticed(f, q, x)

\* What it says of an item that reads.
TracesAt(f, p) ==
  /\ Body(f)[p].kind # "set" => \E branch \in Branch : Reached(f, p, branch)
  /\ \A x \in Reads[Body(f)[p].expr] : \A q \in DOMAIN Body(f) : Noticed(f, q, x) =>
       /\ p < q => Body(f)[p].kind # "return"
       /\ p < q /\ Body(f)[p].kind = "use" => Body(f)[p].line < Body(f)[q].line
       /\ q < p => \E branch \in Branch : Reached(f, p, branch) /\ Reached(f, q, branch)
       /\ q < p /\ Body(f)[p].kind = "set" => Body(f)[q].when = "always"

\* Traceable says so of every body and of every item that reads.
LEMMA TraceableIs ==
  ASSUME program \in Programs, Traceable
  PROVE  /\ CallsReturn(program)
         /\ \A f \in Function : TracesIn(f)
         /\ \A f \in Function : \A p \in DOMAIN Body(f) : Body(f)[p].kind \in {"set", "return", "use"} => TracesAt(f, p)
<1>1. CallsReturn(program)
  BY DEF Traceable, CallsReturn
<1>2. \A f : \A x : \A q : q \in Writes(f, x) <=> q \in DOMAIN Body(f) /\ WritesTo(program, f, q, x)
  BY DEF Writes, WritesTo, Body
<1>3. ASSUME NEW f \in Function PROVE TracesIn(f)
  <2>1. /\ Summary(f) = f
        /\ \A x \in DOMAIN program.global : Writes(f, x) = {}
        /\ ReturnsOf(f) # {} => \A x \in ParamNames(program, f) : Writes(f, x) = {}
        /\ \A p \in DOMAIN Body(f) : Body(f)[p].kind # "hidden"
    BY DEF Traceable
  <2>2. \A q \in DOMAIN Body(f) : \A x : WritesTo(program, f, q, x) <=> Noticed(f, q, x)
    BY <2>1 DEF WritesTo, Noticed, Recorded, Body
  <2> QED BY <1>2, <2>1, <2>2 DEF TracesIn
<1>4. ASSUME NEW f \in Function, NEW p \in DOMAIN Body(f), Body(f)[p].kind \in {"set", "return", "use"}
      PROVE  TracesAt(f, p)
  <2>1. p \in {q \in DOMAIN Body(f) : Body(f)[q].kind \in {"set", "return", "use"}}
    BY <1>4
  <2>2. /\ Body(f)[p].kind # "set" => \E branch \in Branch : Reached(f, p, branch)
        /\ \A x \in Reads[Body(f)[p].expr] : \A q \in Writes(f, x) :
             /\ p < q => Body(f)[p].kind # "return" /\ (Body(f)[p].kind = "use" => Body(f)[p].line < Body(f)[q].line)
             /\ q < p => \E branch \in Branch : Reached(f, p, branch) /\ Reached(f, q, branch)
             /\ q < p /\ Body(f)[p].kind = "set" => Body(f)[q].when = "always"
    BY <2>1 DEF Traceable
  <2>3. \A x : \A q \in DOMAIN Body(f) : Noticed(f, q, x) => q \in Writes(f, x)
    BY DEF Noticed, Recorded, Writes
  <2> QED BY <2>2, <2>3 DEF TracesAt
<1> QED BY <1>1, <1>3, <1>4

\* Where an item is reached nothing above it returns.
LEMMA ReachedGoesOn ==
  ASSUME program \in Programs, NEW f \in Function, NEW p \in DOMAIN Body(f), NEW branch, Reached(f, p, branch),
         NEW w \in Nat
  PROVE  GoesOn(program, f, w, p - 1, branch)
<1> SUFFICES ASSUME NEW q \in w + 1 .. p - 1, Body(f)[q].kind = "return", Executed(Body(f)[q], branch) PROVE FALSE
  BY DEF GoesOn, Body
<1>1. DOMAIN Body(f) = 1 .. Len(Body(f)) /\ Len(Body(f)) \in Nat
  BY ProgramTypes DEF Body
<1>2. p \in Nat /\ p \in 1 .. Len(Body(f))
  BY <1>1
<1>3. q \in DOMAIN Body(f) /\ q < p
  BY <1>1, <1>2
<1>4. q \in ReturnsOf(f)
  BY <1>3 DEF ReturnsOf
<1> QED BY <1>3, <1>4 DEF Reached

\* In traceable bodies a variable keeps what it has while no item of it is noticed.
LEMMA UnnoticedIsUntouched ==
  ASSUME program \in Programs, Traceable, NEW f \in Function, NEW from \in Nat, NEW to, to <= Len(Body(f)), to \in Nat,
         NEW x, \A q \in from + 1 .. to : ~Noticed(f, q, x)
  PROVE  Untouched(program, f, from, to, x)
<1>1. DOMAIN Body(f) = 1 .. Len(Body(f)) /\ Len(Body(f)) \in Nat
  BY ProgramTypes DEF Body
<1>2. \A q \in from + 1 .. to : q \in DOMAIN Body(f)
  BY <1>1
<1>3. TracesIn(f)
  BY TraceableIs
<1> QED BY <1>2, <1>3 DEF TracesIn, Untouched

\* A value given by an item above is held on the paths through both.
LEMMA EntryHeld ==
  ASSUME program \in Programs, Traceable, NEW f \in Function, NEW given \in Given(program, f), NEW branch \in Branch,
         NEW p \in DOMAIN Body(f), Reached(f, p, branch), NEW x \in Variable,
         NEW w \in 1 .. p - 1, Noticed(f, w, x), \A q \in w + 1 .. p - 1 : ~Noticed(f, q, x), Reached(f, w, branch),
         NEW v \in Value, IsReal(f, w, v)
  PROVE  \E env \in Runs(program, f, given, branch)[p - 1] : env[x] = v
<1>1. DOMAIN Body(f) = 1 .. Len(Body(f)) /\ Len(Body(f)) \in Nat /\ p \in Nat /\ Body(f) = program.body[f]
  BY ProgramTypes DEF Body
<1>2. w \in Nat /\ w \in 1 .. Len(Body(f)) /\ p - 1 \in w .. Len(Body(f)) /\ p - 1 \in Nat /\ p - 1 <= Len(Body(f))
  BY <1>1
<1>3. CallsReturn(program)
  BY TraceableIs
<1>4. GoesOn(program, f, w, p - 1, branch)
  BY <1>2, ReachedGoesOn
<1>5. Untouched(program, f, w, p - 1, x)
  BY <1>2, UnnoticedIsUntouched
<1>6. \E env \in Runs(program, f, given, branch)[w] : env[x] = v
  BY DEF IsReal, Noticed
<1>7. PICK n \in w .. Len(program.body[f]) : n = p - 1
  BY <1>1, <1>2
<1>8. w \in 1 .. Len(program.body[f]) /\ GoesOn(program, f, w, n, branch) /\ Untouched(program, f, w, n, x)
  BY <1>1, <1>2, <1>4, <1>5, <1>7
<1>9. PICK env \in Runs(program, f, given, branch)[w] : env[x] = v
  BY <1>6
<1>10. w \in 0 .. Len(program.body[f])
  BY <1>8
<1>11. PICK env2 \in Runs(program, f, given, branch)[n] :
         \A y \in Variable : Untouched(program, f, w, n, y) => env2[y] = env[y]
  BY <1>3, <1>8, <1>10, RunsGoOn
<1>12. env2[x] = v
  BY <1>8, <1>9, <1>11
<1> QED BY <1>7, <1>11, <1>12

\* What no item above is noticed of is as at the start.
LEMMA StartHeld ==
  ASSUME program \in Programs, Traceable, NEW f \in Function, NEW given \in Given(program, f), NEW branch \in Branch,
         NEW p \in DOMAIN Body(f), Reached(f, p, branch)
  PROVE  \E env \in Runs(program, f, given, branch)[p - 1] :
            \A x \in Variable : (\A q \in 1 .. p - 1 : ~Noticed(f, q, x)) => env[x] = Start(program, f, given)[x]
<1>1. DOMAIN Body(f) = 1 .. Len(Body(f)) /\ Len(Body(f)) \in Nat /\ p \in Nat /\ Body(f) = program.body[f]
  BY ProgramTypes DEF Body
<1>2. p - 1 \in 0 .. Len(Body(f)) /\ p - 1 \in Nat /\ p - 1 <= Len(Body(f)) /\ 0 \in Nat
  BY <1>1
<1>3. CallsReturn(program)
  BY TraceableIs
<1>4. GoesOn(program, f, 0, p - 1, branch)
  BY <1>2, ReachedGoesOn
<1>5. PICK env \in Runs(program, f, given, branch)[p - 1] :
        \A x \in Variable : Untouched(program, f, 0, p - 1, x) => env[x] = Start(program, f, given)[x]
  BY <1>1, <1>2, <1>3, <1>4, RunsFromStart
<1>6. ASSUME NEW x \in Variable, \A q \in 1 .. p - 1 : ~Noticed(f, q, x)
      PROVE  Untouched(program, f, 0, p - 1, x)
  <2>1. \A q \in 0 + 1 .. p - 1 : ~Noticed(f, q, x)
    BY <1>6
  <2> QED BY <1>2, <2>1, UnnoticedIsUntouched
<1> QED BY <1>5, <1>6

\* A global is what it was initialised with.
LEMMA GlobalHeld ==
  ASSUME program \in Programs, Traceable, NEW f \in Function, NEW given \in Given(program, f), NEW branch \in Branch,
         NEW p \in DOMAIN Body(f), Reached(f, p, branch), NEW x \in DOMAIN program.global
  PROVE  /\ program.global[x] \in Value
         /\ \E env \in Runs(program, f, given, branch)[p - 1] : env[x] = program.global[x]
<1>1. x \in Variable /\ program.global[x] \in Value /\ x \notin ParamNames(program, f)
  BY ProgramTypes
<1>2. DOMAIN Body(f) = 1 .. Len(Body(f)) /\ Len(Body(f)) \in Nat /\ p \in Nat
  BY ProgramTypes DEF Body
<1>3. \A q \in 1 .. p - 1 : q \in DOMAIN Body(f)
  BY <1>2
<1>4. TracesIn(f)
  BY TraceableIs
<1>5. \A q \in 1 .. p - 1 : ~Noticed(f, q, x)
  BY <1>3, <1>4 DEF TracesIn
<1>6. Start(program, f, given)[x] = program.global[x]
  BY <1>1 DEF Start
<1>7. PICK env \in Runs(program, f, given, branch)[p - 1] :
        \A y \in Variable : (\A q \in 1 .. p - 1 : ~Noticed(f, q, y)) => env[y] = Start(program, f, given)[y]
  BY StartHeld
<1> QED BY <1>1, <1>5, <1>6, <1>7
-----------------------------------------------------------------------------
(***************************************************************************)
(* An expression that is rendered as a value may have that value.          *)
(***************************************************************************)
\* The texts an argument list has are values that some call in D is given.
Covers(D, g, given) ==
  \A i \in DOMAIN Params(g) : i \in DOMAIN given /\ given[i] \in Value => \E s \in D : s[i] = given[i]

\* What the table says a call becomes is what the call may return.
Faithful(table) ==
  \A g \in Function : \A given \in Seq(Text) : \A active \in SUBSET Function : \A D \in SUBSET Given(program, g) :
    D # {} /\ Covers(D, g, given) /\ table[g][given][active] \in Value =>
      \E s \in D : table[g][given][active] \in program.calls[g][s]

\* The values of the variables an expression reads are held in some of E.
Shown(E, e, rc, limit) ==
  \A y \in Reads[e] : VariableText(y, rc, limit) \in Value => \E env \in E : env[y] = VariableText(y, rc, limit)

\* The value may come of the expression.
MayBe(E, e, text) == text \in Value => \E env \in E : text \in Outcomes(program, env)[e]

\* What an expression reads its parts read.
LEMMA ReadsOfParts ==
  ASSUME NEW e \in Expr, e.kind # "name", NEW part \in Parts(e)
  PROVE  Reads[part] \subseteq Reads[e]
<1>1. Reads[e] = UNION {Reads[c] : c \in Parts(e)}
  BY ReadsIs
<1> QED BY <1>1

\* Values of the arguments are values calls are given.
LEMMA ArgumentsAreCovered ==
  ASSUME program \in Programs, CallsReturn(program), NEW E \in SUBSET Env,
         NEW e \in Expr, e.kind = "call", e.callee \in Function,
         e.args \in Seq(Expr), \A i \in DOMAIN e.args : e.args[i] \in Expr /\ e.args[i] \in Parts(e),
         NEW given \in Seq(Text), DOMAIN given = DOMAIN e.args,
         \A i \in DOMAIN e.args : MayBe(E, e.args[i], given[i])
  PROVE  Covers(UNION {Passing(program, e, Outcomes(program, env)) : env \in E}, e.callee, given)
<1> DEFINE D == UNION {Passing(program, e, Outcomes(program, env)) : env \in E}
<1> SUFFICES ASSUME NEW i \in DOMAIN Params(e.callee), i \in DOMAIN given, given[i] \in Value
             PROVE  \E s \in D : s[i] = given[i]
  BY DEF Covers
<1>1. PICK env \in E : given[i] \in Outcomes(program, env)[e.args[i]]
  BY DEF MayBe
<1>2. env \in Env
  OBVIOUS
<1>3. Outcomes(program, env) \in [Expr -> SUBSET Result]
  BY <1>2, OutcomesAre
<1>4. \A k \in DOMAIN e.args : Outcomes(program, env)[e.args[k]] # {}
  BY <1>2, OutcomesExist
<1>5. i \in DOMAIN program.params[e.callee] /\ i \in DOMAIN e.args
  BY DEF Params
<1> DEFINE o == Outcomes(program, env)
           v == given[i]
<1>6. o \in [Expr -> SUBSET Result] /\ (\A k \in DOMAIN e.args : o[e.args[k]] # {}) /\ v \in o[e.args[i]]
  BY <1>1, <1>3, <1>4
<1> HIDE DEF o, v
<1>7. IsPassed(program, e, o, i, v)
  BY ONLY <1>5, <1>6, AnyIsPassed, program \in Programs, e \in Expr, e.kind = "call", e.callee \in Function
<1>8. PICK s \in Passing(program, e, o) : s[i] = v
  BY <1>5, <1>7 DEF IsPassed
<1>9. s \in D
  BY <1>8 DEF o
<1> QED BY <1>8, <1>9 DEF v

\* A call may be made, whatever it is passed.
LEMMA CallsAreMade ==
  ASSUME program \in Programs, CallsReturn(program), NEW env \in Env,
         NEW e \in Expr, e.kind = "call", e.callee \in Function,
         \A i \in DOMAIN e.args : e.args[i] \in Expr
  PROVE  Passing(program, e, Outcomes(program, env)) # {}
<1>1. Outcomes(program, env) \in [Expr -> SUBSET Result]
  BY OutcomesAre
<1>2. \A k \in DOMAIN e.args : Outcomes(program, env)[e.args[k]] # {}
  BY OutcomesExist
<1>3. CASE \E i : i \in DOMAIN e.args
  <2>1. PICK i : i \in DOMAIN e.args
    BY <1>3
  <2>2. PICK v : v \in Outcomes(program, env)[e.args[i]]
    BY <1>2, <2>1
  <2>3. IsPassed(program, e, Outcomes(program, env), i, v)
    BY <1>1, <1>2, <2>1, <2>2, AnyIsPassed
  <2> QED BY <2>3 DEF IsPassed
<1>4. CASE ~ \E i : i \in DOMAIN e.args
  <2>1. [i \in DOMAIN program.params[e.callee] |-> Unknown] \in Given(program, e.callee)
    BY ResultTypes DEF Given
  <2> QED BY <1>4, <2>1 DEF Passing
<1> QED BY <1>3, <1>4

\* An expression may have the value it is rendered as, if its parts may.
LEMMA ExprStep ==
  ASSUME ValuesTypes, Traceable, NEW rc, IsContext(rc), NEW limit, NEW table \in Table, Faithful(table),
         NEW E \in SUBSET Env, E # {}, NEW text, ResolvedBy(text, rc, limit, table),
         NEW depth \in Nat, NEW e \in Expr, Shown(E, e, rc, limit),
         depth > 0 => \A part \in Expr : Shown(E, part, rc, limit) => MayBe(E, part, text[depth - 1][part])
  PROVE  MayBe(E, e, text[depth][e])
<1> DEFINE m == text[depth][e]
<1>0. RenderedBy(m, e, depth, rc, limit, table, text)
  BY DEF ResolvedBy
<1>1. \A env \in E : MeansBy(Outcomes(program, env)[e], program, env, e, Outcomes(program, env))
  <2> TAKE env \in E
  <2>1. Outcomes(program, env)[e] = Outcome(program, env, e, Outcomes(program, env))
    BY OutcomesAre DEF ValuesTypes
  <2> QED BY <2>1, OutcomeOf
<1> HIDE DEF m
<1> SUFFICES MayBe(E, e, m)
  BY DEF m
<1>2. PICK some \in E : TRUE
  OBVIOUS
<1>3. Source \notin Value /\ Rendered \notin Value
  BY TextsDiffer
<1>4. \A part \in Parts(e) : part \in Expr
  BY PartsAreLower
<1>5. depth > 0 /\ e.kind # "name" => \A part \in Parts(e) : MayBe(E, part, text[depth - 1][part])
  <2> SUFFICES ASSUME depth > 0, e.kind # "name", NEW part \in Parts(e) PROVE MayBe(E, part, text[depth - 1][part])
    OBVIOUS
  <2>1. Reads[part] \subseteq Reads[e] /\ part \in Expr
    BY <1>4, ReadsOfParts
  <2>2. Shown(E, part, rc, limit)
    BY <2>1 DEF Shown
  <2> QED BY <2>1, <2>2
<1>6. CASE e.kind = "literal"
  <2>1. m = e.value
    BY ONLY <1>0, <1>6, Zenon DEF RenderedBy
  <2>2. Outcomes(program, some)[e] = {e.value}
    BY <1>1, <1>6 DEF MeansBy
  <2> QED BY <2>1, <2>2 DEF MayBe
<1>7. CASE e.kind = "operator" \/ (e.kind # "literal" /\ depth = 0)
  <2>1. m = Source
    BY ONLY <1>0, <1>7, Zenon DEF RenderedBy
  <2> QED BY <1>3, <2>1 DEF MayBe
<1>8. CASE e.kind = "paren" /\ depth > 0
  <2>1. e.of \in Parts(e) /\ m = text[depth - 1][e.of]
    BY ONLY <1>0, <1>8, Zenon DEF RenderedBy
  <2>2. MayBe(E, e.of, m)
    BY <1>5, <1>8, <2>1
  <2>3. \A env \in E : Outcomes(program, env)[e] = Outcomes(program, env)[e.of]
    BY <1>1, <1>8 DEF MeansBy
  <2> QED BY <2>2, <2>3 DEF MayBe
<1>9. CASE e.kind = "name" /\ depth > 0
  <2>1. m = VariableText(e.name, rc, limit)
    BY ONLY <1>0, <1>9, Zenon DEF RenderedBy
  <2>2. Reads[e] = {e.name}
    BY <1>9, ReadsIs
  <2>3. m \in Value => \E env \in E : env[e.name] = m
    BY <2>1, <2>2 DEF Shown
  <2>4. \A env \in E : Outcomes(program, env)[e] = {env[e.name]}
    BY <1>1, <1>9 DEF MeansBy
  <2> QED BY <2>3, <2>4 DEF MayBe
<1>10. CASE e.kind = "call" /\ depth > 0 /\ ~(depth > 1 /\ e.callee \in Function)
  <2>1. m = Rendered
    BY ONLY <1>0, <1>10, Zenon DEF RenderedBy
  <2> QED BY <1>3, <2>1 DEF MayBe
<1>11. CASE e.kind = "call" /\ depth > 0 /\ depth > 1 /\ e.callee \in Function
  <2> DEFINE given == [i \in DOMAIN e.args |-> text[depth - 1][e.args[i]]]
             D == UNION {Passing(program, e, Outcomes(program, env)) : env \in E}
  <2>1. m = table[Summary(e.callee)][given][rc.active]
    BY ONLY <1>0, <1>11, Zenon DEF RenderedBy
  <2>2. e.args \in Seq(Expr) /\ \A i \in DOMAIN e.args : e.args[i] \in Expr /\ e.args[i] \in Parts(e)
    BY ONLY <1>0, <1>11, Zenon DEF RenderedBy
  <2>3. given \in Seq(Text) /\ DOMAIN given = DOMAIN e.args
    <3>1. text \in [Nat -> [Expr -> Text]] /\ depth - 1 \in Nat
      BY <1>11 DEF ResolvedBy
    <3>2. \A i \in DOMAIN e.args : text[depth - 1][e.args[i]] \in Text
      BY <2>2, <3>1
    <3>3. given \in [DOMAIN e.args -> Text]
      BY <3>2
    <3> HIDE DEF given
    <3> QED BY <2>2, <3>3, AsLong
  <2>4. \A i \in DOMAIN e.args : given[i] = text[depth - 1][e.args[i]]
    OBVIOUS
  <2> HIDE DEF given
  <2>5. \A i \in DOMAIN e.args : MayBe(E, e.args[i], given[i])
    BY <1>5, <1>11, <2>2, <2>4
  <2>6. program \in Programs /\ CallsReturn(program)
    BY TraceableIs DEF ValuesTypes
  <2>7. Covers(D, e.callee, given)
    BY <1>11, <2>2, <2>3, <2>5, <2>6, ArgumentsAreCovered
  <2>8. D \subseteq Given(program, e.callee)
    BY DEF Passing
  <2>9. D # {}
    <3>1. some \in Env
      BY <1>2
    <3>2. Passing(program, e, Outcomes(program, some)) # {}
      BY <1>11, <2>2, <2>6, <3>1, CallsAreMade
    <3> QED BY <1>2, <3>2
  <2>10. ASSUME NEW s \in D, m \in program.calls[e.callee][s] PROVE \E env \in E : m \in Outcomes(program, env)[e]
    <3>1. PICK env \in E : s \in Passing(program, e, Outcomes(program, env))
      OBVIOUS
    <3>2. Outcomes(program, env)[e] =
            UNION {program.calls[e.callee][g] : g \in Passing(program, e, Outcomes(program, env))}
      BY <1>1, <1>11 DEF MeansBy
    <3> QED BY <2>10, <3>1, <3>2
  <2> HIDE DEF D
  <2>11. Summary(e.callee) = e.callee
    BY <1>11, <2>6, TraceableIs DEF TracesIn
  <2>12. rc.active \in SUBSET Function
    BY DEF IsContext
  <2>13. m \in Value => \E s \in D : m \in program.calls[e.callee][s]
    BY <1>11, <2>1, <2>3, <2>7, <2>8, <2>9, <2>11, <2>12 DEF Faithful
  <2> QED BY <2>10, <2>13 DEF MayBe
<1>12. e.kind \in {"literal", "name", "operator", "paren", "call"}
  BY ONLY <1>0, Zenon DEF RenderedBy
<1>13. depth = 0 \/ depth > 0
  OBVIOUS
<1> QED BY <1>6, <1>7, <1>8, <1>9, <1>10, <1>11, <1>12, <1>13

\* Whatever the depth.
LEMMA ExprIsReal ==
  ASSUME ValuesTypes, Traceable, NEW rc, IsContext(rc), NEW limit, NEW table \in Table, Faithful(table),
         NEW E \in SUBSET Env, E # {}, NEW depth \in Nat, NEW e \in Expr, Shown(E, e, rc, limit)
  PROVE  MayBe(E, e, Resolved(rc, limit, table)[depth][e])
<1> DEFINE text == Resolved(rc, limit, table)
           T == {n \in Nat : \A c \in Expr : Shown(E, c, rc, limit) => MayBe(E, c, text[n][c])}
<1>1. ResolvedBy(text, rc, limit, table)
  BY ResolvedAre DEF ValuesTypes
<1> HIDE DEF text
<1>2. 0 \in T
  <2>1. 0 \in Nat /\ ~(0 > 0)
    OBVIOUS
  <2> QED BY <1>1, <2>1, ExprStep
<1>3. ASSUME NEW n \in Nat, n \in T PROVE n + 1 \in T
  <2>1. n + 1 \in Nat /\ (n + 1) - 1 = n
    OBVIOUS
  <2>2. \A part \in Expr : Shown(E, part, rc, limit) => MayBe(E, part, text[(n + 1) - 1][part])
    BY <1>3, <2>1
  <2>3. ASSUME NEW c \in Expr, Shown(E, c, rc, limit) PROVE MayBe(E, c, text[n + 1][c])
    BY ONLY <1>1, <2>1, <2>2, <2>3, ExprStep, ValuesTypes, Traceable, IsContext(rc), table \in Table, Faithful(table),
            E \in SUBSET Env, E # {}, c \in Expr
  <2> QED BY <2>1, <2>3
<1> HIDE DEF T
<1>4. Nat \subseteq T
  BY <1>2, <1>3, Induction
<1> QED BY <1>4 DEF T, text
-----------------------------------------------------------------------------
(***************************************************************************)
(* Calls that are inlined.                                                 *)
(***************************************************************************)
\* What has been collected so far.
Populated ==
  /\ \A f \in waiting : returned[f] = NoEntry /\ locals[f] = NoFrame
  /\ \A f \in Function \ waiting :
       returned[f] = ReturnCursor(f) /\ Histories(f, Len(Body(f)), locals[f])

\* A function returns the expression of its last return.
LEMMA LastReturn ==
  ASSUME program \in Programs, NEW f \in Function, ReturnCursor(f) # NoEntry
  PROVE  \E p \in DOMAIN Body(f) : Body(f)[p].kind = "return" /\ ReturnCursor(f) = Body(f)[p].expr
<1>1. ReturnsOf(f) # {}
  BY DEF ReturnCursor
<1>2. DOMAIN Body(f) = 1 .. Len(Body(f)) /\ Len(Body(f)) \in Nat
  BY ProgramTypes DEF Body
<1>3. ReturnsOf(f) \subseteq 0 .. Len(Body(f))
  BY <1>2 DEF ReturnsOf
<1>4. \E p \in ReturnsOf(f) : \A q \in ReturnsOf(f) : q <= p
  BY <1>1, <1>2, <1>3, GreatestNat
<1> DEFINE p == CHOOSE c \in ReturnsOf(f) : \A q \in ReturnsOf(f) : q <= c
<1>5. p \in ReturnsOf(f)
  BY <1>4
<1>6. ReturnCursor(f) = Body(f)[p].expr
  BY <1>1 DEF ReturnCursor
<1> HIDE DEF p
<1> QED BY <1>5, <1>6 DEF ReturnsOf

\* A known value bound to a parameter is what some call in D starts with.
LEMMA BoundIsStart ==
  ASSUME program \in Programs, NEW f \in Function, NEW D \in SUBSET Given(program, f), NEW given, Covers(D, f, given),
         NEW y \in Variable, Bound(f, given)[y] \in Value
  PROVE  y \in ParamNames(program, f) /\ \E s \in D : Start(program, f, s)[y] = Bound(f, given)[y]
<1> DEFINE i == CHOOSE j \in DOMAIN program.params[f] : program.params[f][j] = y
           v == Bound(f, given)[y]
<1>1. NoEntry \notin Value /\ Placeholder \notin Value
  BY TextsDiffer
<1>2. Bound(f, given)[y] = IF y \notin ParamNames(program, f) THEN NoEntry
                           ELSE IF i \in DOMAIN given THEN given[i] ELSE Placeholder
  BY DEF Bound, Params
<1>3. y \in ParamNames(program, f) /\ i \in DOMAIN given /\ v = given[i]
  BY <1>1, <1>2
<1>4. \E j \in DOMAIN program.params[f] : program.params[f][j] = y
  BY <1>3 DEF ParamNames
<1>5. i \in DOMAIN program.params[f]
  BY <1>4
<1>6. \A s : Start(program, f, s)[y] = s[i]
  BY <1>3 DEF Start
<1> HIDE DEF i, v
<1>7. v \in Value
  BY DEF v
<1>8. PICK s \in D : s[i] = given[i]
  BY <1>3, <1>5, <1>7 DEF Covers, Params
<1>9. Start(program, f, s)[y] = v
  BY <1>3, <1>6, <1>8
<1> QED BY <1>3, <1>8, <1>9 DEF v

\* The runs that come to an item when f is called as in D.
Arriving(f, p, D) ==
  UNION {UNION {Runs(program, f, s, branch)[p - 1] : branch \in {b \in Branch : Reached(f, p, b)}} : s \in D}

\* They leave the variables with results.
LEMMA ArrivingTyped ==
  ASSUME program \in Programs, NEW f \in Function, NEW p \in DOMAIN Body(f), NEW D \in SUBSET Given(program, f)
  PROVE  Arriving(f, p, D) \in SUBSET Env
<1>1. p - 1 \in 0 .. Len(program.body[f])
  BY ProgramTypes DEF Body
<1>2. ASSUME NEW s \in D, NEW branch PROVE Runs(program, f, s, branch)[p - 1] \in SUBSET Env
  BY <1>1, RunsAre DEF RunsBy
<1> QED BY <1>2 DEF Arriving

\* Every run of a call in D that reaches the item arrives.
LEMMA ArrivingIs ==
  ASSUME NEW f, NEW p, NEW D, NEW s \in D, NEW branch \in Branch, Reached(f, p, branch),
         NEW env \in Runs(program, f, s, branch)[p - 1]
  PROVE  env \in Arriving(f, p, D)
BY DEF Arriving

\* Where an item may be reached, some run arrives.
LEMMA SomeArrive ==
  ASSUME program \in Programs, Traceable, NEW f \in Function, NEW p \in DOMAIN Body(f), NEW D \in SUBSET Given(program, f),
         D # {}, NEW branch \in Branch, Reached(f, p, branch)
  PROVE  Arriving(f, p, D) # {}
<1>1. PICK s \in D : TRUE
  OBVIOUS
<1>2. PICK env \in Runs(program, f, s, branch)[p - 1] :
        \A x \in Variable : (\A q \in 1 .. p - 1 : ~Noticed(f, q, x)) => env[x] = Start(program, f, s)[x]
  BY StartHeld
<1> QED BY <1>2, ArrivingIs

\* What a global is initialised with is held by a run that arrives.
LEMMA GlobalArrives ==
  ASSUME program \in Programs, Traceable, NEW f \in Function, NEW p \in DOMAIN Body(f), NEW D \in SUBSET Given(program, f),
         D # {}, NEW branch \in Branch, Reached(f, p, branch), NEW y \in DOMAIN program.global
  PROVE  \E env \in Arriving(f, p, D) : env[y] = program.global[y]
<1>1. PICK s \in D : TRUE
  OBVIOUS
<1>2. PICK env \in Runs(program, f, s, branch)[p - 1] : env[y] = program.global[y]
  BY GlobalHeld
<1> QED BY <1>2, ArrivingIs

\* So is what the call binds to a parameter nothing above writes.
LEMMA BoundArrives ==
  ASSUME program \in Programs, Traceable, NEW f \in Function, NEW p \in DOMAIN Body(f), NEW D \in SUBSET Given(program, f),
         NEW given, Covers(D, f, given), NEW branch \in Branch, Reached(f, p, branch),
         NEW y \in Variable, Bound(f, given)[y] \in Value, \A q \in 1 .. p - 1 : ~Noticed(f, q, y)
  PROVE  \E env \in Arriving(f, p, D) : env[y] = Bound(f, given)[y]
<1>1. PICK s \in D : Start(program, f, s)[y] = Bound(f, given)[y]
  BY BoundIsStart
<1>2. PICK env \in Runs(program, f, s, branch)[p - 1] :
        \A x \in Variable : (\A q \in 1 .. p - 1 : ~Noticed(f, q, x)) => env[x] = Start(program, f, s)[x]
  BY StartHeld
<1> QED BY <1>1, <1>2, ArrivingIs

\* So is the value of the last entry above.
LEMMA EntryArrives ==
  ASSUME program \in Programs, Traceable, NEW f \in Function, NEW p \in DOMAIN Body(f), NEW D \in SUBSET Given(program, f),
         D # {}, Body(f)[p].kind \in {"return", "use"}, NEW y \in Reads[Body(f)[p].expr], y \in Variable,
         NEW w \in 1 .. p - 1, Noticed(f, w, y), \A q \in w + 1 .. p - 1 : ~Noticed(f, q, y),
         NEW v \in Value, IsReal(f, w, v)
  PROVE  \E env \in Arriving(f, p, D) : env[y] = v
<1>1. DOMAIN Body(f) = 1 .. Len(Body(f)) /\ Len(Body(f)) \in Nat
  BY ProgramTypes DEF Body
<1>2. w \in DOMAIN Body(f) /\ w < p
  BY <1>1
<1>3. PICK branch \in Branch : Reached(f, p, branch) /\ Reached(f, w, branch)
  BY <1>2, TraceableIs DEF TracesAt
<1>4. PICK s \in D : TRUE
  OBVIOUS
<1>5. PICK env \in Runs(program, f, s, branch)[p - 1] : env[y] = v
  BY <1>3, EntryHeld
<1> QED BY <1>3, <1>5, ArrivingIs

\* What is written nowhere below a return was written above it.
LEMMA WrittenAbove ==
  ASSUME program \in Programs, Traceable, NEW f \in Function, NEW p \in DOMAIN Body(f), Body(f)[p].kind = "return",
         NEW y \in Reads[Body(f)[p].expr], NEW w \in DOMAIN Body(f), Noticed(f, w, y)
  PROVE  w \in 1 .. p - 1
<1>1. DOMAIN Body(f) = 1 .. Len(Body(f)) /\ Len(Body(f)) \in Nat
  BY ProgramTypes DEF Body
<1>2. p # w
  BY DEF Noticed, Recorded
<1>3. ~(p < w)
  BY TraceableIs DEF TracesAt
<1> QED BY <1>1, <1>2, <1>3

\* What a returned expression reads of a known value is held by a run that
\* arrives at the return.
LEMMA ReturnShows ==
  ASSUME ValuesTypes, Populated, Traceable, NEW g \in Function \ waiting,
         NEW p \in DOMAIN Body(g), Body(g)[p].kind = "return",
         NEW given \in Seq(Text), NEW active \in SUBSET Function,
         NEW D \in SUBSET Given(program, g), D # {}, Covers(D, g, given)
  PROVE  Shown(Arriving(g, p, D), Body(g)[p].expr, Nested(g, given, active), 0)
<1> DEFINE rc == Nested(g, given, active)
<1> SUFFICES ASSUME NEW y \in Reads[Body(g)[p].expr], VariableText(y, rc, 0) \in Value
             PROVE  \E env \in Arriving(g, p, D) : env[y] = VariableText(y, rc, 0)
  BY DEF Shown
<1>0. program \in Programs
  BY DEF ValuesTypes
<1>1. DOMAIN Body(g) = 1 .. Len(Body(g)) /\ Len(Body(g)) \in Nat
  BY <1>0, ProgramTypes DEF Body
<1>2. y \in Variable
  <2>1. Body(g)[p].expr \in Expr
    BY <1>0, ItemTypes DEF Body
  <2> QED BY <2>1, ReadsIs
<1>3. PICK branch \in Branch : Reached(g, p, branch)
  BY <1>0, TraceableIs DEF TracesAt
<1>4. p \in ReturnsOf(g)
  BY DEF ReturnsOf
<1>5. NoEntry \notin Value /\ Placeholder \notin Value
  BY TextsDiffer
<1>6. LookUp(rc, y, 0) = Inside(g, given)[y]
  <2>1. rc.frame[y] = <<>> /\ rc.bound = Inside(g, given)
    BY <1>2 DEF Nested, NoFrame
  <2>2. UpTo(rc.frame[y], 0) = {}
    BY <2>1 DEF UpTo
  <2> QED BY <2>1, <2>2 DEF LookUp
<1> DEFINE seen == Inside(g, given)[y]
           v == VariableText(y, rc, 0)
<1>7. v = IF seen # NoEntry THEN seen ELSE IF y \in DOMAIN program.global THEN program.global[y] ELSE Placeholder
  BY <1>6 DEF VariableText
<1>8. seen = IF y \in ParamNames(program, g) THEN Bound(g, given)[y]
             ELSE IF locals[g][y] # <<>> THEN Latest(locals[g][y], DOMAIN locals[g][y]) ELSE NoEntry
  BY <1>2 DEF Inside
<1>9. v \in Value
  OBVIOUS
<1> HIDE DEF seen, v, rc
<1>10. CASE seen = NoEntry
  <2>1. y \in DOMAIN program.global /\ v = program.global[y]
    BY <1>5, <1>7, <1>9, <1>10
  <2>2. \E env \in Arriving(g, p, D) : env[y] = program.global[y]
    BY <1>0, <1>3, <2>1, GlobalArrives
  <2> QED BY <2>1, <2>2 DEF v
<1>11. CASE seen # NoEntry /\ y \in ParamNames(program, g)
  <2>1. v = Bound(g, given)[y]
    BY <1>7, <1>8, <1>11
  <2>2. \A q \in 1 .. p - 1 : q \in DOMAIN Body(g)
    BY <1>1
  <2>3. \A q \in 1 .. p - 1 : ~Noticed(g, q, y)
    BY <1>0, <1>4, <1>11, <2>2, TraceableIs DEF TracesIn
  <2>4. \E env \in Arriving(g, p, D) : env[y] = Bound(g, given)[y]
    BY <1>0, <1>2, <1>3, <1>9, <2>1, <2>3, BoundArrives
  <2> QED BY <2>1, <2>4 DEF v
<1>12. CASE seen # NoEntry /\ y \notin ParamNames(program, g)
  <2> DEFINE history == locals[g][y]
  <2>1. history # <<>> /\ v = Latest(history, DOMAIN history)
    BY <1>7, <1>8, <1>12
  <2>2. history \in Seq(Entries) /\ Ascending(history)
    BY <1>2 DEF ValuesTypes, Frame
  <2>3. PICK pos : IsHistory(g, Len(Body(g)), history, y, pos)
    BY <1>2 DEF Populated, Histories
  <2>4. \A j \in DOMAIN history : j \in DOMAIN history <=> pos[j] <= Len(Body(g))
    BY <1>1, <2>3 DEF IsHistory
  <2> HIDE DEF history
  <2>5. DOMAIN history # {}
    BY <2>1, <2>2, NotEmpty
  <2>6. LastEntry(g, Len(Body(g)), y, history, DOMAIN history)
    <3>1. Len(Body(g)) \in 0 .. Len(Body(g)) /\ DOMAIN history \in SUBSET DOMAIN history
      BY <1>1
    <3> QED BY <1>1, <2>2, <2>3, <2>4, <3>1, LastIs
  <2>7. PICK w \in 1 .. Len(Body(g)) :
          /\ Noticed(g, w, y)
          /\ \A q \in w + 1 .. Len(Body(g)) : ~Noticed(g, q, y)
          /\ IsEntry(g, w, v)
    BY <2>1, <2>5, <2>6 DEF LastEntry
  <2>8. w \in 1 .. p - 1
    BY <1>0, <1>1, <2>7, WrittenAbove
  <2>9. \A q \in w + 1 .. p - 1 : ~Noticed(g, q, y)
    BY <1>1, <2>7
  <2>10. IsReal(g, w, v)
    BY <2>7 DEF IsEntry
  <2>11. \E env \in Arriving(g, p, D) : env[y] = v
    <3>1. Body(g)[p].kind \in {"return", "use"} /\ Noticed(g, w, y) /\ g \in Function
      BY <2>7
    <3>2. PICK value \in Value : value = v
      BY <1>9
    <3>3. IsReal(g, w, value)
      BY <2>10, <3>2
    <3>4. \E env \in Arriving(g, p, D) : env[y] = value
      BY ONLY <1>0, <1>2, <2>8, <2>9, <3>1, <3>3, EntryArrives, Traceable, p \in DOMAIN Body(g),
              D \in SUBSET Given(program, g), D # {}, y \in Reads[Body(g)[p].expr], value \in Value
    <3> QED BY <3>2, <3>4
  <2> QED BY <2>11 DEF v
<1> QED BY <1>10, <1>11, <1>12 DEF v

\* What one more level of inlining makes of calls they may return
\* (resolve_call_expr).
LEMMA InliningIsFaithful ==
  ASSUME ValuesTypes, Populated, Traceable, NEW table \in Table, Faithful(table)
  PROVE  Faithful(Inlining(table))
<1> SUFFICES ASSUME NEW g \in Function, NEW given \in Seq(Text), NEW active \in SUBSET Function,
                    NEW D \in SUBSET Given(program, g), D # {}, Covers(D, g, given),
                    Inlining(table)[g][given][active] \in Value
             PROVE  \E s \in D : Inlining(table)[g][given][active] \in program.calls[g][s]
  BY DEF Faithful
<1> DEFINE m == Inlining(table)[g][given][active]
           rc == Nested(g, given, active)
<1>0. program \in Programs
  BY DEF ValuesTypes
<1>1. Rendered \notin Value
  BY TextsDiffer
<1>2. m = IF CanInline(g, active) THEN Resolved(rc, 0, table)[MaxInline][returned[g]] ELSE Rendered
  BY InliningTyped
<1>3. CanInline(g, active) /\ m = Resolved(rc, 0, table)[MaxInline][returned[g]] /\ m \in Value
  BY <1>1, <1>2
<1>4. g \in Function \ waiting /\ returned[g] = ReturnCursor(g) /\ ReturnCursor(g) # NoEntry
  BY <1>3 DEF CanInline, Populated
<1>5. PICK p \in DOMAIN Body(g) : Body(g)[p].kind = "return" /\ ReturnCursor(g) = Body(g)[p].expr
  BY <1>0, <1>4, LastReturn
<1> DEFINE E == Arriving(g, p, D)
           e == Body(g)[p].expr
<1>6. E \in SUBSET Env
  BY <1>0, ArrivingTyped
<1>7. E # {}
  <2>1. PICK branch \in Branch : Reached(g, p, branch)
    BY <1>0, <1>5, TraceableIs DEF TracesAt
  <2> QED BY <1>0, <2>1, SomeArrive
<1>8. Shown(E, e, rc, 0)
  BY <1>4, <1>5, ReturnShows
<1>9. IsContext(rc)
  BY NestedTyped
<1>10. e \in Expr
  BY <1>0, ItemTypes DEF Body
<1>11. m = Resolved(rc, 0, table)[MaxInline][e]
  BY <1>3, <1>4, <1>5
<1> HIDE DEF E, e, m, rc
<1>12. MayBe(E, e, Resolved(rc, 0, table)[MaxInline][e])
  BY <1>6, <1>7, <1>8, <1>9, <1>10, ExprIsReal, TextsDiffer
<1>13. PICK env \in E : m \in Outcomes(program, env)[e]
  BY <1>3, <1>11, <1>12 DEF MayBe
<1>14. PICK s \in D : \E branch \in Branch : Reached(g, p, branch) /\ env \in Runs(program, g, s, branch)[p - 1]
  BY <1>13 DEF E, Arriving
<1>15. PICK branch \in Branch : Reached(g, p, branch) /\ env \in Runs(program, g, s, branch)[p - 1]
  BY <1>14
<1>16. Executed(Body(g)[p], branch)
  BY <1>15 DEF Reached
<1>17. CallsFollowBodies(program)
  BY <1>0, ProgramsAreWhole DEF IsProgram
<1>18. Outcomes(program, env)[program.body[g][p].expr] \subseteq program.calls[g][s]
  BY <1>5, <1>15, <1>16, <1>17 DEF CallsFollowBodies, Body
<1>19. m \in program.calls[g][s]
  BY <1>13, <1>18 DEF e, Body
<1> QED BY <1>19 DEF m

\* However many functions may become active.
LEMMA InlinedIsFaithful ==
  ASSUME ValuesTypes, Populated, Traceable, NEW left \in Nat
  PROVE  Inlined[left] \in Table /\ Faithful(Inlined[left])
<1> DEFINE T == {n \in Nat : Faithful(Inlined[n])}
<1>1. InlinedBy(Inlined)
  BY InlinedAre
<1>2. \A n \in Nat : Inlined[n] \in Table
  BY <1>1 DEF InlinedBy
<1>3. 0 \in T
  <2>1. Inlined[0] = NoInlining
    BY <1>1 DEF InlinedBy
  <2>2. \A g \in Function : \A given \in Seq(Text) : \A active \in SUBSET Function :
          NoInlining[g][given][active] = Rendered
    BY DEF NoInlining
  <2>3. Faithful(NoInlining)
    BY <2>2, TextsDiffer DEF Faithful
  <2> QED BY <2>1, <2>3
<1>4. ASSUME NEW n \in Nat, n \in T PROVE n + 1 \in T
  <2>1. n + 1 \in Nat /\ n + 1 > 0 /\ (n + 1) - 1 = n
    OBVIOUS
  <2>2. Inlined[n + 1] = Inlining(Inlined[n])
    BY <1>1, <2>1 DEF InlinedBy
  <2>3. Faithful(Inlined[n + 1])
    BY <1>2, <1>4, <2>2, InliningIsFaithful
  <2> QED BY <2>1, <2>3
<1> HIDE DEF T
<1>5. Nat \subseteq T
  BY <1>3, <1>4, Induction
<1> QED BY <1>2, <1>5 DEF T
-----------------------------------------------------------------------------
(***************************************************************************)
(* Entries.                                                                *)
(***************************************************************************)
\* An expression is direct at a depth when its kind is, or its part one below.
DirectBy(direct) ==
  \A depth \in Nat : \A e \in Expr : e \in direct[depth] <=>
    depth > 0 /\ (e.kind \in {"literal", "name"} \/ (e.kind = "paren" /\ e.of \in direct[depth - 1]))

\* Direct is what its definition says.
LEMMA DirectIs == DirectBy(Direct)
<1> DEFINE S == SUBSET Expr
           next(depth, s) == {e \in Expr : /\ depth > 0
                                           /\ \/ e.kind \in {"literal", "name"}
                                              \/ e.kind = "paren" /\ e.of \in s}
           step == [a \in Nat \X S |-> next(a[1], a[2])]
<1>1. \A n \in Nat : \A s \in S : step[n, s] = next(n, s)
  OBVIOUS
<1>2. step \in [Nat \X S -> S]
  OBVIOUS
<1>3. {} \in S
  OBVIOUS
<1> HIDE DEF step, next
<1>4. PICK t \in [Nat -> S] : Recurs(t, {}, step)
  <2> HIDE DEF S
  <2> QED BY <1>2, <1>3, NatRecursion
<1>5. ASSUME NEW depth \in Nat PROVE t[depth] = next(depth, t[depth - 1])
  <2>1. CASE depth = 0
    <3>1. next(0, t[0 - 1]) = {}
      BY DEF next
    <3>2. t[0] = {}
      BY <1>4 DEF Recurs
    <3> QED BY <2>1, <3>1, <3>2
  <2>2. CASE depth # 0
    <3>1. depth > 0 /\ depth - 1 \in Nat
      BY <2>2
    <3>2. t[depth] = step[depth, t[depth - 1]] /\ t[depth - 1] \in S
      BY <1>4, <3>1 DEF Recurs
    <3> QED BY <1>1, <3>2
  <2> QED BY <2>1, <2>2
<1>6. t = [depth \in Nat |-> next(depth, t[depth - 1])]
  <2> HIDE DEF S
  <2> QED BY <1>5
<1>7. Direct = [depth \in Nat |-> next(depth, Direct[depth - 1])]
  BY <1>6, Zenon DEF Direct, next
<1>8. \A depth \in Nat : Direct[depth] = next(depth, Direct[depth - 1])
  BY <1>7, Zenon
<1> QED BY <1>8 DEF DirectBy, next

\* An expression without calls and operators is rendered as a value if the
\* variables in it are.
LEMMA DirectText ==
  ASSUME NEW rc, NEW limit, NEW table, NEW text, ResolvedBy(text, rc, limit, table),
         NEW depth \in Nat, NEW e \in Expr, e \in Direct[depth],
         \A y \in Reads[e] : VariableText(y, rc, limit) \in Value
  PROVE  text[depth][e] \in Value
<1> DEFINE Good(c) == \A y \in Reads[c] : VariableText(y, rc, limit) \in Value
           T == {n \in Nat : \A c \in Expr : c \in Direct[n] /\ Good(c) => text[n][c] \in Value}
<1>1. \A n \in Nat : \A c \in Expr : RenderedBy(text[n][c], c, n, rc, limit, table, text)
  BY DEF ResolvedBy
<1>2. 0 \in T
  BY DirectIs DEF DirectBy
<1>3. ASSUME NEW n \in Nat, n \in T PROVE n + 1 \in T
  <2> SUFFICES ASSUME NEW c \in Expr, c \in Direct[n + 1], Good(c) PROVE text[n + 1][c] \in Value
    OBVIOUS
  <2>1. n + 1 \in Nat /\ n + 1 > 0 /\ (n + 1) - 1 = n
    OBVIOUS
  <2>2. c.kind \in {"literal", "name"} \/ (c.kind = "paren" /\ c.of \in Direct[n])
    BY <2>1, DirectIs DEF DirectBy
  <2> DEFINE m == text[n + 1][c]
  <2>3. RenderedBy(m, c, n + 1, rc, limit, table, text)
    BY <1>1, <2>1
  <2> HIDE DEF m
  <2>4. CASE c.kind = "literal"
    <3>1. m \in Value
      BY ONLY <2>3, <2>4, Zenon DEF RenderedBy
    <3> QED BY <3>1 DEF m
  <2>5. CASE c.kind = "name"
    <3>1. m = VariableText(c.name, rc, limit)
      BY ONLY <2>1, <2>3, <2>5, Zenon DEF RenderedBy
    <3>2. c.name \in Reads[c]
      BY <2>5, ReadsIs
    <3> QED BY <3>1, <3>2 DEF m
  <2>6. CASE c.kind = "paren" /\ c.of \in Direct[n]
    <3>1. c.of \in Expr /\ c.of \in Parts(c) /\ m = text[(n + 1) - 1][c.of]
      BY ONLY <2>1, <2>3, <2>6, Zenon DEF RenderedBy
    <3>2. Reads[c.of] \subseteq Reads[c]
      BY <2>6, <3>1, ReadsOfParts
    <3>3. m = text[n][c.of]
      BY <2>1, <3>1
    <3>4. Good(c.of)
      BY <3>2
    <3> QED BY <1>3, <2>6, <3>1, <3>3, <3>4 DEF m
  <2> QED BY <2>2, <2>4, <2>5, <2>6
<1> HIDE DEF T
<1>4. Nat \subseteq T
  BY <1>2, <1>3, Induction
<1> QED BY <1>4 DEF T

\* The context items are collected in.
Collecting(frame) == [frame |-> frame, bound |-> NoBinding, active |-> {}]

\* All entries met are at or above the line of the item that is collected.
LEMMA AllAreUpTo ==
  ASSUME program \in Programs, NEW f \in Function, NEW n \in DOMAIN Body(f), NEW frame \in Frame,
         Histories(f, n - 1, frame), NEW y \in Variable
  PROVE  LastEntry(f, n - 1, y, frame[y], UpTo(frame[y], Body(f)[n].line))
<1> DEFINE history == frame[y]
           known == UpTo(history, Body(f)[n].line)
<1>1. DOMAIN Body(f) = 1 .. Len(Body(f)) /\ Len(Body(f)) \in Nat
  BY ProgramTypes DEF Body
<1>2. n - 1 \in Nat /\ n - 1 \in 0 .. n - 1
  BY <1>1
<1>3. history \in Seq(Entries) /\ Ascending(history)
  BY DEF Frame
<1>4. PICK pos : IsHistory(f, n - 1, history, y, pos)
  BY DEF Histories
<1>5. known \in SUBSET DOMAIN history
  BY DEF UpTo
<1>6. ASSUME NEW j \in DOMAIN history PROVE j \in known /\ pos[j] <= n - 1
  <2>1. pos[j] \in 1 .. n - 1 /\ history[j].line = Body(f)[pos[j]].line
    BY <1>4 DEF IsHistory
  <2>2. pos[j] \in DOMAIN Body(f) /\ pos[j] <= n
    BY <1>1, <2>1
  <2>3. Body(f)[pos[j]].line <= Body(f)[n].line
    BY <2>2, LinesAscend
  <2> QED BY <2>1, <2>3 DEF UpTo
<1> HIDE DEF known, history
<1>7. LastEntry(f, n - 1, y, history, known)
  BY <1>2, <1>3, <1>4, <1>5, <1>6, LastIs
<1> QED BY <1>7 DEF history, known

\* The value of a variable comes from its last entry, or it is a global's.
LEMMA CollectedText ==
  ASSUME program \in Programs, NEW f \in Function, NEW n \in DOMAIN Body(f), NEW frame \in Frame,
         Histories(f, n - 1, frame), NEW y \in Variable,
         NEW v, v = VariableText(y, Collecting(frame), Body(f)[n].line)
  PROVE  \/ \E w \in 1 .. n - 1 : /\ Noticed(f, w, y)
                                  /\ \A q \in w + 1 .. n - 1 : ~Noticed(f, q, y)
                                  /\ \E seen : IsEntry(f, w, seen) /\ (seen # NoEntry => v = seen)
                                               /\ (seen = NoEntry /\ v \in Value =>
                                                     y \in DOMAIN program.global /\ v = program.global[y])
         \/ /\ \A q \in 1 .. n - 1 : ~Noticed(f, q, y)
            /\ IF y \in DOMAIN program.global THEN v = program.global[y] ELSE v \notin Value
<1> DEFINE rc == Collecting(frame)
           limit == Body(f)[n].line
           known == UpTo(frame[y], limit)
           last == Latest(frame[y], known)
<1>1. LastEntry(f, n - 1, y, frame[y], known)
  BY AllAreUpTo
<1>2. LookUp(rc, y, limit) = IF known # {} THEN last ELSE NoEntry
  BY DEF LookUp, Collecting, NoBinding
<1>3. v = IF LookUp(rc, y, limit) # NoEntry THEN LookUp(rc, y, limit)
          ELSE IF y \in DOMAIN program.global THEN program.global[y] ELSE Placeholder
  BY DEF VariableText
<1>4. Placeholder \notin Value
  BY TextsDiffer
<1> HIDE DEF rc, limit
<1>5. CASE known = {}
  <2>1. \A q \in 1 .. n - 1 : ~Noticed(f, q, y)
    BY <1>1, <1>5 DEF LastEntry
  <2>2. v = IF y \in DOMAIN program.global THEN program.global[y] ELSE Placeholder
    BY <1>2, <1>3, <1>5
  <2> QED BY <1>4, <2>1, <2>2
<1>6. CASE known # {}
  <2>1. PICK w \in 1 .. n - 1 : /\ Noticed(f, w, y)
                                /\ \A q \in w + 1 .. n - 1 : ~Noticed(f, q, y)
                                /\ IsEntry(f, w, last)
    BY <1>1, <1>6 DEF LastEntry
  <2> HIDE DEF last, known
  <2>2. v = IF last # NoEntry THEN last ELSE IF y \in DOMAIN program.global THEN program.global[y] ELSE Placeholder
    BY <1>2, <1>3, <1>6
  <2>3. last # NoEntry => v = last
    BY <2>2
  <2>4. last = NoEntry /\ v \in Value => y \in DOMAIN program.global /\ v = program.global[y]
    BY <1>4, <2>2
  <2> QED BY <2>1, <2>3, <2>4
<1> QED BY <1>5, <1>6

\* It is a context.
LEMMA CollectingTyped == ASSUME NEW frame \in Frame PROVE IsContext(Collecting(frame))
BY NoFrameTyped DEF Collecting, IsContext

\* An item that is always executed is reached where a later one is.
LEMMA ReachedToo ==
  ASSUME program \in Programs, NEW f \in Function, NEW n \in DOMAIN Body(f), NEW w \in 1 .. n - 1,
         NEW branch, Reached(f, n, branch), Body(f)[w].when = "always"
  PROVE  Reached(f, w, branch)
<1>1. DOMAIN Body(f) = 1 .. Len(Body(f)) /\ Len(Body(f)) \in Nat
  BY ProgramTypes DEF Body
<1>2. \A r \in ReturnsOf(f) : r \in Nat /\ (r < w => r < n)
  BY <1>1 DEF ReturnsOf
<1> QED BY <1>2 DEF Reached, Executed

\* What the expression of an item reads of a known value is held by every run
\* that comes to the item.
LEMMA SetShows ==
  ASSUME program \in Programs, Traceable, NEW f \in Function, NEW n \in DOMAIN Body(f), Body(f)[n].kind = "set",
         NEW frame \in Frame, Histories(f, n - 1, frame),
         NEW given \in Given(program, f), NEW branch \in Branch, Reached(f, n, branch)
  PROVE  Shown(Runs(program, f, given, branch)[n - 1], Body(f)[n].expr, Collecting(frame), Body(f)[n].line)
<1> SUFFICES ASSUME NEW y \in Reads[Body(f)[n].expr],
                    VariableText(y, Collecting(frame), Body(f)[n].line) \in Value
             PROVE  \E env \in Runs(program, f, given, branch)[n - 1] :
                       env[y] = VariableText(y, Collecting(frame), Body(f)[n].line)
  BY DEF Shown
<1>1. DOMAIN Body(f) = 1 .. Len(Body(f)) /\ Len(Body(f)) \in Nat
  BY ProgramTypes DEF Body
<1>2. y \in Variable
  <2>1. Body(f)[n].expr \in Expr
    BY ItemTypes DEF Body
  <2> QED BY <2>1, ReadsIs
<1> DEFINE v == VariableText(y, Collecting(frame), Body(f)[n].line)
<1>3. \/ \E w \in 1 .. n - 1 : /\ Noticed(f, w, y)
                               /\ \A q \in w + 1 .. n - 1 : ~Noticed(f, q, y)
                               /\ \E seen : IsEntry(f, w, seen) /\ (seen # NoEntry => v = seen)
                                            /\ (seen = NoEntry /\ v \in Value =>
                                                  y \in DOMAIN program.global /\ v = program.global[y])
      \/ /\ \A q \in 1 .. n - 1 : ~Noticed(f, q, y)
         /\ IF y \in DOMAIN program.global THEN v = program.global[y] ELSE v \notin Value
  BY <1>2, CollectedText
<1>4. v \in Value
  OBVIOUS
<1> HIDE DEF v
<1>5. CASE y \in DOMAIN program.global /\ v = program.global[y]
  <2>1. \E env \in Runs(program, f, given, branch)[n - 1] : env[y] = program.global[y]
    BY <1>5, GlobalHeld
  <2> QED BY <1>5, <2>1 DEF v
<1>6. CASE ~(y \in DOMAIN program.global /\ v = program.global[y])
  <2>1. PICK w \in 1 .. n - 1 : /\ Noticed(f, w, y)
                                /\ \A q \in w + 1 .. n - 1 : ~Noticed(f, q, y)
                                /\ IsEntry(f, w, v)
    BY <1>3, <1>4, <1>6
  <2>2. w \in DOMAIN Body(f) /\ w < n
    BY <1>1
  <2>3. Body(f)[w].when = "always"
    <3>1. TracesAt(f, n)
      BY TraceableIs
    <3> QED BY <2>1, <2>2, <3>1 DEF TracesAt
  <2>4. Reached(f, w, branch)
    BY <2>3, ReachedToo
  <2>5. IsReal(f, w, v)
    BY <2>1 DEF IsEntry
  <2>6. \E env \in Runs(program, f, given, branch)[n - 1] : env[y] = v
    BY <1>2, <1>4, <2>1, <2>4, <2>5, EntryHeld
  <2> QED BY <2>6 DEF v
<1> QED BY <1>5, <1>6

\* The entry of an item is what the item gives the variable.
LEMMA SetIsReal ==
  ASSUME ValuesTypes, Populated, Traceable, NEW f \in Function, NEW n \in DOMAIN Body(f), Body(f)[n].kind = "set",
         NEW frame \in Frame, Histories(f, n - 1, frame)
  PROVE  IsReal(f, n, EntryOf(Body(f)[n], frame).text)
<1> DEFINE item == Body(f)[n]
           t == ResolveExpr(item.expr, Collecting(frame), item.line)
           table == Inlined[Cardinality(Function)]
<1>0. program \in Programs
  BY DEF ValuesTypes
<1>1. EntryOf(item, frame).text = t
  BY DEF EntryOf, Collecting
<1> SUFFICES ASSUME t \in Value, NEW given \in Given(program, f), NEW branch \in Branch, Reached(f, n, branch)
             PROVE  \E env \in Runs(program, f, given, branch)[n] : env[item.name] = t
  BY <1>1 DEF IsReal
<1> DEFINE E == Runs(program, f, given, branch)[n - 1]
<1>2. E \in SUBSET Env
  <2>1. n - 1 \in 0 .. Len(program.body[f])
    BY <1>0, ProgramTypes DEF Body
  <2> QED BY <1>0, <2>1, RunsAre DEF RunsBy
<1>3. E # {}
  BY <1>0, StartHeld
<1>4. Shown(E, item.expr, Collecting(frame), item.line)
  BY <1>0, SetShows
<1>5. item.expr \in Expr
  BY <1>0, ItemTypes DEF Body
<1>6. IsContext(Collecting(frame))
  BY CollectingTyped
<1>7. table \in Table /\ Faithful(table)
  <2>1. Cardinality(Function) \in Nat
    BY ProgramsAreWhole, FS_CardinalityType
  <2> QED BY <2>1, InlinedIsFaithful
<1>8. t = Resolved(Collecting(frame), item.line, table)[MaxResolve][item.expr]
  BY DEF ResolveExpr
<1>9. t \in Value /\ Executed(item, branch) /\ item.kind = "set"
  BY DEF Reached
<1> HIDE DEF item, t, table, E
<1>10. MayBe(E, item.expr, Resolved(Collecting(frame), item.line, table)[MaxResolve][item.expr])
  BY <1>2, <1>3, <1>4, <1>5, <1>6, <1>7, ExprIsReal, TextsDiffer
<1>11. PICK env \in E : t \in Outcomes(program, env)[item.expr]
  BY <1>8, <1>9, <1>10 DEF MayBe
<1>12. n \in DOMAIN program.body[f] /\ item = program.body[f][n]
  BY DEF item, Body
<1>13. \E env2 \in Runs(program, f, given, branch)[n] : env2[program.body[f][n].name] = t
  BY <1>0, <1>9, <1>11, <1>12, SetHolds DEF E
<1> QED BY <1>12, <1>13

\* What a body reads is a parameter, a global or above it.
LEMMA Declared ==
  ASSUME program \in Programs, NEW f \in Function, NEW p \in DOMAIN Body(f), NEW y \in Reads[Body(f)[p].expr]
  PROVE  \/ y \in ParamNames(program, f) \cup DOMAIN program.global
         \/ \E q \in 1 .. p - 1 : Noticed(f, q, y)
<1>1. NamesAreDeclared(program)
  BY ProgramsAreWhole DEF IsProgram
<1> QED BY <1>1 DEF NamesAreDeclared, Noticed, Recorded, Body

\* In a plain body each entry has a value.
LEMMA SetIsPlain ==
  ASSUME ValuesTypes, Plain, NEW n \in DOMAIN Body(walked), Body(walked)[n].kind = "set",
         NEW frame \in Frame, Histories(walked, n - 1, frame)
  PROVE  EntryOf(Body(walked)[n], frame).text \in Value
<1> DEFINE item == Body(walked)[n]
           t == ResolveExpr(item.expr, Collecting(frame), item.line)
           table == Inlined[Cardinality(Function)]
<1>0. program \in Programs /\ walked \in Function
  BY DEF ValuesTypes
<1>1. EntryOf(item, frame).text = t
  BY DEF EntryOf, Collecting
<1>2. item.expr \in Expr /\ item.expr \in Direct[MaxResolve]
  BY <1>0, ItemTypes DEF Body, Plain
<1>3. ASSUME NEW y \in Reads[item.expr] PROVE VariableText(y, Collecting(frame), item.line) \in Value
  <2>1. y \in Variable
    BY <1>2, ReadsIs
  <2>2. y \notin ParamNames(program, walked)
    BY DEF Plain
  <2>3. y \in DOMAIN program.global \/ \E q \in 1 .. n - 1 : Noticed(walked, q, y)
    BY <1>0, <2>2, Declared
  <2> DEFINE v == VariableText(y, Collecting(frame), item.line)
  <2>4. \/ \E w \in 1 .. n - 1 : /\ Noticed(walked, w, y)
                                 /\ \A q \in w + 1 .. n - 1 : ~Noticed(walked, q, y)
                                 /\ \E seen : IsEntry(walked, w, seen) /\ (seen # NoEntry => v = seen)
                                              /\ (seen = NoEntry /\ v \in Value =>
                                                    y \in DOMAIN program.global /\ v = program.global[y])
        \/ /\ \A q \in 1 .. n - 1 : ~Noticed(walked, q, y)
           /\ IF y \in DOMAIN program.global THEN v = program.global[y] ELSE v \notin Value
    BY <1>0, <2>1, CollectedText
  <2>5. y \in DOMAIN program.global => program.global[y] \in Value
    BY <1>0, ProgramTypes
  <2>6. \A w : \A seen : IsEntry(walked, w, seen) => seen \in Value
    BY DEF IsEntry
  <2>7. NoEntry \notin Value
    BY TextsDiffer
  <2> HIDE DEF v
  <2>8. v \in Value
    BY <2>3, <2>4, <2>5, <2>6, <2>7
  <2> QED BY <2>8 DEF v
<1>4. ResolvedBy(Resolved(Collecting(frame), item.line, table), Collecting(frame), item.line, table)
  BY <1>2, CollectingTyped, ResolveTyped
<1> HIDE DEF table, item
<1>5. Resolved(Collecting(frame), item.line, table)[MaxResolve][item.expr] \in Value
  BY <1>2, <1>3, <1>4, DirectText, TextsDiffer
<1> QED BY <1>1, <1>5 DEF ResolveExpr, table, item

\* What is recorded of an item is what an entry is to be (collect_definitions).
LEMMA EntryHolds ==
  ASSUME ValuesTypes, Populated, NEW f \in Function, NEW n \in DOMAIN Body(f), Recorded(Body(f)[n]),
         NEW frame \in Frame, Histories(f, n - 1, frame)
  PROVE  /\ EntryOf(Body(f)[n], frame) \in Entries
         /\ EntryOf(Body(f)[n], frame).line = Body(f)[n].line
         /\ IsEntry(f, n, EntryOf(Body(f)[n], frame).text)
<1> DEFINE item == Body(f)[n]
           t == EntryOf(item, frame).text
<1>0. program \in Programs
  BY DEF ValuesTypes
<1>1. item.line \in Nat /\ item.expr \in Expr
  BY <1>0, ItemTypes DEF Body
<1>2. EntryOf(item, frame) = [line |-> item.line, text |-> t] /\ EntryOf(item, frame).line = item.line
  BY DEF EntryOf
<1>3. Placeholder \in Text /\ Placeholder \notin Value
  BY TextsDiffer DEF Text
<1>4. CASE item.kind = "open"
  <2>1. t = Placeholder
    BY <1>4 DEF EntryOf
  <2>2. ~(Plain /\ f = walked)
    BY <1>4 DEF Plain
  <2>3. IsEntry(f, n, t)
    BY <1>3, <2>1, <2>2 DEF IsEntry, IsReal
  <2> HIDE DEF t
  <2> QED BY <1>1, <1>2, <1>3, <2>1, <2>3 DEF Entries, t
<1>5. CASE item.kind = "set"
  <2>1. t = ResolveExpr(item.expr, Collecting(frame), item.line)
    BY <1>5 DEF EntryOf, Collecting
  <2>2. t \in Text
    <3> HIDE DEF t
    <3> QED BY <1>1, <2>1, CollectingTyped, ResolveTyped
  <2>3. Traceable => IsReal(f, n, t)
    BY <1>5, SetIsReal
  <2>4. Plain /\ f = walked => t \in Value
    BY <1>5, SetIsPlain
  <2> HIDE DEF t
  <2>5. IsEntry(f, n, t)
    BY <2>2, <2>3, <2>4 DEF IsEntry
  <2> QED BY <1>1, <1>2, <2>2, <2>5 DEF Entries, t
<1> QED BY <1>4, <1>5 DEF Recorded

\* One more item.
LEMMA NotedHistories ==
  ASSUME ValuesTypes, Populated, NEW f \in Function, NEW n \in DOMAIN Body(f),
         NEW frame \in Frame, Histories(f, n - 1, frame)
  PROVE  Noted(Body(f)[n], frame) \in Frame /\ Histories(f, n, Noted(Body(f)[n], frame))
<1> DEFINE item == Body(f)[n]
           entry == EntryOf(item, frame)
           noted == Noted(item, frame)
<1>0. program \in Programs
  BY DEF ValuesTypes
<1>1. DOMAIN Body(f) = 1 .. Len(Body(f)) /\ Len(Body(f)) \in Nat /\ item.name \in Variable
  BY <1>0, ProgramTypes, ItemTypes DEF Body
<1>2. ASSUME NEW x \in Variable
      PROVE  frame[x] \in Seq(Entries) /\ Ascending(frame[x]) /\ \E pos : IsHistory(f, n - 1, frame[x], x, pos)
  BY DEF Frame, Histories
<1>3. ASSUME NEW x \in Variable, ~Noticed(f, n, x), NEW pos, IsHistory(f, n - 1, frame[x], x, pos)
      PROVE  IsHistory(f, n, frame[x], x, pos)
  <2>1. \A q \in 1 .. n : q = n \/ q \in 1 .. n - 1
    BY <1>1
  <2>2. \A j \in DOMAIN frame[x] : pos[j] \in 1 .. n
    BY <1>1, <1>3 DEF IsHistory
  <2>3. pos \in [DOMAIN frame[x] -> 1 .. n]
    BY <1>3, <2>2 DEF IsHistory
  <2> QED BY <1>3, <2>1, <2>3 DEF IsHistory
<1>4. CASE ~Recorded(item)
  <2>1. noted = frame
    BY <1>4 DEF Noted
  <2>2. \A x \in Variable : ~Noticed(f, n, x)
    BY <1>4 DEF Noticed
  <2>3. Histories(f, n, frame)
    BY <1>2, <1>3, <2>2 DEF Histories
  <2> QED BY <2>1, <2>3
<1>5. CASE Recorded(item)
  <2>1. entry \in Entries /\ entry.line = item.line /\ IsEntry(f, n, entry.text)
    BY <1>5, EntryHolds
  <2>2. noted = [frame EXCEPT ![item.name] = Append(@, entry)]
    BY <1>5 DEF Noted
  <2> HIDE DEF entry, noted
  <2>3. ASSUME NEW x \in Variable, x # item.name
        PROVE  noted[x] \in Seq(Entries) /\ Ascending(noted[x]) /\ \E pos : IsHistory(f, n, noted[x], x, pos)
    <3>1. noted[x] = frame[x]
      BY <2>2, <2>3 DEF Frame
    <3>2. ~Noticed(f, n, x)
      BY <2>3 DEF Noticed
    <3> QED BY <1>2, <1>3, <3>1, <3>2
  <2>4. ASSUME NEW x \in Variable, x = item.name
        PROVE  noted[x] \in Seq(Entries) /\ Ascending(noted[x]) /\ \E pos : IsHistory(f, n, noted[x], x, pos)
    <3> DEFINE old == frame[x]
               new == noted[x]
               len == Len(old)
    <3>1. new = Append(old, entry)
      BY <2>2, <2>4 DEF Frame
    <3>2. old \in Seq(Entries) /\ Ascending(old)
      BY <1>2
    <3>3. PICK pos : IsHistory(f, n - 1, old, x, pos)
      BY <1>2
    <3> HIDE DEF old, new
    <3>4. /\ len \in Nat /\ DOMAIN old = 1 .. len /\ DOMAIN new = 1 .. len + 1
          /\ new \in Seq(Entries) /\ new[len + 1] = entry
          /\ \A j \in DOMAIN old : new[j] = old[j]
      BY <2>1, <3>1, <3>2
    <3> DEFINE pos2 == [j \in 1 .. len + 1 |-> IF j <= len THEN pos[j] ELSE n]
    <3>5. ASSUME NEW j \in 1 .. len PROVE pos2[j] = pos[j] /\ pos[j] \in 1 .. n - 1 /\ j \in DOMAIN old /\ j \in DOMAIN new
      <4>1. j <= len /\ j \in 1 .. len + 1
        BY <3>4
      <4> QED BY <3>3, <3>4, <4>1 DEF IsHistory
    <3>6. pos2[len + 1] = n /\ len + 1 \in DOMAIN new /\ n \in Nat
      BY <1>1, <3>4
    <3>7. \A j \in DOMAIN new : j \in 1 .. len \/ j = len + 1
      BY <3>4
    <3>8. DOMAIN pos2 = 1 .. len + 1
      OBVIOUS
    <3> HIDE DEF pos2
    <3>9. ASSUME NEW j \in DOMAIN new
          PROVE  /\ pos2[j] \in 1 .. n
                 /\ Noticed(f, pos2[j], x)
                 /\ new[j].line = Body(f)[pos2[j]].line
                 /\ IsEntry(f, pos2[j], new[j].text)
      <4>1. CASE j \in 1 .. len
        BY <1>1, <3>3, <3>4, <3>5, <4>1 DEF IsHistory
      <4>2. CASE j = len + 1
        BY <1>1, <1>5, <2>1, <2>4, <3>4, <3>6, <4>2 DEF Noticed
      <4> QED BY <3>7, <4>1, <4>2
    <3>10. ASSUME NEW j \in DOMAIN new, NEW k \in DOMAIN new, j < k PROVE pos2[j] < pos2[k]
      <4>1. j \in 1 .. len
        BY <3>4, <3>10
      <4>2. CASE k \in 1 .. len
        BY <3>3, <3>5, <3>10, <4>1, <4>2 DEF IsHistory
      <4>3. CASE k = len + 1
        BY <3>5, <3>6, <4>1, <4>3
      <4> QED BY <3>7, <4>2, <4>3
    <3>11. ASSUME NEW q \in 1 .. n, Noticed(f, q, x) PROVE \E j \in DOMAIN new : pos2[j] = q
      <4>1. CASE q = n
        BY <3>6, <4>1
      <4>2. CASE q # n
        <5>1. q \in 1 .. n - 1
          BY <1>1, <4>2
        <5>2. PICK j \in DOMAIN old : pos[j] = q
          BY <3>3, <3>11, <5>1 DEF IsHistory
        <5>3. j \in 1 .. len
          BY <3>4
        <5> QED BY <3>5, <5>2, <5>3
      <4> QED BY <4>1, <4>2
    <3>12. pos2 \in [DOMAIN new -> 1 .. n]
      <4>1. pos2 = [j \in 1 .. len + 1 |-> pos2[j]]
        BY DEF pos2
      <4> QED BY <3>4, <3>9, <4>1
    <3>13. IsHistory(f, n, new, x, pos2)
      BY <3>9, <3>10, <3>11, <3>12 DEF IsHistory
    <3>14. Ascending(new)
      <4> SUFFICES ASSUME NEW j \in DOMAIN new, NEW k \in DOMAIN new, j <= k PROVE new[j].line <= new[k].line
        BY DEF Ascending
      <4>1. pos2[j] \in DOMAIN Body(f) /\ pos2[k] \in DOMAIN Body(f)
        BY <1>1, <3>9
      <4>2. pos2[j] <= pos2[k]
        <5>1. j = k \/ j < k
          BY <3>4
        <5> QED BY <1>1, <3>9, <3>10, <5>1
      <4>3. Body(f)[pos2[j]].line <= Body(f)[pos2[k]].line
        BY <1>0, <4>1, <4>2, LinesAscend
      <4> QED BY <3>9, <4>3
    <3> QED BY <3>4, <3>13, <3>14 DEF new
  <2>5. noted \in [Variable -> Seq(Entries)]
    <3>1. noted = [x \in Variable |-> noted[x]]
      BY <2>2 DEF Frame
    <3>2. \A x \in Variable : noted[x] \in Seq(Entries)
      BY <2>3, <2>4
    <3> QED BY <3>1, <3>2
  <2>6. noted \in Frame /\ Histories(f, n, noted)
    BY <2>3, <2>4, <2>5 DEF Frame, Histories
  <2> QED BY <2>6 DEF noted
<1> QED BY <1>4, <1>5

\* Nothing is recorded of no item.
LEMMA NoHistories ==
  ASSUME NEW f
  PROVE  Histories(f, 0, NoFrame)
<1> SUFFICES ASSUME NEW x \in Variable PROVE \E pos : IsHistory(f, 0, <<>>, x, pos)
  BY DEF Histories, NoFrame
<1>1. IsHistory(f, 0, <<>>, x, <<>>)
  BY DEF IsHistory
<1> QED BY <1>1

\* After so many items the entries are theirs (collect_definitions).
CollectedBy(frame, f) == \A n \in 0 .. Len(Body(f)) : frame[n] \in Frame /\ Histories(f, n, frame[n])

\* Collect is what its definition says.
LEMMA CollectAre ==
  ASSUME ValuesTypes, Populated, NEW f \in Function
  PROVE  CollectedBy(Collect(f), f)
<1> DEFINE len == Len(Body(f))
           S == Frame
           Good(n, frame) == n \in 1 .. len /\ Histories(f, n - 1, frame)
           After1(n, frame) == Noted(Body(f)[n], frame)
           step == [a \in Nat \X S |-> IF Good(a[1], a[2]) THEN After1(a[1], a[2]) ELSE a[2]]
<1>0. len \in Nat /\ DOMAIN Body(f) = 1 .. len
  BY ProgramTypes DEF ValuesTypes, Body
<1>1. ASSUME NEW n, NEW frame \in S, Good(n, frame)
      PROVE  n \in Nat /\ After1(n, frame) \in S /\ Histories(f, n, After1(n, frame))
  <2>1. n \in DOMAIN Body(f) /\ n \in Nat
    BY <1>0, <1>1
  <2> QED BY <1>1, <2>1, NotedHistories
<1>2. \A n \in 1 .. len : \A frame \in S : Histories(f, n - 1, frame) => Good(n, frame) /\ n \in Nat
  BY <1>0
<1> HIDE DEF S, len, Good, After1
<1>3. step \in [Nat \X S -> S]
  <2>1. ASSUME NEW a \in Nat \X S, Good(a[1], a[2]) PROVE After1(a[1], a[2]) \in S
    BY <1>1, <2>1
  <2> QED BY <2>1
<1>4. ASSUME NEW n \in 1 .. len, NEW frame \in S, Histories(f, n - 1, frame)
      PROVE  step[n, frame] = Noted(Body(f)[n], frame) /\ Histories(f, n, Noted(Body(f)[n], frame))
  <2>1. Good(n, frame) /\ n \in Nat
    BY <1>2, <1>4
  <2>2. step[n, frame] = After1(n, frame)
    BY <2>1
  <2>3. Histories(f, n, After1(n, frame))
    BY <1>1, <2>1
  <2> QED BY <2>2, <2>3 DEF After1
<1>5. NoFrame \in S
  BY NoFrameTyped DEF S
<1> HIDE DEF step
<1>6. PICK level \in [Nat -> S] : Recurs(level, NoFrame, step)
  BY <1>3, <1>5, NatRecursion
<1>7. \A n \in 0 .. len : level[n] \in Frame /\ Histories(f, n, level[n])
  <2> DEFINE T == {n \in Nat : n \in 0 .. len => Histories(f, n, level[n])}
  <2>1. 0 \in T
    <3>1. Histories(f, 0, NoFrame)
      BY NoHistories
    <3> QED BY <1>6, <3>1 DEF Recurs
  <2>2. ASSUME NEW n \in Nat, n \in T PROVE n + 1 \in T
    <3> SUFFICES ASSUME n + 1 \in 0 .. len PROVE Histories(f, n + 1, level[n + 1])
      OBVIOUS
    <3>1. n \in 0 .. len /\ n + 1 \in 1 .. len /\ (n + 1) - 1 = n /\ n + 1 \in Nat /\ n + 1 > 0
      BY <1>0
    <3>2. level[n + 1] = step[n + 1, level[n]]
      BY <1>6, <3>1 DEF Recurs
    <3>3. PICK m \in 1 .. len : m = n + 1
      BY <3>1
    <3>4. PICK frame \in S : frame = level[n]
      OBVIOUS
    <3>5. Histories(f, m - 1, frame)
      BY <2>2, <3>1, <3>3, <3>4
    <3>6. step[m, frame] = Noted(Body(f)[m], frame) /\ Histories(f, m, Noted(Body(f)[m], frame))
      BY <1>4, <3>5
    <3> QED BY <3>2, <3>3, <3>4, <3>6
  <2> HIDE DEF T
  <2>3. Nat \subseteq T
    BY <2>1, <2>2, Induction
  <2>4. \A n \in 0 .. len : n \in Nat
    BY <1>0
  <2> QED BY <2>3, <2>4 DEF T, S
<1> DEFINE g == [n \in 0 .. len |-> level[n]]
<1>8. g = [n \in 0 .. len |-> IF n = 0 THEN NoFrame ELSE Noted(Body(f)[n], g[n - 1])]
  <2> SUFFICES ASSUME NEW n \in 0 .. len
               PROVE  g[n] = IF n = 0 THEN NoFrame ELSE Noted(Body(f)[n], g[n - 1])
    OBVIOUS
  <2>1. CASE n = 0
    BY <1>6, <2>1 DEF Recurs
  <2>2. CASE n # 0
    <3>1. n \in 1 .. len /\ n \in Nat /\ n > 0 /\ n - 1 \in 0 .. len /\ n - 1 \in Nat
      BY <1>0, <2>2
    <3>2. level[n] = step[n, level[n - 1]]
      BY <1>6, <3>1 DEF Recurs
    <3>3. PICK frame \in S : frame = level[n - 1]
      BY <3>1
    <3>4. Histories(f, n - 1, frame)
      BY <1>7, <3>1, <3>3
    <3>5. step[n, frame] = Noted(Body(f)[n], frame)
      BY <1>4, <3>1, <3>4
    <3> QED BY <2>2, <3>1, <3>2, <3>3, <3>5
  <2> QED BY <2>1, <2>2
<1>9. \A n \in 0 .. len : g[n] = level[n]
  OBVIOUS
<1> HIDE DEF g
<1> DEFINE frame[n \in 0 .. Len(Body(f))] == IF n = 0 THEN NoFrame ELSE Noted(Body(f)[n], frame[n - 1])
<1>10. Collect(f) = frame
  BY DEF Collect
<1>11. frame = [n \in 0 .. len |-> IF n = 0 THEN NoFrame ELSE Noted(Body(f)[n], frame[n - 1])]
  BY <1>8, Zenon DEF frame, len
<1> HIDE DEF frame
<1>12. \A n \in 0 .. len : frame[n] = level[n]
  <2> DEFINE T == {n \in Nat : n \in 0 .. len => frame[n] = level[n]}
  <2>1. 0 \in T
    BY <1>6, <1>11 DEF Recurs
  <2>2. ASSUME NEW n \in Nat, n \in T PROVE n + 1 \in T
    <3> SUFFICES ASSUME n + 1 \in 0 .. len PROVE frame[n + 1] = level[n + 1]
      OBVIOUS
    <3>1. n \in 0 .. len /\ n + 1 \in 0 .. len /\ (n + 1) - 1 = n /\ n + 1 # 0
      BY <1>0
    <3>2. frame[n + 1] = Noted(Body(f)[n + 1], frame[n])
      BY <1>11, <3>1
    <3>3. g[n + 1] = Noted(Body(f)[n + 1], g[n])
      BY <1>8, <3>1
    <3> QED BY <1>9, <2>2, <3>1, <3>2, <3>3
  <2> HIDE DEF T
  <2>3. Nat \subseteq T
    BY <2>1, <2>2, Induction
  <2>4. \A n \in 0 .. len : n \in Nat
    BY <1>0
  <2> QED BY <2>3, <2>4 DEF T
<1> QED BY <1>7, <1>10, <1>12 DEF CollectedBy, len
-----------------------------------------------------------------------------
(***************************************************************************)
(* Arguments that are reported.                                            *)
(***************************************************************************)
\* What is known of the variables of the walked body has its types.
LEMMA ContextTyped ==
  ASSUME ValuesTypes
  PROVE  /\ IsContext(Context)
         /\ Context.frame = locals[walked] /\ Context.bound = Bound(walked, actuals)
         /\ Passed \in Given(program, walked) /\ Covers({Passed}, walked, actuals)
<1>1. Bound(walked, actuals) \in [Variable -> Text \cup {NoEntry}]
  BY BoundTyped DEF ValuesTypes
<1>2. IsContext(Context)
  BY <1>1 DEF IsContext, Context, ValuesTypes
<1>3. Passed \in Given(program, walked)
  BY ResultTypes DEF Passed, Given, Params
<1>4. Covers({Passed}, walked, actuals)
  BY DEF Covers, Passed
<1> QED BY <1>2, <1>3, <1>4 DEF Context

\* The entries of a variable that a use knows: all above it, and below it those
\* of its line.
LEMMA UseKnows ==
  ASSUME ValuesTypes, Populated, waiting = {}, NEW p \in Uses, NEW y \in Variable,
         NEW known, known = UpTo(locals[walked][y], Body(walked)[p].line)
  PROVE  /\ known = {} => \A q \in 1 .. p - 1 : ~Noticed(walked, q, y)
         /\ known # {} => \E w \in DOMAIN Body(walked) : IsEntry(walked, w, Latest(locals[walked][y], known))
<1> DEFINE history == locals[walked][y]
<1>0. program \in Programs /\ walked \in Function \ waiting
  BY DEF ValuesTypes
<1>1. DOMAIN Body(walked) = 1 .. Len(Body(walked)) /\ Len(Body(walked)) \in Nat /\ p \in DOMAIN Body(walked)
  BY <1>0, ProgramTypes DEF Body, Uses
<1>2. history \in Seq(Entries) /\ Ascending(history)
  BY <1>0 DEF ValuesTypes, Frame
<1>3. PICK pos : IsHistory(walked, Len(Body(walked)), history, y, pos)
  BY <1>0 DEF Populated, Histories
<1> HIDE DEF history
<1>4. known = UpTo(history, Body(walked)[p].line)
  BY DEF history
<1>5. ASSUME NEW q \in 1 .. p - 1, Noticed(walked, q, y) PROVE known # {}
  <2>1. q \in DOMAIN Body(walked) /\ q <= p
    BY <1>1
  <2>2. PICK j \in DOMAIN history : pos[j] = q
    BY <1>1, <1>3, <1>5, <2>1 DEF IsHistory
  <2>3. history[j].line = Body(walked)[q].line
    BY <1>3, <2>2 DEF IsHistory
  <2>4. Body(walked)[q].line <= Body(walked)[p].line
    BY <1>0, <1>1, <2>1, LinesAscend
  <2> QED BY <1>4, <2>3, <2>4 DEF UpTo
<1>6. ASSUME known # {} PROVE \E w \in DOMAIN Body(walked) : IsEntry(walked, w, Latest(history, known))
  <2>1. known \in SUBSET DOMAIN history
    BY <1>4 DEF UpTo
  <2>2. PICK j \in known : Latest(history, known) = history[j].text
    BY <1>2, <1>6, <2>1, LatestIs
  <2>3. IsEntry(walked, pos[j], history[j].text) /\ pos[j] \in DOMAIN Body(walked)
    BY <1>1, <1>3, <2>1, <2>2 DEF IsHistory
  <2> QED BY <2>2, <2>3
<1> QED BY <1>5, <1>6 DEF history

\* A use in a traceable body knows the entries above it and no others.
LEMMA UseKnowsThoseAbove ==
  ASSUME ValuesTypes, Populated, Traceable, waiting = {}, NEW p \in Uses,
         NEW y \in Reads[Body(walked)[p].expr], y \in Variable
  PROVE  LastEntry(walked, p - 1, y, locals[walked][y], UpTo(locals[walked][y], Body(walked)[p].line))
<1> DEFINE history == locals[walked][y]
           known == UpTo(history, Body(walked)[p].line)
<1>0. program \in Programs /\ walked \in Function \ waiting
  BY DEF ValuesTypes
<1>1. /\ DOMAIN Body(walked) = 1 .. Len(Body(walked)) /\ Len(Body(walked)) \in Nat
      /\ p \in DOMAIN Body(walked) /\ Body(walked)[p].kind = "use"
  BY <1>0, ProgramTypes DEF Body, Uses
<1>2. history \in Seq(Entries) /\ Ascending(history)
  BY <1>0 DEF ValuesTypes, Frame
<1>3. PICK pos : IsHistory(walked, Len(Body(walked)), history, y, pos)
  BY <1>0 DEF Populated, Histories
<1>4. known \in SUBSET DOMAIN history /\ \A j \in DOMAIN history : j \in known <=> history[j].line <= Body(walked)[p].line
  BY DEF UpTo
<1>5. TracesAt(walked, p)
  BY <1>0, <1>1, TraceableIs
<1> HIDE DEF known, history
<1>6. ASSUME NEW j \in DOMAIN history PROVE j \in known <=> pos[j] <= p - 1
  <2>1. PICK w \in 1 .. Len(Body(walked)) : w = pos[j]
    BY <1>3 DEF IsHistory
  <2>2. Noticed(walked, w, y) /\ history[j].line = Body(walked)[w].line
    BY <1>3, <2>1 DEF IsHistory
  <2>3. w \in DOMAIN Body(walked) /\ w \in Nat /\ p \in Nat
    BY <1>1
  <2>4. w # p
    BY <1>1, <2>2 DEF Noticed, Recorded
  <2>5. CASE w < p
    <3>1. Body(walked)[w].line <= Body(walked)[p].line
      BY <1>0, <1>1, <2>3, <2>5, LinesAscend
    <3>2. w <= p - 1
      BY <2>3, <2>5
    <3> QED BY <1>4, <2>1, <2>2, <3>1, <3>2
  <2>6. CASE p < w
    <3>1. Body(walked)[p].line < Body(walked)[w].line
      BY <1>1, <1>5, <2>2, <2>3, <2>6 DEF TracesAt
    <3>2. Body(walked)[p].line \in Nat /\ Body(walked)[w].line \in Nat
      BY <1>0, <1>1, <2>3, ItemTypes DEF Body
    <3>3. ~(w <= p - 1) /\ ~(history[j].line <= Body(walked)[p].line)
      BY <2>2, <2>3, <2>6, <3>1, <3>2
    <3> QED BY <1>4, <2>1, <3>3
  <2> QED BY <2>3, <2>4, <2>5, <2>6
<1>7. p - 1 \in 0 .. Len(Body(walked)) /\ p - 1 \in Nat
  BY <1>1
<1>8. LastEntry(walked, p - 1, y, history, known)
  <2>1. PICK m \in 0 .. Len(Body(walked)) : m = p - 1
    BY <1>7
  <2>2. \A j \in DOMAIN history : j \in known <=> pos[j] <= m
    BY <1>6, <2>1
  <2>3. LastEntry(walked, m, y, history, known)
    BY ONLY <1>1, <1>2, <1>3, <1>4, <2>2, LastIs, m \in 0 .. Len(Body(walked))
  <2> QED BY <2>1, <2>3
<1> QED BY <1>8 DEF history, known

\* What a use says of a variable, from the entries it knows.
LEMMA UseText ==
  ASSUME ValuesTypes, NEW y \in Variable, NEW limit,
         NEW known, known = UpTo(locals[walked][y], limit),
         NEW seen, seen = IF known # {} THEN Latest(locals[walked][y], known) ELSE Bound(walked, actuals)[y]
  PROVE  VariableText(y, Context, limit) =
           IF seen # NoEntry THEN seen ELSE IF y \in DOMAIN program.global THEN program.global[y] ELSE Placeholder
<1>1. LookUp(Context, y, limit) = seen
  BY DEF LookUp, Context
<1> QED BY <1>1 DEF VariableText

\* What a use reads of a known value is held by a run that arrives there.
LEMMA UseShows ==
  ASSUME ValuesTypes, Populated, Traceable, waiting = {}, NEW p \in Uses
  PROVE  Shown(Arriving(walked, p, {Passed}), Body(walked)[p].expr, Context, Body(walked)[p].line)
<1> DEFINE limit == Body(walked)[p].line
           D == {Passed}
<1> SUFFICES ASSUME NEW y \in Reads[Body(walked)[p].expr], VariableText(y, Context, limit) \in Value
             PROVE  \E env \in Arriving(walked, p, D) : env[y] = VariableText(y, Context, limit)
  BY DEF Shown
<1>0. program \in Programs /\ walked \in Function
  BY DEF ValuesTypes
<1>1. p \in DOMAIN Body(walked) /\ Body(walked)[p].kind = "use"
  BY DEF Uses
<1>2. y \in Variable
  <2>1. Body(walked)[p].expr \in Expr
    BY <1>0, <1>1, ItemTypes DEF Body
  <2> QED BY <2>1, ReadsIs
<1>3. PICK branch \in Branch : Reached(walked, p, branch)
  BY <1>0, <1>1, TraceableIs DEF TracesAt
<1>4. D \in SUBSET Given(program, walked) /\ D # {} /\ Covers(D, walked, actuals)
  BY ContextTyped
<1> DEFINE known == UpTo(locals[walked][y], limit)
           last == Latest(locals[walked][y], known)
           bound == Bound(walked, actuals)[y]
           seen == IF known # {} THEN last ELSE bound
           v == VariableText(y, Context, limit)
<1>5. v = IF seen # NoEntry THEN seen ELSE IF y \in DOMAIN program.global THEN program.global[y] ELSE Placeholder
  BY <1>2, UseText
<1>6. LastEntry(walked, p - 1, y, locals[walked][y], known)
  BY <1>2, UseKnowsThoseAbove
<1>7. v \in Value /\ Placeholder \notin Value
  BY TextsDiffer
<1> HIDE DEF D, v, known
<1>8. CASE y \in DOMAIN program.global /\ v = program.global[y]
  <2>1. \E env \in Arriving(walked, p, D) : env[y] = program.global[y]
    BY <1>0, <1>1, <1>3, <1>4, <1>8, GlobalArrives
  <2> QED BY <1>8, <2>1 DEF v
<1>9. CASE ~(y \in DOMAIN program.global /\ v = program.global[y]) /\ known = {}
  <2>1. v = bound
    BY <1>5, <1>7, <1>9
  <2>2. \A q \in 1 .. p - 1 : ~Noticed(walked, q, y)
    BY <1>6, <1>9 DEF LastEntry
  <2>3. \E env \in Arriving(walked, p, D) : env[y] = bound
    BY <1>0, <1>1, <1>2, <1>3, <1>4, <1>7, <2>1, <2>2, BoundArrives
  <2> QED BY <2>1, <2>3 DEF v
<1>10. CASE ~(y \in DOMAIN program.global /\ v = program.global[y]) /\ known # {}
  <2>1. v = last
    BY <1>5, <1>7, <1>10
  <2>2. PICK w \in 1 .. p - 1 : /\ Noticed(walked, w, y)
                                /\ \A q \in w + 1 .. p - 1 : ~Noticed(walked, q, y)
                                /\ IsEntry(walked, w, v)
    BY <1>6, <1>10, <2>1 DEF LastEntry
  <2>3. IsReal(walked, w, v)
    BY <2>2 DEF IsEntry
  <2>4. PICK value \in Value : value = v
    BY <1>7
  <2>5. IsReal(walked, w, value) /\ Body(walked)[p].kind \in {"return", "use"}
    BY <1>1, <2>3, <2>4
  <2>6. \E env \in Arriving(walked, p, D) : env[y] = value
    BY ONLY <1>0, <1>1, <1>2, <1>4, <2>2, <2>5, EntryArrives, Traceable, y \in Reads[Body(walked)[p].expr], value \in Value
  <2> QED BY <2>4, <2>6 DEF v
<1> QED BY <1>8, <1>9, <1>10 DEF v, D

\* A value that is reported is one the argument has on some path.
LEMMA UseIsReal ==
  ASSUME ValuesTypes, Populated, Traceable, waiting = {}, NEW p \in Uses,
         ResolveExpr(Body(walked)[p].expr, Context, Body(walked)[p].line) \in Value
  PROVE  ResolveExpr(Body(walked)[p].expr, Context, Body(walked)[p].line) \in HeldAt(p)
<1> DEFINE item == Body(walked)[p]
           t == ResolveExpr(item.expr, Context, item.line)
           table == Inlined[Cardinality(Function)]
           E == Arriving(walked, p, {Passed})
<1>0. program \in Programs /\ walked \in Function
  BY DEF ValuesTypes
<1>1. p \in DOMAIN Body(walked) /\ item.kind = "use" /\ item.expr \in Expr
  BY <1>0, ItemTypes DEF Uses, Body
<1>2. PICK branch \in Branch : Reached(walked, p, branch)
  BY <1>0, <1>1, TraceableIs DEF TracesAt
<1>3. E \in SUBSET Env /\ E # {}
  <2>1. {Passed} \in SUBSET Given(program, walked) /\ {Passed} # {}
    BY ContextTyped
  <2> QED BY <1>0, <1>1, <1>2, <2>1, ArrivingTyped, SomeArrive
<1>4. Shown(E, item.expr, Context, item.line)
  BY UseShows
<1>5. table \in Table /\ Faithful(table)
  <2>1. Cardinality(Function) \in Nat
    BY ProgramsAreWhole, FS_CardinalityType
  <2> QED BY <2>1, InlinedIsFaithful
<1>6. t = Resolved(Context, item.line, table)[MaxResolve][item.expr]
  BY DEF ResolveExpr
<1> HIDE DEF item, t, table, E
<1>7. MayBe(E, item.expr, Resolved(Context, item.line, table)[MaxResolve][item.expr])
  BY <1>1, <1>3, <1>4, <1>5, ContextTyped, ExprIsReal, TextsDiffer
<1>8. PICK env \in E : t \in Outcomes(program, env)[item.expr]
  BY <1>6, <1>7 DEF MayBe, t, item
<1>9. PICK b \in Branch : Reached(walked, p, b) /\ env \in Runs(program, walked, Passed, b)[p - 1]
  BY DEF E, Arriving
<1>10. t \in HeldAt(p)
  BY <1>8, <1>9 DEF HeldAt, Reached, item
<1> QED BY <1>10 DEF t, item

\* Of a plain body every argument is reported with a value.
LEMMA UseIsPlain ==
  ASSUME ValuesTypes, Populated, Plain, waiting = {}, NEW p \in Uses
  PROVE  ResolveExpr(Body(walked)[p].expr, Context, Body(walked)[p].line) \in Value
<1> DEFINE item == Body(walked)[p]
           table == Inlined[Cardinality(Function)]
<1>0. program \in Programs /\ walked \in Function
  BY DEF ValuesTypes
<1>1. p \in DOMAIN Body(walked) /\ item.expr \in Expr /\ item.expr \in Direct[MaxResolve]
  BY <1>0, ItemTypes DEF Uses, Body, Plain
<1>2. ASSUME NEW y \in Reads[item.expr] PROVE VariableText(y, Context, item.line) \in Value
  <2> DEFINE known == UpTo(locals[walked][y], item.line)
             last == Latest(locals[walked][y], known)
             bound == Bound(walked, actuals)[y]
             seen == IF known # {} THEN last ELSE bound
             v == VariableText(y, Context, item.line)
  <2>1. y \in Variable
    BY <1>1, ReadsIs
  <2>2. /\ known = {} => \A q \in 1 .. p - 1 : ~Noticed(walked, q, y)
        /\ known # {} => \E w \in DOMAIN Body(walked) : IsEntry(walked, w, last)
    BY <2>1, UseKnows
  <2>3. v = IF seen # NoEntry THEN seen ELSE IF y \in DOMAIN program.global THEN program.global[y] ELSE Placeholder
    BY <2>1, UseText
  <2>4. NoEntry \notin Value
    BY TextsDiffer
  <2>5. \A w : IsEntry(walked, w, last) => last \in Value
    BY DEF IsEntry
  <2>6. y \in ParamNames(program, walked) \cup DOMAIN program.global \/ \E q \in 1 .. p - 1 : Noticed(walked, q, y)
    BY <1>0, <1>1, Declared
  <2>7. y \in ParamNames(program, walked) => bound \in Value
    <3> SUFFICES ASSUME y \in ParamNames(program, walked) PROVE bound \in Value
      OBVIOUS
    <3> DEFINE i == CHOOSE j \in DOMAIN Params(walked) : Params(walked)[j] = y
    <3>1. i \in DOMAIN Params(walked)
      BY DEF ParamNames, Params
    <3>2. i \in DOMAIN actuals /\ actuals[i] \in Value
      BY <3>1 DEF Plain
    <3> QED BY <2>1, <3>2 DEF Bound
  <2>8. y \notin ParamNames(program, walked) => bound = NoEntry
    BY <2>1 DEF Bound
  <2>9. y \in DOMAIN program.global => program.global[y] \in Value
    BY <1>0, ProgramTypes
  <2> HIDE DEF v, known, last, bound
  <2>10. v \in Value
    BY <2>2, <2>3, <2>4, <2>5, <2>6, <2>7, <2>8, <2>9
  <2> QED BY <2>10 DEF v
<1>3. ResolvedBy(Resolved(Context, item.line, table), Context, item.line, table)
  BY <1>1, ContextTyped, ResolveTyped
<1> HIDE DEF table, item
<1>4. Resolved(Context, item.line, table)[MaxResolve][item.expr] \in Value
  BY <1>1, <1>2, <1>3, DirectText, TextsDiffer
<1> QED BY <1>4 DEF ResolveExpr, table, item
-----------------------------------------------------------------------------
(***************************************************************************)
(* The inductive invariant.                                                *)
(***************************************************************************)
\* What is reported, and when.
Reported ==
  /\ found # {} => waiting = {}
  /\ \A u \in found : /\ Traceable /\ u[2] \in Value => u[2] \in HeldAt(u[1])
                      /\ Plain => u[2] \in Value

ValuesInv == ValuesTypes /\ Populated /\ Reported

\* The cursor of a function is an expression, if there is one.
LEMMA ReturnTyped ==
  ASSUME program \in Programs, NEW f \in Function
  PROVE  ReturnCursor(f) \in Expr \cup {NoEntry}
<1>1. ASSUME ReturnCursor(f) # NoEntry PROVE ReturnCursor(f) \in Expr
  <2>1. PICK p \in DOMAIN Body(f) : ReturnCursor(f) = Body(f)[p].expr
    BY <1>1, LastReturn
  <2> QED BY <2>1, ItemTypes DEF Body
<1> QED BY <1>1

\* It holds before anything is populated.
LEMMA ValuesStart == ValuesInit => ValuesInv
<1> SUFFICES ASSUME ValuesInit PROVE ValuesInv
  OBVIOUS
<1>1. actuals \in Seq(Text)
  BY TextsDiffer DEF ValuesInit
<1>2. ValuesTypes
  BY <1>1, NoFrameTyped DEF ValuesInit, ValuesTypes
<1>3. Populated
  BY DEF ValuesInit, Populated
<1>4. Reported
  BY DEF ValuesInit, Reported
<1> QED BY <1>2, <1>3, <1>4 DEF ValuesInv

\* What is said of them stays as it is while they do.
LEMMA SaidOfUnits ==
  ASSUME UNCHANGED <<program, walked, actuals>>
  PROVE  /\ \A f : Body(f)' = Body(f) /\ Params(f)' = Params(f) /\ ReturnsOf(f)' = ReturnsOf(f)
         /\ \A f : ReturnCursor(f)' = ReturnCursor(f)
         /\ \A f, p, branch : Reached(f, p, branch)' <=> Reached(f, p, branch)
         /\ Traceable' <=> Traceable
         /\ Plain' <=> Plain
<1>1. \A f : Body(f)' = Body(f) /\ Params(f)' = Params(f)
  BY DEF Body, Params
<1>2. \A f : ReturnsOf(f)' = ReturnsOf(f)
  BY <1>1 DEF ReturnsOf
<1>3. ASSUME NEW f PROVE ReturnCursor(f)' = ReturnCursor(f)
  <2> DEFINE last(S) == CHOOSE p \in S : \A q \in S : q <= p
             cursor(body, S) == IF S = {} THEN NoEntry ELSE body[last(S)].expr
  <2>1. ReturnCursor(f) = cursor(Body(f), ReturnsOf(f))
    BY DEF ReturnCursor
  <2>2. ReturnCursor(f)' = cursor(Body(f)', ReturnsOf(f)')
    BY DEF ReturnCursor
  <2> HIDE DEF last, cursor
  <2> QED BY <1>1, <1>2, <2>1, <2>2
<1>4. \A f, p, branch : Reached(f, p, branch)' <=> Reached(f, p, branch)
  BY <1>1, <1>2 DEF Reached
<1>5. \A f, x : Writes(f, x)' = Writes(f, x)
  BY <1>1 DEF Writes
<1>6. \A f : Summary(f)' = Summary(f)
  BY DEF Summary
<1>7. Traceable' <=> Traceable
  BY <1>1, <1>2, <1>4, <1>5, <1>6 DEF Traceable
<1>8. Plain' <=> Plain
  BY <1>1 DEF Plain
<1> QED BY <1>1, <1>2, <1>3, <1>4, <1>7, <1>8

\* Entries that say what they are to say go on doing so.
LEMMA HistoriesStay ==
  ASSUME UNCHANGED <<program, walked, actuals>>, NEW f, NEW n, NEW frame, Histories(f, n, frame)
  PROVE  Histories(f, n, frame)'
<1>1. \A q, x : Noticed(f, q, x)' <=> Noticed(f, q, x)
  BY SaidOfUnits DEF Noticed
<1>2. \A q, text : IsReal(f, q, text)' <=> IsReal(f, q, text)
  BY SaidOfUnits DEF IsReal
<1>3. \A q, text : IsEntry(f, q, text)' <=> IsEntry(f, q, text)
  BY <1>2, SaidOfUnits DEF IsEntry
<1>4. \A history, x, pos : IsHistory(f, n, history, x, pos)' <=> IsHistory(f, n, history, x, pos)
  BY <1>1, <1>3, SaidOfUnits DEF IsHistory
<1> QED BY <1>4 DEF Histories

\* What an argument may have is said of the program alone.
LEMMA HeldStays ==
  ASSUME UNCHANGED <<program, walked, actuals>>, NEW p
  PROVE  HeldAt(p)' = HeldAt(p)
<1>1. Passed' = Passed
  BY DEF Passed, Params
<1> QED BY <1>1 DEF HeldAt, Body

\* Populating a function keeps the invariant.
LEMMA PopulateKeeps ==
  ASSUME ValuesInv, NEW f \in Function, Populate(f)
  PROVE  ValuesInv'
<1> DEFINE last == Collect(f)[Len(Body(f))]
<1>1. ValuesTypes /\ Populated /\ Reported
  BY DEF ValuesInv
<1>2. /\ f \in waiting /\ waiting' = waiting \ {f}
      /\ locals' = [locals EXCEPT ![f] = last] /\ returned' = [returned EXCEPT ![f] = ReturnCursor(f)]
      /\ UNCHANGED <<program, walked, actuals>> /\ found' = found
  BY DEF Populate
<1>3. last \in Frame /\ Histories(f, Len(Body(f)), last)
  <2>1. Len(Body(f)) \in 0 .. Len(Body(f))
    BY <1>1, ProgramTypes DEF ValuesTypes, Body
  <2> QED BY <1>1, <2>1, CollectAre DEF CollectedBy
<1>4. ReturnCursor(f) \in Expr \cup {NoEntry}
  BY <1>1, ReturnTyped DEF ValuesTypes
<1> HIDE DEF last
<1>5. ValuesTypes'
  BY <1>1, <1>2, <1>3, <1>4 DEF ValuesTypes
<1>6. ASSUME NEW g \in Function
      PROVE  /\ locals'[g] = IF g = f THEN last ELSE locals[g]
             /\ returned'[g] = IF g = f THEN ReturnCursor(f) ELSE returned[g]
  BY <1>1, <1>2 DEF ValuesTypes
<1>7. ASSUME NEW g \in waiting' PROVE returned'[g] = NoEntry /\ locals'[g] = NoFrame'
  <2>1. g \in waiting /\ g # f /\ g \in Function
    BY <1>1, <1>2 DEF ValuesTypes
  <2> QED BY <1>1, <1>6, <2>1 DEF Populated, NoFrame
<1>8. ASSUME NEW g \in Function \ waiting'
      PROVE  returned'[g] = ReturnCursor(g)' /\ Histories(g, Len(Body(g)), locals[g])'
  <2>1. ReturnCursor(g)' = ReturnCursor(g) /\ Body(g)' = Body(g)
    BY <1>2, SaidOfUnits
  <2>2. PICK frame : frame = locals'[g]
    OBVIOUS
  <2>3. PICK n : n = Len(Body(g))
    OBVIOUS
  <2>4. returned'[g] = ReturnCursor(g) /\ Histories(g, n, frame)
    <3>1. CASE g = f
      BY <1>3, <1>6, <2>2, <2>3, <3>1
    <3>2. CASE g # f
      <4>1. g \in Function \ waiting
        BY <1>2, <3>2
      <4> QED BY <1>1, <1>6, <2>2, <2>3, <3>2, <4>1 DEF Populated
    <3> QED BY <3>1, <3>2
  <2>5. Histories(g, n, frame)'
    BY <1>2, <2>4, HistoriesStay
  <2>6. Histories(g, Len(Body(g)), locals[g])'
    BY <2>1, <2>2, <2>3, <2>5 DEF Histories, IsHistory, IsEntry, IsReal
  <2> QED BY <2>1, <2>4, <2>6
<1>9. Populated'
  BY <1>7, <1>8 DEF Populated
<1>10. Reported'
  BY <1>1, <1>2 DEF Reported
<1> QED BY <1>5, <1>9, <1>10 DEF ValuesInv

\* Only what is reported changes, or nothing does.
LEMMA StillPopulated ==
  ASSUME ValuesTypes, Populated, UNCHANGED <<program, walked, actuals, waiting, locals, returned>>
  PROVE  ValuesTypes' /\ Populated'
<1>1. ValuesTypes'
  BY DEF ValuesTypes
<1>2. ASSUME NEW g \in Function \ waiting
      PROVE  returned'[g] = ReturnCursor(g)' /\ Histories(g, Len(Body(g)), locals[g])'
  <2>1. ReturnCursor(g)' = ReturnCursor(g) /\ Body(g)' = Body(g)
    BY SaidOfUnits
  <2>2. PICK frame : frame = locals[g]
    OBVIOUS
  <2>3. PICK n : n = Len(Body(g))
    OBVIOUS
  <2>4. returned[g] = ReturnCursor(g) /\ Histories(g, n, frame)
    BY <2>2, <2>3 DEF Populated
  <2>5. Histories(g, n, frame)'
    BY <2>4, HistoriesStay
  <2>6. Histories(g, Len(Body(g)), locals[g])'
    BY <2>1, <2>2, <2>3, <2>5 DEF Histories, IsHistory, IsEntry, IsReal
  <2> QED BY <2>1, <2>4, <2>6
<1>3. Populated'
  BY <1>2 DEF Populated, NoFrame
<1> QED BY <1>1, <1>3

\* What is reported of the uses is as it is to be.
LEMMA WalkKeeps ==
  ASSUME ValuesInv, Walk
  PROVE  ValuesInv'
<1>1. ValuesTypes /\ Populated
  BY DEF ValuesInv
<1>2. waiting = {} /\ waiting' = {} /\ UNCHANGED <<program, walked, actuals, waiting, locals, returned>>
  BY DEF Walk
<1>3. ValuesTypes' /\ Populated'
  BY <1>1, <1>2, StillPopulated
<1>4. ASSUME NEW u \in found'
      PROVE  /\ Traceable' /\ u[2] \in Value => u[2] \in HeldAt(u[1])'
             /\ Plain' => u[2] \in Value
  <2>1. PICK p \in Uses : u = <<p, ResolveExpr(Body(walked)[p].expr, Context, Body(walked)[p].line)>>
    BY DEF Walk
  <2>2. Traceable /\ u[2] \in Value => u[2] \in HeldAt(u[1])
    BY <1>1, <1>2, <2>1, UseIsReal
  <2>3. Plain => u[2] \in Value
    BY <1>1, <1>2, <2>1, UseIsPlain
  <2>4. HeldAt(u[1])' = HeldAt(u[1])
    BY <1>2, HeldStays
  <2> QED BY <1>2, <2>2, <2>3, <2>4, SaidOfUnits
<1>5. Reported'
  BY <1>2, <1>4 DEF Reported
<1> QED BY <1>3, <1>5 DEF ValuesInv

\* A step that changes nothing keeps it.
LEMMA StutterKeeps ==
  ASSUME ValuesInv, UNCHANGED values
  PROVE  ValuesInv'
<1>1. ValuesTypes /\ Populated /\ Reported
  BY DEF ValuesInv
<1>2. UNCHANGED <<program, walked, actuals, waiting, locals, returned>> /\ found' = found
  BY DEF values
<1>3. ValuesTypes' /\ Populated'
  BY <1>1, <1>2, StillPopulated
<1>4. ASSUME NEW u \in found
      PROVE  /\ Traceable' /\ u[2] \in Value => u[2] \in HeldAt(u[1])'
             /\ Plain' => u[2] \in Value
  <2>1. HeldAt(u[1])' = HeldAt(u[1])
    BY <1>2, HeldStays
  <2> QED BY <1>1, <1>2, <2>1, SaidOfUnits DEF Reported
<1>5. Reported'
  BY <1>1, <1>2, <1>4 DEF Reported
<1> QED BY <1>3, <1>5 DEF ValuesInv

-----------------------------------------------------------------------------
\* In whatever order the functions are populated, the entries and what is
\* reported are as the invariant says (populate_function_bodies).
THEOREM ValuesInvariance == ValuesSpec => []ValuesInv
<1>1. ValuesInit => ValuesInv
  BY ValuesStart
<1>2. ValuesInv /\ [ValuesNext]_values => ValuesInv'
  <2> SUFFICES ASSUME ValuesInv, [ValuesNext]_values PROVE ValuesInv'
    OBVIOUS
  <2>1. ASSUME NEW f \in Function, Populate(f) PROVE ValuesInv'
    BY <2>1, PopulateKeeps
  <2>2. CASE Walk
    BY <2>2, WalkKeeps
  <2>3. CASE Resolving
    BY <2>3, StutterKeeps DEF Resolving
  <2>4. CASE UNCHANGED values
    BY <2>4, StutterKeeps
  <2> QED BY <2>1, <2>2, <2>3, <2>4 DEF ValuesNext
<1> QED BY <1>1, <1>2, PTL DEF ValuesSpec

\* For every program, order, depth limit and call: a value that is reported of a
\* traceable program is one the argument has on some path, and every argument of
\* a body of literals and variables is reported with a value (lookup_local,
\* collect_definitions, resolve_call_expr).
THEOREM ArgumentsAlwaysFollowExecution == ValuesSpec => []ArgumentsFollowExecution
<1>1. ValuesInv => ArgumentsFollowExecution
  <2> SUFFICES ASSUME ValuesInv PROVE ArgumentsFollowExecution
    OBVIOUS
  <2>1. ValuesAreReal
    BY DEF ValuesInv, Reported, ValuesAreReal
  <2>2. DirectValuesAreFound
    BY DEF ValuesInv, Reported, DirectValuesAreFound, Plain
  <2> QED BY <2>1, <2>2 DEF ArgumentsFollowExecution
<1> QED BY <1>1, ValuesInvariance, PTL
=============================================================================
