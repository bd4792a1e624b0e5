---------------------------- MODULE Reachability ----------------------------
(***************************************************************************)
(* The first and the third stage of ASTAnalyzer::try_libclang: every       *)
(* function definition of a translation unit gets a summary in a map keyed *)
(* by name (precollect_visitor, build_function_summary), and               *)
(* compute_reachability searches the call graph of those summaries from    *)
(* its roots.  A finding in a function that is not reached keeps only 0.3  *)
(* of its risk, so the verdict of this search decides priorities.          *)
(*                                                                         *)
(* The translation unit itself is a choice of the initial state: `calls'   *)
(* and `linkage' never change.  The deque of the search is kept as a set:  *)
(* the code fills it in the order of an unordered_map, so any element may  *)
(* come first, and popping in every order covers the order of the queue.   *)
(***************************************************************************)
EXTENDS Naturals

CONSTANTS
  Def,        \* the function definitions of the translation unit
  Name,       \* the names definitions and calls carry
  MainName,   \* the simple name "main"
  Qual,       \* Qual[d]: the qualified name of d
  Simple,     \* Simple[d]: its simple name
  Line,       \* Line[d]: the expansion line of the definition
  CallSets,   \* the sets of callee names a body may hold
  Linkages    \* the kinds of definition considered, a subset of LinkageKind

LinkageKind == {"external", "static", "static_member", "anon_ns"}

ASSUME ConstantsOK ==
  /\ MainName \in Name
  /\ Qual \in [Def -> Name]
  /\ Simple \in [Def -> Name]
  /\ Line \in [Def -> Nat \ {0}]
  /\ CallSets \subseteq SUBSET Name
  /\ Linkages \subseteq LinkageKind

VARIABLES
  calls,      \* calls[d]: callee names in the body of d (FunctionSummary::callees)
  linkage,    \* linkage[d]: what clang says of d's storage and scope
  unmet,      \* definitions precollect_visitor has still to meet
  summaries,  \* VisitData::function_summaries: key -> definition
  toExamine,  \* keys the loop over possible roots has still to look at
  frontier,   \* keys reached whose callees are still to be followed
  reachable,  \* VisitData::reachable
  pc          \* "collect", "roots", "search" or "done"

unit == <<calls, linkage>>
vars    == <<calls, linkage, unmet, summaries, toExamine, frontier, reachable, pc>>

(***************************************************************************)
(* Keys.  The first definition met under a qualified name has the name for *)
(* its key, <<name, 0>>; a later one has "name@line", <<name, line>>.      *)
(***************************************************************************)
Key == Name \X Nat

KeyFor(d) == IF <<Qual[d], 0>> \notin DOMAIN summaries
             THEN <<Qual[d], 0>>
             ELSE <<Qual[d], Line[d]>>

\* clang_Cursor_getStorageClass answers Static for a static member function
\* defined in its class as well as for a function of internal linkage.
IsStatic(d)   == linkage[d] \in {"static", "static_member"}
IsInAnonNs(d) == linkage[d] = "anon_ns"

IsRoot(d) == Simple[d] = MainName \/ (~IsStatic(d) /\ ~IsInAnonNs(d))

\* As if a callee without overloads were inserted under the name it was
\* called by, and as if the search stopped at the first of the overloads.
BugUniqueSimpleMatch(n) ==
  LET bySimple == {k \in DOMAIN summaries : Simple[summaries[k]] = n}
  IN  {<<n, 0>> : k \in {j \in bySimple : bySimple = {j}}}
BugOverloadKeys(n) == {k \in DOMAIN summaries : k = <<n, 0>>}

\* find_overload_keys: the key that is the name, and every "name@line".
OverloadKeys(n) == {k \in DOMAIN summaries : k[1] = n}

\* The fallback: the summary with this simple name, if there is exactly one.
UniqueSimpleMatch(n) ==
  LET bySimple == {k \in DOMAIN summaries : Simple[summaries[k]] = n}
  IN  {k \in bySimple : bySimple = {k}}

Resolve(n) == IF OverloadKeys(n) # {} THEN OverloadKeys(n) ELSE UniqueSimpleMatch(n)

Callees(k) == UNION {Resolve(n) : n \in calls[summaries[k]]}

(***************************************************************************)
(* The steps.                                                              *)
(***************************************************************************)
Init == /\ calls \in [Def -> CallSets]
        /\ linkage \in [Def -> Linkages]
        /\ unmet = Def
        /\ summaries = [k \in {} |-> k]
        /\ toExamine = {}
        /\ frontier = {}
        /\ reachable = {}
        /\ pc = "collect"

\* build_function_summary for the next definition of the unit.  The map entry
\* is assigned, whatever the key held before.
Register(d) ==
  /\ pc = "collect"
  /\ d \in unmet
  /\ unmet' = unmet \ {d}
  /\ summaries' = [k \in DOMAIN summaries \cup {KeyFor(d)} |->
                     IF k = KeyFor(d) THEN d ELSE summaries[k]]
  /\ UNCHANGED <<unit, toExamine, frontier, reachable, pc>>

\* The visit of the unit is over; the loop over function_summaries begins.
StartRoots ==
  /\ pc = "collect"
  /\ unmet = {}
  /\ toExamine' = DOMAIN summaries
  /\ pc' = "roots"
  /\ UNCHANGED <<unit, unmet, summaries, frontier, reachable>>

\* A root is reached but not queued.
BugExamineRoot(k) ==
  /\ pc = "roots"
  /\ k \in toExamine
  /\ toExamine' = toExamine \ {k}
  /\ IF IsRoot(summaries[k]) /\ k \notin reachable
     THEN reachable' = reachable \cup {k}
     ELSE UNCHANGED reachable
  /\ UNCHANGED <<unit, unmet, summaries, frontier, pc>>

\* One pass of that loop, with add_root when the summary is a root.
ExamineRoot(k) ==
  /\ pc = "roots"
  /\ k \in toExamine
  /\ toExamine' = toExamine \ {k}
  /\ IF IsRoot(summaries[k]) /\ k \notin reachable
     THEN reachable' = reachable \cup {k} /\ frontier' = frontier \cup {k}
     ELSE UNCHANGED <<reachable, frontier>>
  /\ UNCHANGED <<unit, unmet, summaries, pc>>

StartSearch ==
  /\ pc = "roots"
  /\ toExamine = {}
  /\ pc' = "search"
  /\ UNCHANGED <<unit, unmet, summaries, toExamine, frontier, reachable>>

\* Callees are queued whether or not they were reached before.
BugVisit(k) ==
  /\ pc = "search"
  /\ k \in frontier
  /\ reachable' = reachable \cup Callees(k)
  /\ frontier' = (frontier \ {k}) \cup Callees(k)
  /\ UNCHANGED <<unit, unmet, summaries, toExamine, pc>>

\* One pass of the search loop: every callee of k not reached before is
\* reached and queued.
Visit(k) ==
  /\ pc = "search"
  /\ k \in frontier
  /\ reachable' = reachable \cup Callees(k)
  /\ frontier' = (frontier \ {k}) \cup (Callees(k) \ reachable)
  /\ UNCHANGED <<unit, unmet, summaries, toExamine, pc>>

Finish ==
  /\ pc = "search"
  /\ frontier = {}
  /\ pc' = "done"
  /\ UNCHANGED <<unit, unmet, summaries, toExamine, frontier, reachable>>

Terminated == pc = "done" /\ UNCHANGED vars

Next == \/ \E d \in Def : Register(d)
        \/ StartRoots
        \/ \E k \in toExamine : ExamineRoot(k)
        \/ StartSearch
        \/ \E k \in frontier : Visit(k)
        \/ Finish
        \/ Terminated

Spec     == Init /\ [][Next]_vars
FairSpec == Spec /\ WF_vars(Next)

(***************************************************************************)
(* Properties.                                                             *)
(***************************************************************************)
\* The type invariant: `summaries' is a map from keys to definitions already
\* met, and the work sets of the root loop and of the search hold keys of it.
TypeOK ==
  /\ calls \in [Def -> CallSets]
  /\ linkage \in [Def -> Linkages]
  /\ unmet \subseteq Def
  /\ DOMAIN summaries \subseteq Key
  /\ summaries \in [DOMAIN summaries -> Def \ unmet]
  /\ toExamine \subseteq DOMAIN summaries
  /\ reachable \subseteq DOMAIN summaries
  /\ frontier \subseteq reachable
  /\ pc \in {"collect", "roots", "search", "done"}

\* What the unit's source says, with no keys and no map: a call enters every
\* definition of that qualified name or, when there is none, the only one
\* with that simple name.
Entered(n) ==
  IF \E e \in Def : Qual[e] = n
  THEN {e \in Def : Qual[e] = n}
  ELSE {e \in Def : {x \in Def : Simple[x] = n} = {e}}

SourceEdges == [d \in Def |-> UNION {Entered(n) : n \in calls[d]}]
SourceRoots == {d \in Def : IsRoot(d)}
Verdict     == IF pc = "done" THEN {summaries[k] : k \in reachable} ELSE {}

\* The search implements the one-step decision on the source's own call graph:
\* when it ends, the definitions it reached are exactly the least closed set,
\* whatever the order of the unit and of the hash map (compute_reachability).
Abstract == INSTANCE CallGraphReach
              WITH edges <- SourceEdges, roots <- SourceRoots,
                   verdict <- Verdict, decided <- (pc = "done")

ReachRefinesAbstract == Abstract!Spec

\* While the search runs, a key already taken from the queue has had all its
\* callees reached, and every root has been reached: nothing reached is ever
\* forgotten between the insertion in `reachable' and the pop (the loop's
\* inductive invariant).
SearchInvariant ==
  pc \in {"search", "done"} =>
    /\ \A k \in DOMAIN summaries : IsRoot(summaries[k]) => k \in reachable
    /\ \A k \in reachable \ frontier : Callees(k) \subseteq reachable

\* Recursive and mutually recursive functions do not keep the search going.
SearchTerminates == <>(pc = "done")

(***************************************************************************)
(* The condition under which no summary replaces another: definitions that *)
(* share a qualified name start on different lines.                        *)
(***************************************************************************)
LinesDistinct == \A d, e \in Def : Qual[d] = Qual[e] /\ Line[d] = Line[e] => d = e
=============================================================================
