--------------------------- MODULE CallGraphReach ---------------------------
(***************************************************************************)
(* What the reachability stage of the AST analyser promises, with none of  *)
(* its machinery: a translation unit has function definitions, some of     *)
(* them are roots, a body may call others, and one step decides for every  *)
(* definition whether it can be entered from a root.                       *)
(***************************************************************************)

CONSTANT Def          \* the function definitions of one translation unit

VARIABLES edges,      \* edges[d]: the definitions the body of d may enter
          roots,      \* the definitions that can be entered from outside
          verdict,    \* the definitions judged reachable
          decided     \* has the verdict been given?

vars == <<edges, roots, verdict, decided>>

Closed(S) == roots \subseteq S /\ \A d \in S : edges[d] \subseteq S

\* The least set that holds the roots and is closed under calls.
Closure == {d \in Def : \A S \in SUBSET Def : Closed(S) => d \in S}

Init == /\ edges \in [Def -> SUBSET Def]
        /\ roots \in SUBSET Def
        /\ verdict = {}
        /\ decided = FALSE

Decide == /\ ~decided
          /\ decided' = TRUE
          /\ verdict' = Closure
          /\ UNCHANGED <<edges, roots>>

Spec == Init /\ [][Decide]_vars
=============================================================================
