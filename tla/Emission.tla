------------------------------ MODULE Emission ------------------------------
(***************************************************************************)
(* The last two stages of ASTAnalyzer::try_libclang: drive_emission walks  *)
(* the call graph from every function, carrying the values of arguments    *)
(* down the calls (walk_call_graph, walk_calls_in_function), each call of  *)
(* a function of the database becomes a finding (emit_finding), and a last *)
(* pass keeps one finding per line and callee.                             *)
(*                                                                         *)
(* The program is a choice of the initial state: `body' and `reach' never  *)
(* change.  A call passes one argument, or none; a value is where it came  *)
(* from (`base') and how many calls are wrapped around it (`nest').  The   *)
(* C++ recursion is kept as an explicit stack.  Iteration over an          *)
(* unordered container is a choice of any element left.                    *)
(***************************************************************************)
EXTENDS Naturals, Sequences, FiniteSets

CONSTANTS
  Fn,         \* the keys of function_summaries
  Callee,     \* the names that calls carry
  Keys,       \* Keys[c]: summaries a call of c enters (find_overload_keys and fallback)
  Db,         \* Db[c]: "miss", "any" or "selective" (has dangerous substrings)
  Programs,   \* the programs considered: the call sites of each function's body
  Field0,     \* Field0[f]: value of the class field when a walk of f starts
  MaxDepth    \* kMaxCallGraphDepth

Base == {"none", "type", "dangerous", "neutral", "safe"}
Arg  == [kind : {"none", "literal", "param", "wrapped", "field"}, base : Base]
Site == [line : Nat, col : Nat, callee : Callee, arg : Arg, effect : Base]

ASSUME EmissionConstants ==
  /\ IsFiniteSet(Fn)
  /\ Keys \in [Callee -> SUBSET Fn]
  /\ Db \in [Callee -> {"miss", "any", "selective"}]
  /\ \A p \in Programs : p \in [Fn -> Seq(Site)]
  /\ Field0 \in [Fn -> Base]
  /\ MaxDepth \in Nat \ {0}

VARIABLES
  body,       \* body[f]: the call sites of f, in the order of the visit
  reach,      \* VisitData::reachable
  phase,      \* "reached", "others" or "done": the loops of drive_emission
  left,       \* functions the loop of the phase has still to start from
  stack,      \* calls of walk_call_graph still to be made, the next one first
  scan,       \* the function whose body is being visited, or Idle
  visited,    \* the set of WalkKey
  seen,       \* the set of (line, column, callee, arguments) already handled
  findings,   \* the findings, in the order they were pushed
  report      \* what the last pass leaves

program == <<body, reach>>
vars == <<body, reach, phase, left, stack, scan, visited, seen, findings, report>>

(***************************************************************************)
(* Values of arguments (resolve_expr on the argument, format_type_place-   *)
(* holder when nothing is known).                                          *)
(***************************************************************************)
NoActual   == [base |-> "none", nest |-> 0]
Unresolved == [base |-> "type", nest |-> 0]
Literal(b) == [base |-> b, nest |-> 0]

\* A parameter that the caller gave no value is bound to "<type: T>".
Bound(actual) == IF actual = NoActual THEN Unresolved ELSE actual

Value(arg, actual, field) ==
  CASE arg.kind = "none"    -> NoActual
    [] arg.kind = "literal" -> Literal(arg.base)
    [] arg.kind = "param"   -> Bound(actual)
    [] arg.kind = "wrapped" -> [Bound(actual) EXCEPT !.nest = @ + 1]
    [] arg.kind = "field"   -> IF field = "none" THEN Unresolved ELSE Literal(field)

\* The number of arguments that hold "<type:".
Placeholders(v) == IF v.base = "type" THEN 1 ELSE 0

\* The filter of emit_finding.  "miss" also stands for the names it skips for
\* their suffix (_free, _up_ref, _cleanup).  A text with a parenthesis counts
\* as not resolved.
Emits(c, v) ==
  /\ Db[c] # "miss"
  /\ Db[c] = "selective" => v.base \in {"dangerous", "type"} \/ v.nest > 0
  /\ v.base # "safe"

(***************************************************************************)
(* The steps.                                                              *)
(***************************************************************************)
Idle == [fn |-> "none"]

\* compute_reachability leaves a set closed under calls (module Reachability).
ClosedUnderCalls(S, b) ==
  \A f \in S : \A i \in DOMAIN b[f] : Keys[b[f][i].callee] \subseteq S

Init ==
  /\ body \in Programs
  /\ reach \in SUBSET Fn
  /\ ClosedUnderCalls(reach, body)
  /\ phase = "reached"
  /\ left = reach
  /\ stack = <<>>
  /\ scan = Idle
  /\ visited = {}
  /\ seen = {}
  /\ findings = <<>>
  /\ report = {}

AtLoop == stack = <<>> /\ scan = Idle

\* The loop over the functions does not advance.
BugStartFrom(f) ==
  /\ AtLoop
  /\ f \in left
  /\ stack' = << [keys |-> {f}, actual |-> NoActual, depth |-> MaxDepth] >>
  /\ UNCHANGED <<program, phase, left, scan, visited, seen, findings, report>>

\* drive_emission: walk_call_graph(fn, {}, ..., kMaxCallGraphDepth).
StartFrom(f) ==
  /\ AtLoop
  /\ f \in left
  /\ left' = left \ {f}
  /\ stack' = << [keys |-> {f}, actual |-> NoActual, depth |-> MaxDepth] >>
  /\ UNCHANGED <<program, phase, scan, visited, seen, findings, report>>

\* The second loop is empty.
BugStartOthers ==
  /\ AtLoop
  /\ phase = "reached"
  /\ left = {}
  /\ phase' = "others"
  /\ UNCHANGED <<program, left, stack, scan, visited, seen, findings, report>>

\* The second loop takes the functions that are not in `reachable'.
StartOthers ==
  /\ AtLoop
  /\ phase = "reached"
  /\ left = {}
  /\ phase' = "others"
  /\ left' = Fn \ reach
  /\ UNCHANGED <<program, stack, scan, visited, seen, findings, report>>

\* What is left to do once f has been taken from the call on top.
Below(f) ==
  LET others == Head(stack).keys \ {f}
  IN  IF others = {} THEN Tail(stack)
      ELSE <<[Head(stack) EXCEPT !.keys = others]>> \o Tail(stack)

\* The bindings are no part of the key.
BugSkippedByName(f) == \/ Head(stack).depth = 0
                       \/ \E x \in visited : x[1] = f

Skipped(f) == \/ Head(stack).depth = 0
              \/ <<f, Head(stack).actual>> \in visited

\* walk_call_graph returns at once: no depth left, or the key is not new.
Skip(f) ==
  /\ scan = Idle
  /\ stack # <<>>
  /\ f \in Head(stack).keys
  /\ Skipped(f)
  /\ stack' = Below(f)
  /\ UNCHANGED <<program, phase, left, scan, visited, seen, findings, report>>

\* walk_call_graph inserts its key and begins the visit of the body.
Enter(f) ==
  /\ scan = Idle
  /\ stack # <<>>
  /\ f \in Head(stack).keys
  /\ ~Skipped(f)
  /\ visited' = visited \cup {<<f, Head(stack).actual>>}
  /\ scan' = [fn |-> f, actual |-> Head(stack).actual, depth |-> Head(stack).depth,
              at |-> 1, field |-> Field0[f], out |-> <<>>]
  /\ stack' = Below(f)
  /\ UNCHANGED <<program, phase, left, seen, findings, report>>

\* As if the loop, not the caller, decided.
BugReduced(f) == phase = "others"

\* A finding's risk is multiplied by kUnreachableRiskFactor.
Reduced(f) == f \notin reach

\* The next call site of the body: resolve the argument, emit once per seen
\* key, note the outgoing call (with a level less), then replay what the callee
\* does to the field.  A call that enters no summary leads to no recursion.
VisitCall ==
  /\ scan # Idle
  /\ scan.at <= Len(body[scan.fn])
  /\ LET s   == body[scan.fn][scan.at]
         v   == Value(s.arg, scan.actual, scan.field)
         key == <<s.line, s.col, s.callee, v>>
     IN  /\ seen' = seen \cup {key}
         /\ findings' = IF key \notin seen /\ Emits(s.callee, v)
                        THEN Append(findings, [line |-> s.line, callee |-> s.callee, value |-> v,
                                               reduced |-> Reduced(scan.fn)])
                        ELSE findings
         /\ scan' = [scan EXCEPT
              !.at = @ + 1,
              !.out = IF Keys[s.callee] = {} THEN @
                      ELSE Append(@, [keys |-> Keys[s.callee], actual |-> v,
                                      depth |-> scan.depth - 1]),
              !.field = IF s.effect = "none" THEN @ ELSE s.effect]
  /\ UNCHANGED <<program, phase, left, stack, visited, report>>

\* The body has been visited: the recursive calls, in order.
EndBody ==
  /\ scan # Idle
  /\ scan.at > Len(body[scan.fn])
  /\ stack' = scan.out \o stack
  /\ scan' = Idle
  /\ UNCHANGED <<program, phase, left, visited, seen, findings, report>>

\* The last pass: per line and callee, the first of the findings with the
\* fewest placeholders.
SamePlace(i, j) == /\ findings[i].line = findings[j].line
                   /\ findings[i].callee = findings[j].callee

\* The first finding, whatever it shows.
BugKept(i) == \A j \in DOMAIN findings : SamePlace(i, j) => i <= j

Kept(i) ==
  \A j \in DOMAIN findings :
    SamePlace(i, j) => LET pi == Placeholders(findings[i].value)
                           pj == Placeholders(findings[j].value)
                       IN  pi < pj \/ (pi = pj /\ i <= j)

Deduplicate ==
  /\ AtLoop
  /\ phase = "others"
  /\ left = {}
  /\ phase' = "done"
  /\ report' = {findings[i] : i \in {k \in DOMAIN findings : Kept(k)}}
  /\ UNCHANGED <<program, left, stack, scan, visited, seen, findings>>

Terminated == phase = "done" /\ UNCHANGED vars

Next == \/ \E f \in left : StartFrom(f)
        \/ StartOthers
        \/ \E f \in Fn : Skip(f)
        \/ \E f \in Fn : Enter(f)
        \/ VisitCall
        \/ EndBody
        \/ Deduplicate
        \/ Terminated

Spec     == Init /\ [][Next]_vars
FairSpec == Spec /\ WF_vars(Next)

(***************************************************************************)
(* What the program's text says, without stack, visited set or depth.      *)
(***************************************************************************)
\* The field's value at the i-th call of f: the last effect before it.
FieldAt(f, i) ==
  LET sets == {j \in 1 .. (i - 1) : body[f][j].effect # "none"}
  IN  IF sets = {} THEN Field0[f]
      ELSE body[f][CHOOSE j \in sets : \A k \in sets : k <= j].effect

ValueAt(f, i, actual) == Value(body[f][i].arg, actual, FieldAt(f, i))

\* A context is a function with the value its parameter has.  The contexts a
\* context calls:
ContextCalls(x) ==
  UNION {Keys[body[x[1]][i].callee] \X {ValueAt(x[1], i, x[2])} : i \in DOMAIN body[x[1]]}

\* The contexts that chains of at most k calls lead to.
Within[k \in Nat] ==
  IF k = 0 THEN Fn \X {NoActual}
  ELSE Within[k - 1] \cup UNION {ContextCalls(x) : x \in Within[k - 1]}

(***************************************************************************)
(* Properties.                                                             *)
(***************************************************************************)
\* As long as the reached functions are walked, only reached functions are
\* entered: the first finding of a call site, which `seen' then protects,
\* carries the full risk if it may (drive_emission, walk_call_graph).
ReachedFirst ==
  phase = "reached" =>
    /\ scan # Idle => scan.fn \in reach
    /\ \A i \in DOMAIN stack : stack[i].keys \subseteq reach

\* The walk invents no argument: every context it visits is at the end of a
\* chain of fewer than MaxDepth calls in the program (walk_call_graph).
OnlyRealContexts == AtLoop => visited \subseteq Within[MaxDepth - 1]

\* If the program has no more contexts than the walk has levels, every one of
\* them is visited, in whatever order the functions are taken.
FewContextsAllVisited ==
  phase = "done" /\ Cardinality(Within[MaxDepth]) <= MaxDepth => Within[MaxDepth] \subseteq visited

\* The walk visits what it should, in the order it should (drive_emission,
\* walk_call_graph): the three above, each of which the shared `visited' set and
\* the depth limit could spoil.
ContextsAreRight == ReachedFirst /\ OnlyRealContexts /\ FewContextsAllVisited

\* No vulnerable call is lost: each call site whose call would be reported
\* when nothing is known of the parameters is in the report, even in functions
\* that cannot be reached.
EverySiteReported ==
  phase = "done" =>
    \A f \in Fn : \A i \in DOMAIN body[f] :
      Emits(body[f][i].callee, ValueAt(f, i, NoActual)) =>
        \E r \in report : r.line = body[f][i].line /\ r.callee = body[f][i].callee

\* The risk of what is reported is reduced exactly for the calls in functions
\* that were not reached (kUnreachableRiskFactor).
RiskFollowsReach ==
  \A r \in report : \A f \in Fn :
    (\E i \in DOMAIN body[f] : body[f][i].line = r.line) => (r.reduced <=> f \notin reach)

\* A placeholder is reported only if no visited context shows a value.
ValueBeatsPlaceholder ==
  \A r \in report : Placeholders(r.value) > 0 =>
    \A x \in visited : \A i \in DOMAIN body[x[1]] :
      LET s == body[x[1]][i]
          v == ValueAt(x[1], i, x[2])
      IN  s.line = r.line /\ s.callee = r.callee /\ Emits(s.callee, v) => Placeholders(v) > 0

\* Recursive programs do not keep the walk going.
WalkTerminates == <>(phase = "done")

\* The thesis gives kMaxCallGraphDepth as the limit of the walk of the call
\* graph (docs/text, "Constants of the depth of analysis"): a chain of calls
\* within it is followed.
ChainsWithinLimitFollowed == phase = "done" => Within[MaxDepth - 1] \subseteq visited
=============================================================================
