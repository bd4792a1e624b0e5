----------------------------- MODULE LocalValues -----------------------------
(***************************************************************************)
(* Values of local variables.  populate_function_bodies collects, for one  *)
(* function after the other, what each of its variables is given and at    *)
(* which line; the functions come in the order of a hash map.  When        *)
(* walk_call_graph then meets a library call, resolve_expr renders its     *)
(* argument: a variable by its last entry at or above the line, a          *)
(* parameter by what the caller passed, a call of a function of the file   *)
(* by the expression it returns (resolve_call_expr).  Whether an item of a *)
(* body is executed always or in one branch the analyser does not ask.     *)
(***************************************************************************)
EXTENDS LocalPrograms

CONSTANTS
  Placeholder,  \* "<type: ...>"
  Rendered,     \* a call as text, "f(...)"
  Source,       \* the text of the source
  NoEntry,      \* an absent entry of a map, an empty string
  MaxResolve,   \* kMaxResolveDepth
  MaxInline,    \* kMaxInlineExpansionDepth
  Contexts      \* what callers pass

Text == Value \cup {Placeholder, Rendered, Source}

ASSUME TextsDiffer ==
  /\ {Placeholder, Rendered, Source, NoEntry} \cap Value = {}
  /\ NoEntry \notin Expr
  /\ MaxResolve \in Nat /\ MaxInline \in Nat
  /\ Contexts \subseteq Seq(Text)

VARIABLES
  program,   \* the translation unit
  walked,    \* the function walk_call_graph is in
  actuals,   \* what its caller passed, rendered
  waiting,   \* functions still to be populated
  locals,    \* FunctionSummary::locals: entries by name, as met
  returned,  \* FunctionSummary::return_cursor
  found      \* arguments reported: position of the use, text

values == <<program, walked, actuals, waiting, locals, returned, found>>

Body(f)   == program.body[f]
Params(f) == program.params[f]

NoFrame == [x \in Variable |-> <<>>]
NoBinding == [x \in Variable |-> NoEntry]

ValuesInit ==
  /\ program \in Programs
  /\ walked \in {f \in Function : \E p \in DOMAIN Body(f) : Body(f)[p].kind = "use"}
  /\ actuals \in Contexts
  /\ waiting = Function
  /\ locals = [f \in Function |-> NoFrame]
  /\ returned = [f \in Function |-> NoEntry]
  /\ found = {}

(***************************************************************************)
(* Resolution.  A context rc has the frame of the function that is looked  *)
(* at, values bound to names, and the functions whose returned expression  *)
(* is being resolved.                                                      *)
(***************************************************************************)
\* The text of the entry with the highest line, the last one of them.
Latest(history, known) ==
  history[CHOOSE j \in known : \A k \in known :
            \/ history[k].line < history[j].line
            \/ history[k].line = history[j].line /\ k <= j].text

UpTo(history, limit) == {j \in DOMAIN history : history[j].line <= limit}

\* Entries below the line are looked at too.
BugLookUp(rc, x, limit) ==
  IF rc.frame[x] # <<>> THEN Latest(rc.frame[x], DOMAIN rc.frame[x]) ELSE rc.bound[x]

LookUp(rc, x, limit) ==
  IF UpTo(rc.frame[x], limit) # {} THEN Latest(rc.frame[x], UpTo(rc.frame[x], limit)) ELSE rc.bound[x]

Bound(f, given) ==
  [x \in Variable |->
     IF x \notin ParamNames(program, f) THEN NoEntry
     ELSE LET i == CHOOSE j \in DOMAIN Params(f) : Params(f)[j] = x
          IN  IF i \in DOMAIN given THEN given[i] ELSE Placeholder]

\* A returned expression sees the parameters and, for other names, the last
\* entry of the whole body.
Inside(g, given) ==
  [x \in Variable |->
     IF x \in ParamNames(program, g) THEN Bound(g, given)[x]
     ELSE IF locals[g][x] # <<>> THEN Latest(locals[g][x], DOMAIN locals[g][x]) ELSE NoEntry]

Nested(g, given, active) ==
  [frame |-> NoFrame, bound |-> Inside(g, given), active |-> active \cup {g}]

\* find_function_summary: an overload is taken for the first of its name.
Summary(f) == program.plain[f]

CanInline(g, active) == returned[g] # NoEntry /\ g \notin active

\* resolve_decl_ref.  A global that no entry of this body names has the value
\* of its initialiser.
VariableText(x, rc, limit) ==
  LET seen == LookUp(rc, x, limit)
  IN  IF seen # NoEntry THEN seen
      ELSE IF x \in DOMAIN program.global THEN program.global[x]
      ELSE Placeholder

\* resolve_expr, when calls of functions of the file become what `inlined` says.
Rendering(e, depth, rc, limit, inlined, text) ==
  CASE e.kind = "literal"  -> e.value
    [] e.kind = "operator" -> Source
    [] e.kind \notin {"literal", "operator"} /\ depth = 0 -> Source
    [] e.kind = "paren" /\ depth > 0 -> text[depth - 1][e.of]
    [] e.kind = "name"  /\ depth > 0 -> VariableText(e.name, rc, limit)
    [] e.kind = "call"  /\ depth > 0 ->
         IF depth > 1 /\ e.callee \in Function
         THEN inlined[Summary(e.callee)][[i \in DOMAIN e.args |-> text[depth - 1][e.args[i]]]][rc.active]
         ELSE Rendered

Resolved(rc, limit, inlined) ==
  LET text[depth \in Nat] == [e \in Expr |-> Rendering(e, depth, rc, limit, inlined, text)] IN text

\* resolve_call_expr: a call of g with the arguments rendered, when `left` more
\* functions may become active.  What is returned is resolved with a new depth.
Inlining(inlined) ==
  [g \in Function |-> [given \in Seq(Text) |-> [active \in SUBSET Function |->
     IF CanInline(g, active)
     THEN Resolved(Nested(g, given, active), 0, inlined)[MaxInline][returned[g]]
     ELSE Rendered]]]

NoInlining == [g \in Function |-> [given \in Seq(Text) |-> [active \in SUBSET Function |-> Rendered]]]

Inlined[left \in Nat] == IF left = 0 THEN NoInlining ELSE Inlining(Inlined[left - 1])

ResolveExpr(e, rc, limit) == Resolved(rc, limit, Inlined[Cardinality(Function)])[MaxResolve][e]

(***************************************************************************)
(* populate_function_bodies, one function.  Its own summary is still empty *)
(* while its items are collected, and so may be those of its callees.      *)
(***************************************************************************)
EntryOf(item, frame) ==
  [line |-> item.line,
   text |-> IF item.kind = "open" THEN Placeholder
            ELSE ResolveExpr(item.expr, [frame |-> frame, bound |-> NoBinding, active |-> {}], item.line)]

Recorded(item) == item.kind \in {"set", "open"}

Noted(item, frame) ==
  IF Recorded(item) THEN [frame EXCEPT ![item.name] = Append(@, EntryOf(item, frame))] ELSE frame

\* Collect(f)[n]: the entries of the first n items.
Collect(f) ==
  LET frame[n \in 0 .. Len(Body(f))] == IF n = 0 THEN NoFrame ELSE Noted(Body(f)[n], frame[n - 1])
  IN  frame

ReturnsOf(f) == {p \in DOMAIN Body(f) : Body(f)[p].kind = "return"}

\* The last return met is kept.
ReturnCursor(f) ==
  IF ReturnsOf(f) = {} THEN NoEntry
  ELSE Body(f)[CHOOSE p \in ReturnsOf(f) : \A q \in ReturnsOf(f) : q <= p].expr

Populate(f) ==
  /\ f \in waiting
  /\ waiting' = waiting \ {f}
  /\ locals' = [locals EXCEPT ![f] = Collect(f)[Len(Body(f))]]
  /\ returned' = [returned EXCEPT ![f] = ReturnCursor(f)]
  /\ UNCHANGED <<program, walked, actuals, found>>

(***************************************************************************)
(* walk_call_graph, the library calls of one body.                         *)
(***************************************************************************)
Uses == {p \in DOMAIN Body(walked) : Body(walked)[p].kind = "use"}

Context == [frame |-> locals[walked], bound |-> Bound(walked, actuals), active |-> {}]

Walk ==
  /\ waiting = {} /\ found = {}
  /\ found' = {<<p, ResolveExpr(Body(walked)[p].expr, Context, Body(walked)[p].line)>> : p \in Uses}
  /\ UNCHANGED <<program, walked, actuals, waiting, locals, returned>>

Resolving == found # {} /\ UNCHANGED values

ValuesNext == (\E f \in Function : Populate(f)) \/ Walk \/ Resolving

ValuesSpec == ValuesInit /\ [][ValuesNext]_values

(***************************************************************************)
(* What is reported and what is executed.                                  *)
(***************************************************************************)
\* The walked function is run with the values its caller passed, as far as
\* they are known.
Passed ==
  [i \in DOMAIN Params(walked) |->
     IF i \in DOMAIN actuals /\ actuals[i] \in Value THEN actuals[i] ELSE Unknown]

\* The item is executed in that branch: nothing above it returns.
Reached(f, p, branch) ==
  /\ Executed(Body(f)[p], branch)
  /\ \A r \in ReturnsOf(f) : r < p => ~Executed(Body(f)[r], branch)

\* The values an argument may have at a use, over all branches.
HeldAt(p) ==
  UNION {UNION {Outcomes(program, env)[Body(walked)[p].expr] :
                  env \in Runs(program, walked, Passed, branch)[p - 1]} :
           branch \in {b \in Branch : Executed(Body(walked)[p], b)}}

Writes(f, x) == {q \in DOMAIN Body(f) : Body(f)[q].kind \in {"set", "open", "hidden"} /\ Body(f)[q].name = x}

\* Bodies whose values the lines tell.  No overload; no write the analyser
\* cannot see, of a global, or of a parameter of a function it inlines; calls
\* return, and what is returned or passed to the library is reached.  What an
\* argument reads is not written again on its line, nor what is returned below;
\* and what is read was given on a path that leads there, on every one if it is
\* given to another variable.
Traceable ==
  /\ \A f \in Function : \A given \in Given(program, f) : program.calls[f][given] # {}
  /\ \A f \in Function :
       /\ Summary(f) = f
       /\ \A x \in DOMAIN program.global : Writes(f, x) = {}
       /\ ReturnsOf(f) # {} => \A x \in ParamNames(program, f) : Writes(f, x) = {}
       /\ \A p \in DOMAIN Body(f) : Body(f)[p].kind # "hidden"
       /\ \A p \in {q \in DOMAIN Body(f) : Body(f)[q].kind \in {"set", "return", "use"}} :
            LET item == Body(f)[p]
            IN  /\ item.kind # "set" => \E branch \in Branch : Reached(f, p, branch)
                /\ \A x \in Reads[item.expr] : \A q \in Writes(f, x) :
                     /\ p < q => item.kind # "return" /\ (item.kind = "use" => item.line < Body(f)[q].line)
                     /\ q < p => \E branch \in Branch : Reached(f, p, branch) /\ Reached(f, q, branch)
                     /\ q < p /\ item.kind = "set" => Body(f)[q].when = "always"

\* In whatever order the functions were populated, a value that is reported of
\* a traceable program is one the argument has on some path to the call
\* (lookup_local, collect_definitions, resolve_call_expr).
ValuesAreReal ==
  Traceable => \A u \in found : u[2] \in Value => u[2] \in HeldAt(u[1])

\* Literals and variables, in few enough parentheses.
Direct[depth \in Nat] ==
  {e \in Expr : /\ depth > 0
                /\ \/ e.kind \in {"literal", "name"}
                   \/ e.kind = "paren" /\ e.of \in Direct[depth - 1]}

\* A body whose variables get literals and other variables, called with known
\* values: whatever the order, each argument is reported with a value
\* (lookup_local).  A variable that is given a parameter is excepted, for the
\* body was collected before anything was bound.
DirectValuesAreFound ==
  /\ \A i \in DOMAIN Params(walked) : i \in DOMAIN actuals /\ actuals[i] \in Value
  /\ \A p \in DOMAIN Body(walked) :
       LET item == Body(walked)[p]
       IN  /\ item.kind # "open"
           /\ item.kind \in {"set", "use"} => item.expr \in Direct[MaxResolve]
           /\ item.kind = "set" => Reads[item.expr] \cap ParamNames(program, walked) = {}
  => \A u \in found : u[2] \in Value

\* What is reported of an argument is what the program does with it, and it is
\* reported where nothing hides it.
ArgumentsFollowExecution == ValuesAreReal /\ DirectValuesAreFound
=============================================================================
