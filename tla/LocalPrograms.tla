---------------------------- MODULE LocalPrograms ----------------------------
(***************************************************************************)
(* Translation units as LocalValues reads them, and what their functions   *)
(* do when they are run.  A body is its items in the order of the text,    *)
(* those of nested lambdas and classes left out:                           *)
(*   set     T x = e; or x = e;                                            *)
(*   open    T x; or x += e;                                               *)
(*   hidden  ++x, f(&x), an assignment in a lambda: seen by nobody         *)
(*   return  return e;                                                     *)
(*   use     lib(e), a library call that is reported                       *)
(* Each is executed always or in one branch of a condition.                *)
(***************************************************************************)
EXTENDS Naturals, Sequences, FiniteSets

CONSTANTS
  Function,  \* the functions of the translation unit
  Variable,  \* variables and parameters, by name
  Value,     \* constants an expression may have
  Unknown,   \* a value of no interest
  Expr,      \* the expressions of the units, with their parts
  Height,    \* Height[e]: more than that of any part of e
  Programs   \* the translation units considered

Result == Value \cup {Unknown}
Env == [Variable -> Result]
Branch == {"then", "else"}

IsExpression(e) ==
  \/ e.kind = "literal" /\ e.value \in Value
  \/ e.kind = "name" /\ e.name \in Variable
  \/ e.kind = "operator"
  \/ e.kind = "paren" /\ e.of \in Expr
  \/ e.kind = "call" /\ e.args \in Seq(Expr)

Parts(e) == CASE e.kind = "paren" -> {e.of}
              [] e.kind = "call"  -> {e.args[i] : i \in DOMAIN e.args}
              [] OTHER -> {}

ASSUME ExpressionsAreTrees ==
  /\ \A e \in Expr : IsExpression(e)
  /\ Height \in [Expr -> Nat]
  /\ \A e \in Expr : \A part \in Parts(e) : Height[part] < Height[e]

Reads[e \in Expr] ==
  IF e.kind = "name" THEN {e.name} ELSE UNION {Reads[part] : part \in Parts(e)}

Item == [kind : {"set", "open", "hidden", "return", "use"}, name : Variable, expr : Expr,
         when : {"always"} \cup Branch, line : Nat]

Executed(item, branch) == item.when \in {"always", branch}

ParamNames(P, f) == {P.params[f][i] : i \in DOMAIN P.params[f]}

\* What a function may be called with; an argument that is left out has its
\* default value.
Given(P, f) == [DOMAIN P.params[f] -> Result]

(***************************************************************************)
(* What may happen.  P.calls[f][given] are the values a call may return.   *)
(***************************************************************************)
\* What the arguments of a call may be, from the outcomes of its expressions.
Passing(P, e, outcome) ==
  {given \in Given(P, e.callee) : \A i \in DOMAIN given :
     given[i] \in IF i \in DOMAIN e.args THEN outcome[e.args[i]] ELSE {Unknown}}

Outcome(P, env, e, outcome) ==
  CASE e.kind = "literal"  -> {e.value}
    [] e.kind = "name"     -> {env[e.name]}
    [] e.kind = "operator" -> {Unknown}
    [] e.kind = "paren"    -> outcome[e.of]
    [] e.kind = "call"     -> IF e.callee \in Function
                              THEN UNION {P.calls[e.callee][given] : given \in Passing(P, e, outcome)}
                              ELSE {Unknown}

Outcomes(P, env) == LET outcome[e \in Expr] == Outcome(P, env, e, outcome) IN outcome

Start(P, f, given) ==
  [x \in Variable |->
     IF x \in ParamNames(P, f) THEN given[CHOOSE i \in DOMAIN P.params[f] : P.params[f][i] = x]
     ELSE IF x \in DOMAIN P.global THEN P.global[x]
     ELSE Unknown]

\* The contents of the variables behind an item, from those before it.
After(P, item, branch, before) ==
  IF ~Executed(item, branch) \/ item.kind = "use" THEN before
  ELSE CASE item.kind = "return" -> {}
         [] item.kind = "set" ->
              UNION {{[env EXCEPT ![item.name] = v] : v \in Outcomes(P, env)[item.expr]} : env \in before}
         [] item.kind \in {"open", "hidden"} -> {[env EXCEPT ![item.name] = Unknown] : env \in before}

\* Runs(...)[n]: the contents after n items when the condition goes that way.
\* Each function has its own copy of the globals.
Runs(P, f, given, branch) ==
  LET run[n \in 0 .. Len(P.body[f])] ==
        IF n = 0 THEN {Start(P, f, given)} ELSE After(P, P.body[f][n], branch, run[n - 1])
  IN run

\* The values the calls may return are all those the bodies give them, and a
\* value of no interest if the end is reached without a return.
CallsFollowBodies(P) ==
  \A f \in Function : \A given \in Given(P, f) : \A branch \in Branch :
    LET run  == Runs(P, f, given, branch)
        body == P.body[f]
    IN  /\ \A p \in DOMAIN body :
             body[p].kind = "return" /\ Executed(body[p], branch) =>
               \A env \in run[p - 1] : Outcomes(P, env)[body[p].expr] \subseteq P.calls[f][given]
        /\ run[Len(body)] # {} => Unknown \in P.calls[f][given]

\* A name is that of one variable, declared before it is read.
NamesAreDeclared(P) ==
  \A f \in Function :
    /\ ParamNames(P, f) \cap DOMAIN P.global = {}
    /\ \A p \in DOMAIN P.body[f] : \A x \in Reads[P.body[f][p].expr] :
         \/ x \in ParamNames(P, f) \cup DOMAIN P.global
         \/ \E q \in 1 .. p - 1 : P.body[f][q].kind \in {"set", "open"} /\ P.body[f][q].name = x

IsProgram(P) ==
  /\ P.body \in [Function -> Seq(Item)]
  /\ P.params \in [Function -> Seq(Variable)]
  /\ P.plain \in [Function -> Function]
  /\ DOMAIN P.global \subseteq Variable /\ \A x \in DOMAIN P.global : P.global[x] \in Value
  /\ DOMAIN P.calls = Function
  /\ \A f \in Function : P.calls[f] \in [Given(P, f) -> SUBSET Result]
  /\ \A f \in Function : \A p, q \in DOMAIN P.body[f] : p < q => P.body[f][p].line <= P.body[f][q].line
  /\ NamesAreDeclared(P)
  /\ CallsFollowBodies(P)

ASSUME ProgramsAreWhole ==
  /\ IsFiniteSet(Function) /\ Unknown \notin Value
  /\ \A P \in Programs : IsProgram(P)
=============================================================================
