----------------------------- MODULE FieldReplay -----------------------------
(***************************************************************************)
(* Values of the fields of one class.  ASTAnalyzer::try_libclang collects  *)
(* what construction gives each field (collect_class_fields), then the     *)
(* events of each method in the order of their lines                       *)
(* (collect_method_effects).  When walk_call_graph walks a method, it      *)
(* keeps a map of field values and replays into it the events of every     *)
(* method of the class that is called on the way (replay_method_effects);  *)
(* a library call is reported with the values the map then holds.          *)
(*                                                                         *)
(* One program has three orders: `body' is in the order of the syntax      *)
(* tree, `line' orders the events, `turn' is the order of execution.  In   *)
(*   f = m();                                                              *)
(* the assignment comes first in the tree and last in execution, and the   *)
(* line says nothing.  Bodies are straight lines: no branch, no loop.      *)
(***************************************************************************)
EXTENDS Naturals, Sequences, FiniteSets

CONSTANTS
  Method,       \* the methods of the class
  Field,        \* its fields
  Value,        \* what an expression is rendered as
  NoValue,      \* an absent entry of a map, an empty string
  Placeholder,  \* "<type: ...>"
  MaxDepth,     \* kMaxCallGraphDepth
  Programs      \* the classes considered

Known == Value \cup {NoValue}

\* write:      f = v or lib(&f), v being the value or the call as rendered
\* copy:       f = g
\* call:       m(), this_call: this->m(), other_call: x.m(), x of this class
\* use:        lib(f), a library call that is reported
Kind == {"write", "copy", "call", "this_call", "other_call", "use"}
Item == [kind : Kind, line : Nat, turn : Nat, field : Field, value : Value,
         from : Field, method : Method]

\* plain[m] is m, or the overload of m that was met first and has the name
\* of both for its key; m itself then has "name@line".
Program ==
  [in_class : [Field -> Known],
   constructors : Seq([inside : BOOLEAN, inits : [Field -> Known]]),
   body : [Method -> Seq(Item)],
   plain : [Method -> Method]]

ASSUME ConstantsOK ==
  /\ NoValue \notin Value
  /\ Placeholder \in Value
  /\ MaxDepth \in Nat \ {0}

\* The turns of a body number its items through.
ASSUME ProgramsOK ==
  /\ Programs \subseteq Program
  /\ \A prog \in Programs : \A m \in Method : \A n \in DOMAIN prog.body[m] :
       \E p \in DOMAIN prog.body[m] : prog.body[m][p].turn = n

VARIABLES
  program,       \* the class
  phase,         \* "fields", "constructors", "effects", "start", "walk", "done"
  met,           \* constructors met so far
  class_fields,  \* VisitData::class_fields of the class
  uncollected,   \* methods whose events are still to be collected
  effects,       \* VisitData::method_effects: positions in the body, sorted
  walked,        \* the method walk_call_graph is in, chosen beforehand
  at,            \* the item of it that the walk meets next
  state,         \* current_state
  stack,         \* the recursion of replay_method_effects
  active,        \* its set of methods
  found          \* the uses reported: position and value

collection == <<program, met, class_fields, uncollected, effects>>
replay     == <<state, stack, active>>
vars       == <<collection, phase, walked, at, replay, found>>

Body(m) == program.body[m]

IsMutation(it) == it.kind \in {"write", "copy"}
IsOwnCall(it)  == it.kind \in {"call", "this_call"}

\* method_event_visitor: a call is an event if `this' is not written.
BugIsEvent(it) == IsMutation(it) \/ it.kind \in {"call", "other_call"}
IsEvent(it)    == IsMutation(it) \/ it.kind = "call"

\* The right side of an assignment is resolved when the event is collected,
\* against the registry: a copy gets what construction left in the source.
\* The registry does not change any more, so this is read where it is needed.
Assigned(it) ==
  IF it.kind = "write" THEN it.value
  ELSE IF class_fields[it.from] # NoValue THEN class_fields[it.from] ELSE Placeholder

\* std::sort by line is not stable: any arrangement whose lines ascend.
EventOrders(m) ==
  LET events == {p \in DOMAIN Body(m) : IsEvent(Body(m)[p])}
  IN  {s \in [1 .. Cardinality(events) -> events] :
         \A j, k \in DOMAIN s : j < k =>
           s[j] # s[k] /\ Body(m)[s[j]].line <= Body(m)[s[k]].line}

Init ==
  /\ program \in Programs
  /\ phase = "fields"
  /\ met = 0
  /\ class_fields = [f \in Field |-> NoValue]
  /\ uncollected = Method
  /\ effects = [m \in Method |-> <<>>]
  /\ walked \in Method
  /\ at = 1
  /\ state = class_fields
  /\ stack = <<>>
  /\ active = {}
  /\ found = {}

(***************************************************************************)
(* collect_class_fields.                                                   *)
(***************************************************************************)
InClassInitialisers ==
  /\ phase = "fields"
  /\ class_fields' = program.in_class
  /\ phase' = "constructors"
  /\ UNCHANGED <<program, met, uncollected, effects, walked, at, replay, found>>

DefinedInside == {i \in DOMAIN program.constructors : program.constructors[i].inside}
SingleConstructor == Cardinality(DefinedInside) = 1

Overwrites(f) == class_fields[f] = NoValue \/ SingleConstructor

\* The member initialisers of the next constructor, if its definition stands
\* in the class.  Its body is not looked at here.
MeetConstructor ==
  /\ phase = "constructors"
  /\ met < Len(program.constructors)
  /\ met' = met + 1
  /\ LET next == program.constructors[met + 1]
     IN  class_fields' = [f \in Field |->
           IF next.inside /\ next.inits[f] # NoValue /\ Overwrites(f)
           THEN next.inits[f] ELSE class_fields[f]]
  /\ UNCHANGED <<program, phase, uncollected, effects, walked, at, replay, found>>

FieldsCollected ==
  /\ phase = "constructors"
  /\ met = Len(program.constructors)
  /\ phase' = "effects"
  /\ UNCHANGED <<collection, walked, at, replay, found>>

(***************************************************************************)
(* collect_method_effects.  A method without events gets no entry, which   *)
(* is an empty sequence here.                                              *)
(***************************************************************************)
CollectEffects(m) ==
  /\ phase = "effects"
  /\ m \in uncollected
  /\ uncollected' = uncollected \ {m}
  /\ \E s \in EventOrders(m) : effects' = [effects EXCEPT ![m] = s]
  /\ UNCHANGED <<program, phase, met, class_fields, walked, at, replay, found>>

\* initial_field_state: each walk starts from what construction left.
StartWalk ==
  /\ phase = "effects"
  /\ uncollected = {}
  /\ phase' = "walk"
  /\ state' = class_fields
  /\ UNCHANGED <<collection, walked, at, stack, active, found>>

(***************************************************************************)
(* walk_calls_in_function, in the order of the tree.                       *)
(***************************************************************************)
Walking == phase = "walk" /\ stack = <<>> /\ at \in DOMAIN Body(walked)
Here    == Body(walked)[at]

\* A call finds the entry under the name of its callee.
Entry(it) == program.plain[it.method]

\* resolve_member_ref
Reported(f) == IF state[f] # NoValue THEN state[f]
               ELSE IF class_fields[f] # NoValue THEN class_fields[f]
               ELSE Placeholder

Use ==
  /\ Walking /\ Here.kind = "use"
  /\ found' = found \cup {<<at, Reported(Here.field)>>}
  /\ at' = at + 1
  /\ UNCHANGED <<collection, phase, walked, replay>>

Frame(m, left) == [method |-> m, next |-> 1, left |-> left]

IsClassCall(it) == IsOwnCall(it) \/ it.kind = "other_call"

\* The call's own object is not asked for.
StartReplay ==
  /\ Walking /\ IsClassCall(Here)
  /\ effects[Entry(Here)] # <<>>
  /\ stack' = <<Frame(Entry(Here), MaxDepth)>>
  /\ active' = {Entry(Here)}
  /\ at' = at + 1
  /\ UNCHANGED <<collection, phase, walked, state, found>>

\* Assignments of the walked method itself go by.
Pass ==
  /\ Walking
  /\ Here.kind # "use"
  /\ IsClassCall(Here) => effects[Entry(Here)] = <<>>
  /\ at' = at + 1
  /\ UNCHANGED <<collection, phase, walked, replay, found>>

EndWalk ==
  /\ phase = "walk" /\ stack = <<>>
  /\ at > Len(Body(walked))
  /\ phase' = "done"
  /\ UNCHANGED <<collection, walked, at, replay, found>>

(***************************************************************************)
(* replay_method_effects.                                                  *)
(***************************************************************************)
Top   == stack[Len(stack)]
Event == Body(Top.method)[effects[Top.method][Top.next]]

Replaying == stack # <<>> /\ Top.next \in DOMAIN effects[Top.method]
Advanced  == [stack EXCEPT ![Len(stack)].next = @ + 1]

Mutate ==
  /\ Replaying /\ IsMutation(Event)
  /\ state' = [state EXCEPT ![Event.field] = Assigned(Event)]
  /\ stack' = Advanced
  /\ UNCHANGED <<collection, phase, walked, at, active, found>>

\* One level is lost.
BugEnters(m) == Top.left > 2 /\ effects[m] # <<>> /\ m \notin active
Enters(m)    == Top.left > 1 /\ effects[m] # <<>> /\ m \notin active

Descend ==
  /\ Replaying /\ ~IsMutation(Event)
  /\ Enters(Entry(Event))
  /\ stack' = Append(Advanced, Frame(Entry(Event), Top.left - 1))
  /\ active' = active \cup {Entry(Event)}
  /\ UNCHANGED <<collection, phase, walked, at, state, found>>

\* The cut leaves the loop where it is.
BugCut ==
  /\ Replaying /\ ~IsMutation(Event)
  /\ ~Enters(Entry(Event))
  /\ UNCHANGED vars

\* The recursive call returns at once.
Cut ==
  /\ Replaying /\ ~IsMutation(Event)
  /\ ~Enters(Entry(Event))
  /\ stack' = Advanced
  /\ UNCHANGED <<collection, phase, walked, at, state, active, found>>

\* The method stays in the set.
BugReturn ==
  /\ stack # <<>> /\ ~Replaying
  /\ stack' = SubSeq(stack, 1, Len(stack) - 1)
  /\ UNCHANGED <<collection, phase, walked, at, state, active, found>>

Return ==
  /\ stack # <<>> /\ ~Replaying
  /\ stack' = SubSeq(stack, 1, Len(stack) - 1)
  /\ active' = active \ {Top.method}
  /\ UNCHANGED <<collection, phase, walked, at, state, found>>

Terminated == phase = "done" /\ UNCHANGED vars

Next ==
  \/ InClassInitialisers \/ MeetConstructor \/ FieldsCollected
  \/ \E m \in Method : CollectEffects(m)
  \/ StartWalk
  \/ Use \/ StartReplay \/ Pass \/ EndWalk
  \/ Mutate \/ Descend \/ Cut \/ Return
  \/ Terminated

Spec     == Init /\ [][Next]_vars
FairSpec == Spec /\ WF_vars(Next)

(***************************************************************************)
(* What the class does when it is run.                                     *)
(***************************************************************************)
Shown(v) == IF v # NoValue THEN v ELSE Placeholder

AtTurn(m, n) == Body(m)[CHOOSE p \in DOMAIN Body(m) : Body(m)[p].turn = n]

State == [Field -> Known]

\* One turn: inner[m][s] is what a call of m makes of the fields s.
Turn(it, s, inner) ==
  CASE it.kind = "write" -> [s EXCEPT ![it.field] = it.value]
    [] it.kind = "copy"  -> [s EXCEPT ![it.field] = Shown(s[it.from])]
    [] IsOwnCall(it)     -> inner[it.method][s]
    [] OTHER             -> s

\* The fields after each turn of m, entered in state s.
After(m, s, inner) ==
  LET after[n \in 0 .. Len(Body(m))] ==
        IF n = 0 THEN s ELSE Turn(AtTurn(m, n), after[n - 1], inner)
  IN  after

\* What calls make of the fields when they nest at most d deep.
Execution ==
  LET calls[d \in 0 .. MaxDepth] ==
        IF d = 0 THEN [m \in Method |-> [s \in State |-> s]]
        ELSE [m \in Method |-> [s \in State |-> After(m, s, calls[d - 1])[Len(Body(m))]]]
  IN  calls

Called(m) == {Body(m)[p].method : p \in {q \in DOMAIN Body(m) : IsOwnCall(Body(m)[q])}}

\* The methods entered k calls deep when the walked method is run.
Level ==
  LET level[k \in 0 .. (MaxDepth + 1)] ==
        IF k = 0 THEN {walked} ELSE UNION {Called(m) : m \in level[k - 1]}
  IN  level

Entered == UNION {Level[k] : k \in 0 .. MaxDepth}

(***************************************************************************)
(* The programs the replay can follow: no recursion and no nesting beyond  *)
(* the limit, no overloads, `this' not written in a method called, each    *)
(* event on a line of its own in the order of execution, no call on        *)
(* another object, and no copy of a field that changes on the way.         *)
(***************************************************************************)
Changes(m) == {Body(m)[p].field : p \in {q \in DOMAIN Body(m) : IsMutation(Body(m)[q])}}

Followable ==
  /\ Level[MaxDepth + 1] = {}
  /\ \A m \in Entered : \A p \in DOMAIN Body(m) :
       LET it == Body(m)[p]
       IN  /\ IsOwnCall(it) => program.plain[it.method] = it.method
           /\ it.kind = "copy" => \A n \in Entered : it.from \notin Changes(n)
           /\ it.kind = "this_call" => m = walked
           /\ it.kind = "other_call" => m # walked
           /\ it.turn = p
           /\ \A q \in DOMAIN Body(m) : p < q => it.line < Body(m)[q].line

(***************************************************************************)
(* Properties.                                                             *)
(***************************************************************************)
\* The type invariant: the set `active' of replay_method_effects is the set
\* of methods on its stack, no method is there twice, and each frame has one
\* level less than the frame below.
TypeOK ==
  /\ program \in Program
  /\ phase \in {"fields", "constructors", "effects", "walk", "done"}
  /\ met \in 0 .. Len(program.constructors)
  /\ class_fields \in [Field -> Known]
  /\ uncollected \subseteq Method
  /\ effects \in [Method -> Seq(Nat)]
  /\ \A m \in Method : \A j \in DOMAIN effects[m] :
       effects[m][j] \in DOMAIN Body(m) /\ IsEvent(Body(m)[effects[m][j]])
  /\ walked \in Method
  /\ at \in Nat
  /\ state \in [Field -> Known]
  /\ stack \in Seq([method : Method, next : Nat \ {0}, left : 1 .. MaxDepth])
  /\ \A j \in DOMAIN stack : stack[j].left = MaxDepth + 1 - j
  /\ \A j, k \in DOMAIN stack : stack[j].method = stack[k].method => j = k
  /\ active = {stack[j].method : j \in DOMAIN stack}
  /\ found \in SUBSET (Nat \X Value)

\* A field has a value before the first call exactly if some constructor
\* leaves it one, and then one that some constructor leaves: with several
\* constructors the first one wins and an in-class value is never given up
\* (collect_class_fields), so for these an in-class value is excepted.
Leaves(c, f) == IF c.inits[f] # NoValue THEN c.inits[f] ELSE program.in_class[f]

InitialIsConstructed ==
  phase \notin {"fields", "constructors"} /\ met > 0 /\ DefinedInside = 1 .. met =>
    \A f \in Field :
      program.in_class[f] = NoValue \/ SingleConstructor =>
        /\ class_fields[f] \in {Leaves(program.constructors[i], f) : i \in 1 .. met} \cup {NoValue}
        /\ class_fields[f] = NoValue <=>
             \A i \in 1 .. met : Leaves(program.constructors[i], f) = NoValue

\* What the class holds in a field when execution comes to an item.
HeldAt(p, f) ==
  Shown(After(walked, class_fields, Execution[MaxDepth])[Body(walked)[p].turn - 1][f])

WrittenHere(p) ==
  \E q \in 1 .. (p - 1) : IsMutation(Body(walked)[q]) /\ Body(walked)[q].field = Body(walked)[p].field

\* On a class the replay can follow, a library call is reported with the value
\* its field has when the call is executed, however deep in called methods it
\* was set, unless the walked method has set the field itself.
ReplayIsExecution ==
  Followable => \A u \in found : ~WrittenHere(u[1]) => u[2] = HeldAt(u[1], Body(walked)[u[1]].field)

\* From construction to a library call, fields have the values of an execution
\* (collect_class_fields, replay_method_effects).
FieldsFollowExecution == InitialIsConstructed /\ ReplayIsExecution

\* Whatever the class, with recursion, overloads and other objects: a field
\* the map gives another value than construction has it from an assignment to
\* that field in a method whose name the walked method calls, directly or
\* through calls with `this' left out.
CalledByName(S) ==
  /\ \A p \in DOMAIN Body(walked) : IsClassCall(Body(walked)[p]) => Entry(Body(walked)[p]) \in S
  /\ \A m \in S : \A p \in DOMAIN Body(m) : Body(m)[p].kind = "call" => Entry(Body(m)[p]) \in S

NothingInvented ==
  phase = "walk" =>
    \A S \in SUBSET Method : CalledByName(S) =>
      \A f \in Field : state[f] # class_fields[f] =>
        \E m \in S : \E p \in DOMAIN Body(m) :
          /\ IsMutation(Body(m)[p]) /\ Body(m)[p].field = f
          /\ state[f] = Assigned(Body(m)[p])

\* Methods that call each other do not keep the replay going.
WalkEnds == <>(phase = "done")
=============================================================================
