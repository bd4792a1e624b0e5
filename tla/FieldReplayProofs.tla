-------------------------- MODULE FieldReplayProofs --------------------------
(***************************************************************************)
(* Theorems about FieldReplay: the type invariant, which says that the set *)
(* `active' of replay_method_effects is exactly its stack and so bounds    *)
(* the recursion; that the replay invents no value; and that on a class it *)
(* can follow it reports the values of an execution.                       *)
(***************************************************************************)
EXTENDS FieldReplay, FiniteSetTheorems, SequenceTheorems, WellFoundedInduction, TLAPS

FrameSet == [method : Method, next : Nat \ {0}, left : 1 .. MaxDepth]

\* The part of the type invariant about replay_method_effects.
StackOK ==
  /\ stack \in Seq(FrameSet)
  /\ \A j \in DOMAIN stack : stack[j].left = MaxDepth + 1 - j
  /\ \A j, k \in DOMAIN stack : stack[j].method = stack[k].method => j = k
  /\ active = {stack[j].method : j \in DOMAIN stack}

\* The rest of it that the replay's steps read.
RestOK ==
  /\ program \in Program
  /\ phase \in {"fields", "constructors", "effects", "walk", "done"}
  /\ met \in 0 .. Len(program.constructors)
  /\ class_fields \in [Field -> Known]
  /\ uncollected \subseteq Method
  /\ effects \in [Method -> Seq(Nat)]
  /\ \A m \in Method : \A j \in DOMAIN effects[m] :
       effects[m][j] \in DOMAIN Body(m) /\ IsEvent(Body(m)[effects[m][j]])
  /\ walked \in Method
  /\ at \in Nat
  /\ state \in [Field -> Known]
  /\ found \in SUBSET (Nat \X Value)

LEMMA TypeSplits == TypeOK <=> StackOK /\ RestOK
  BY DEF TypeOK, StackOK, RestOK, FrameSet

\* A body is a sequence of items.
LEMMA BodyType ==
  ASSUME program \in Program, NEW m \in Method
  PROVE  Body(m) \in Seq(Item)
  BY DEF Program, Body

LEMMA ItemType ==
  ASSUME program \in Program, NEW m \in Method, NEW p \in DOMAIN Body(m)
  PROVE  /\ Body(m)[p] \in Item
         /\ Body(m)[p].field \in Field /\ Body(m)[p].from \in Field
         /\ Body(m)[p].value \in Value
         /\ Entry(Body(m)[p]) \in Method
<1>1. Body(m)[p] \in Item
  BY BodyType
<1> QED
  BY <1>1 DEF Item, Entry, Program

\* What a mutation assigns is never the empty value.
LEMMA AssignedType ==
  ASSUME program \in Program, class_fields \in [Field -> Known],
         NEW m \in Method, NEW p \in DOMAIN Body(m)
  PROVE  Assigned(Body(m)[p]) \in Value
  BY ItemType, ConstantsOK DEF Assigned, Known

\* The events of a body, sorted, are a sequence of positions in it.
LEMMA OrdersType ==
  ASSUME program \in Program, NEW m \in Method, NEW s \in EventOrders(m)
  PROVE  /\ s \in Seq(Nat)
         /\ \A j \in DOMAIN s : s[j] \in DOMAIN Body(m) /\ IsEvent(Body(m)[s[j]])
<1> DEFINE events == {p \in DOMAIN Body(m) : IsEvent(Body(m)[p])}
<1>1. Body(m) \in Seq(Item)
  BY BodyType
<1>2. DOMAIN Body(m) = 1 .. Len(Body(m)) /\ Len(Body(m)) \in Nat
  BY <1>1
<1>3. IsFiniteSet(events)
  <2>1. IsFiniteSet(1 .. Len(Body(m)))
    BY <1>2, FS_Interval
  <2> QED
    BY <2>1, <1>2, FS_Subset, events \subseteq DOMAIN Body(m)
<1>4. Cardinality(events) \in Nat
  BY <1>3, FS_CardinalityType
<1>5. s \in [1 .. Cardinality(events) -> events]
  BY DEF EventOrders
<1>6. events \subseteq Nat
  BY <1>2
<1>7. s \in Seq(Nat)
  <2> DEFINE n == Cardinality(events)
  <2>1. n \in Nat /\ s \in [1 .. n -> Nat]
    BY <1>4, <1>5, <1>6
  <2> HIDE DEF n
  <2> QED
    BY <2>1, SeqDef
<1> QED
  BY <1>5, <1>7

\* A replay in progress looks at an event of the method on top.
LEMMA EventType ==
  ASSUME StackOK, RestOK, Replaying
  PROVE  /\ Len(stack) \in DOMAIN stack
         /\ Top \in FrameSet /\ Top.method \in Method
         /\ effects[Top.method][Top.next] \in DOMAIN Body(Top.method)
         /\ Event.field \in Field
         /\ Assigned(Event) \in Value
         /\ Entry(Event) \in Method
         /\ ~IsMutation(Event) => Event.kind = "call"
<1>1. Len(stack) \in DOMAIN stack /\ Top \in FrameSet
  BY DEF Replaying, StackOK, Top
<1>2. Top.method \in Method /\ Top.next \in DOMAIN effects[Top.method]
  BY <1>1 DEF FrameSet, Replaying
<1> DEFINE p == effects[Top.method][Top.next]
<1>3. p \in DOMAIN Body(Top.method) /\ IsEvent(Body(Top.method)[p])
  BY <1>2 DEF RestOK
<1>4. Event = Body(Top.method)[p]
  BY DEF Event
<1> QED
  BY <1>1, <1>2, <1>3, <1>4, ItemType, AssignedType DEF RestOK, IsEvent

(***************************************************************************)
(* The type invariant.                                                     *)
(***************************************************************************)
LEMMA InitTyped == Init => StackOK /\ RestOK
<1> SUFFICES ASSUME Init PROVE StackOK /\ RestOK
  OBVIOUS
<1>1. program \in Program
  BY ProgramsOK DEF Init
<1>2. RestOK
  <2>1. Len(program.constructors) \in Nat
    BY <1>1 DEF Program
  <2>2. effects \in [Method -> Seq(Nat)] /\ \A m \in Method : DOMAIN effects[m] = {}
    BY DEF Init
  <2> QED
    BY <1>1, <2>1, <2>2 DEF Init, RestOK, Known
<1>3. StackOK
  BY DEF Init, StackOK
<1> QED
  BY <1>2, <1>3

\* A step that pushes, changes or pops nothing below the top keeps the stack
\* and `active' together.
LEMMA AdvancedOK ==
  ASSUME StackOK, RestOK, Replaying
  PROVE  /\ Advanced \in Seq(FrameSet)
         /\ Len(Advanced) = Len(stack)
         /\ DOMAIN Advanced = DOMAIN stack
         /\ \A j \in DOMAIN stack : /\ Advanced[j].method = stack[j].method
                                    /\ Advanced[j].left = stack[j].left
<1>1. stack \in Seq(FrameSet) /\ Len(stack) \in DOMAIN stack
  BY EventType DEF StackOK
<1>2. \A j \in DOMAIN stack : stack[j] \in FrameSet
  BY <1>1
<1>3. \A j \in DOMAIN stack :
        Advanced[j] = IF j = Len(stack) THEN [stack[j] EXCEPT !.next = @ + 1] ELSE stack[j]
  BY <1>1, <1>2 DEF Advanced
<1>4. \A j \in DOMAIN stack :
        /\ Advanced[j] \in FrameSet
        /\ Advanced[j].method = stack[j].method
        /\ Advanced[j].left = stack[j].left
  <2> SUFFICES ASSUME NEW j \in DOMAIN stack
               PROVE  /\ Advanced[j] \in FrameSet
                      /\ Advanced[j].method = stack[j].method
                      /\ Advanced[j].left = stack[j].left
    OBVIOUS
  <2>1. CASE j = Len(stack)
    <3>1. Advanced[j] = [stack[j] EXCEPT !.next = @ + 1]
      BY <1>3, <2>1
    <3>2. stack[j] \in FrameSet
      BY <1>2
    <3> QED
      BY <3>1, <3>2 DEF FrameSet
  <2>2. CASE j # Len(stack)
    BY <1>2, <1>3, <2>2
  <2> QED
    BY <2>1, <2>2
<1>5. DOMAIN Advanced = DOMAIN stack
  BY DEF Advanced
<1>6. Len(stack) \in Nat /\ DOMAIN stack = 1 .. Len(stack)
  BY <1>1
<1>7. Advanced \in [1 .. Len(stack) -> FrameSet]
  BY <1>4, <1>5, <1>6 DEF Advanced
<1> QED
  BY <1>4, <1>5, <1>6, <1>7

LEMMA StepStack ==
  ASSUME StackOK, RestOK, [Next]_vars
  PROVE  StackOK'
<1>1. CASE UNCHANGED <<stack, active>>
  BY <1>1 DEF StackOK
<1>2. CASE StartReplay
  <2> DEFINE m == Entry(Here)
  <2>1. m \in Method
    BY <1>2, ItemType DEF StartReplay, Walking, Here, RestOK
  <2>2. stack' = <<Frame(m, MaxDepth)>> /\ active' = {m}
    BY <1>2 DEF StartReplay
  <2>3. Frame(m, MaxDepth) \in FrameSet
    BY <2>1, ConstantsOK DEF Frame, FrameSet
  <2>4. DOMAIN stack' = {1} /\ stack'[1].method = m /\ stack'[1].left = MaxDepth
    BY <2>2 DEF Frame
  <2> QED
    BY <2>2, <2>3, <2>4, ConstantsOK DEF StackOK
<1>3. CASE Mutate \/ Cut
  <2>1. stack' = Advanced /\ active' = active /\ Replaying
    BY <1>3 DEF Mutate, Cut
  <2> QED
    BY <2>1, AdvancedOK DEF StackOK
<1>4. CASE Descend
  <2> DEFINE m == Entry(Event)
             new == Frame(m, Top.left - 1)
             n == Len(stack)
  <2>1. /\ Replaying /\ Top.left > 1 /\ m \notin active
        /\ stack' = Append(Advanced, new) /\ active' = active \cup {m}
    BY <1>4 DEF Descend, Enters
  <2>2. n \in DOMAIN stack /\ n \in Nat /\ DOMAIN stack = 1 .. n
    BY <2>1, EventType DEF StackOK
  <2>3. Top.left = MaxDepth + 1 - n /\ Top.left \in 1 .. MaxDepth
    BY <2>1, <2>2, EventType DEF StackOK, Top, FrameSet
  <2>4. new \in FrameSet /\ new.method = m /\ new.left = MaxDepth + 1 - (n + 1)
    BY <2>1, <2>2, <2>3, EventType, ConstantsOK DEF Frame, FrameSet
  <2>5. /\ stack' \in Seq(FrameSet)
        /\ DOMAIN stack' = 1 .. (n + 1)
        /\ stack'[n + 1] = new
        /\ \A j \in 1 .. n : stack'[j] = Advanced[j]
    BY <2>1, <2>2, <2>4, AdvancedOK
  <2>6. \A j \in 1 .. n : stack'[j].method = stack[j].method /\ stack'[j].left = stack[j].left
    BY <2>1, <2>2, <2>5, AdvancedOK
  <2>7. \A j \in DOMAIN stack' : stack'[j].left = MaxDepth + 1 - j
    BY <2>2, <2>4, <2>5, <2>6 DEF StackOK
  <2>8. \A j \in 1 .. n : stack'[j].method # m
    <3>1. \A j \in 1 .. n : stack[j].method \in active
      BY <2>2 DEF StackOK
    <3> QED
      BY <2>1, <2>6, <3>1
  <2>9. \A j, k \in DOMAIN stack' : stack'[j].method = stack'[k].method => j = k
    BY <2>2, <2>4, <2>5, <2>6, <2>8 DEF StackOK
  <2>10. active' = {stack'[j].method : j \in DOMAIN stack'}
    <3>1. \A x \in active' : \E j \in DOMAIN stack' : x = stack'[j].method
      <4> SUFFICES ASSUME NEW x \in active'
                   PROVE  \E j \in DOMAIN stack' : x = stack'[j].method
        OBVIOUS
      <4>1. CASE x = m
        BY <2>2, <2>4, <2>5, <4>1
      <4>2. CASE x \in active
        <5>1. PICK j \in 1 .. n : x = stack[j].method
          BY <2>2, <4>2 DEF StackOK
        <5> QED
          BY <2>2, <2>5, <2>6, <5>1
      <4> QED
        BY <2>1, <4>1, <4>2
    <3>2. \A j \in DOMAIN stack' : stack'[j].method \in active'
      <4>1. \A j \in 1 .. n : stack[j].method \in active
        BY <2>2 DEF StackOK
      <4> QED
        BY <2>1, <2>2, <2>4, <2>5, <2>6, <4>1
    <3> QED
      BY <3>1, <3>2
  <2> QED
    BY <2>5, <2>7, <2>9, <2>10 DEF StackOK
<1>5. CASE Return
  <2> DEFINE n == Len(stack)
  <2>1. /\ stack # <<>> /\ stack' = SubSeq(stack, 1, n - 1)
        /\ active' = active \ {Top.method}
    BY <1>5 DEF Return
  <2>2. n \in Nat \ {0} /\ DOMAIN stack = 1 .. n
    BY <2>1 DEF StackOK
  <2>3. /\ stack' \in Seq(FrameSet) /\ DOMAIN stack' = 1 .. (n - 1)
        /\ \A j \in 1 .. (n - 1) : stack'[j] = stack[j]
    BY <2>1, <2>2 DEF StackOK
  <2>4. active' = {stack'[j].method : j \in DOMAIN stack'}
    <3>1. \A x \in active' : \E j \in DOMAIN stack' : x = stack'[j].method
      <4> SUFFICES ASSUME NEW x \in active'
                   PROVE  \E j \in DOMAIN stack' : x = stack'[j].method
        OBVIOUS
      <4>1. PICK j \in 1 .. n : x = stack[j].method
        BY <2>1, <2>2 DEF StackOK
      <4>2. j # n
        BY <2>1, <4>1 DEF Top
      <4>3. j \in 1 .. (n - 1)
        <5>1. n \in Nat /\ j \in 1 .. n /\ j # n
          BY <2>2, <4>2
        <5> HIDE DEF n
        <5> QED
          BY <5>1
      <4>4. j \in DOMAIN stack' /\ stack'[j] = stack[j]
        BY <2>3, <4>3
      <4> QED
        BY <4>1, <4>4
    <3>2. \A j \in DOMAIN stack' : stack'[j].method \in active'
      <4> SUFFICES ASSUME NEW j \in 1 .. (n - 1)
                   PROVE  stack[j].method \in active'
        BY <2>3
      <4>1. stack[j].method \in active
        BY <2>2 DEF StackOK
      <4>2. stack[j].method # Top.method
        BY <2>2 DEF StackOK, Top
      <4> QED
        BY <2>1, <4>1, <4>2
    <3> QED
      BY <3>1, <3>2
  <2>5. \A j \in DOMAIN stack' : stack'[j].left = MaxDepth + 1 - j
    BY <2>2, <2>3 DEF StackOK
  <2>6. \A j, k \in DOMAIN stack' : stack'[j].method = stack'[k].method => j = k
    BY <2>2, <2>3 DEF StackOK
  <2> QED
    BY <2>3, <2>4, <2>5, <2>6 DEF StackOK
<1> QED
  BY <1>1, <1>2, <1>3, <1>4, <1>5
  DEF Next, vars, collection, replay, InClassInitialisers, MeetConstructor, FieldsCollected,
      CollectEffects, StartWalk, Use, Pass, EndWalk, Terminated

LEMMA StepRest ==
  ASSUME StackOK, RestOK, [Next]_vars
  PROVE  RestOK'
<1>1. CASE UNCHANGED vars
  BY <1>1 DEF RestOK, vars, collection, replay, Body
<1>2. CASE InClassInitialisers
  <2>1. program.in_class \in [Field -> Known]
    BY DEF RestOK, Program
  <2> QED
    BY <1>2, <2>1 DEF RestOK, InClassInitialisers, replay, Body
<1>3. CASE MeetConstructor
  <2> DEFINE next == program.constructors[met + 1]
  <2>1. met + 1 \in 1 .. Len(program.constructors)
    BY <1>3 DEF MeetConstructor, RestOK, Program
  <2>2. next.inits \in [Field -> Known]
    <3>1. program.constructors \in Seq([inside : BOOLEAN, inits : [Field -> Known]])
      BY DEF RestOK, Program
    <3>2. next \in [inside : BOOLEAN, inits : [Field -> Known]]
      BY <2>1, <3>1, ElementOfSeq
    <3> HIDE DEF next
    <3> QED
      BY <3>2
  <2>3. class_fields' \in [Field -> Known]
    BY <1>3, <2>2 DEF MeetConstructor, RestOK
  <2> QED
    BY <1>3, <2>1, <2>3 DEF RestOK, MeetConstructor, replay, Body
<1>4. CASE FieldsCollected
  BY <1>4 DEF RestOK, FieldsCollected, collection, replay, Body
<1>5. ASSUME NEW m \in Method, CollectEffects(m)
      PROVE  RestOK'
  <2>1. PICK s \in EventOrders(m) : effects' = [effects EXCEPT ![m] = s]
    BY <1>5 DEF CollectEffects
  <2>2. /\ s \in Seq(Nat)
        /\ \A j \in DOMAIN s : s[j] \in DOMAIN Body(m) /\ IsEvent(Body(m)[s[j]])
    BY OrdersType DEF RestOK
  <2>3. /\ effects' \in [Method -> Seq(Nat)]
        /\ \A n \in Method : effects'[n] = IF n = m THEN s ELSE effects[n]
    BY <2>1, <2>2 DEF RestOK
  <2>4. \A n \in Method : \A j \in DOMAIN effects'[n] :
          effects'[n][j] \in DOMAIN Body(n) /\ IsEvent(Body(n)[effects'[n][j]])
    BY <2>2, <2>3 DEF RestOK
  <2> QED
    BY <1>5, <2>3, <2>4 DEF RestOK, CollectEffects, replay, Body
<1>6. CASE StartWalk
  BY <1>6 DEF RestOK, StartWalk, collection, Body
<1>7. CASE Use
  <2>1. Here.field \in Field
    BY <1>7, ItemType DEF Use, Walking, Here, RestOK
  <2>2. Reported(Here.field) \in Value
    BY <2>1, ConstantsOK DEF Reported, RestOK, Known
  <2> QED
    BY <1>7, <2>2 DEF RestOK, Use, collection, replay, Body
<1>8. CASE StartReplay \/ Pass
  BY <1>8 DEF RestOK, StartReplay, Pass, collection, replay, Body
<1>9. CASE EndWalk
  BY <1>9 DEF RestOK, EndWalk, collection, replay, Body
<1>10. CASE Mutate
  <2>1. state' = [state EXCEPT ![Event.field] = Assigned(Event)] /\ Replaying
    BY <1>10 DEF Mutate
  <2>2. state' \in [Field -> Known]
    BY <2>1, EventType DEF RestOK, Known
  <2> QED
    BY <1>10, <2>2 DEF RestOK, Mutate, collection, Body
<1>11. CASE Descend \/ Cut \/ Return
  BY <1>11 DEF RestOK, Descend, Cut, Return, collection, Body
<1> QED
  BY <1>1, <1>2, <1>3, <1>4, <1>5, <1>6, <1>7, <1>8, <1>9, <1>10, <1>11
  DEF Next, Terminated

\* For every class, every order of the hash map and of the sort: the set that
\* keeps replay_method_effects from entering a method twice is the set of the
\* methods on its stack, no method is there twice and the depth counts them,
\* so the recursion is no deeper than the limit and than the class has methods.
THEOREM TypeCorrect == Spec => []TypeOK
<1>1. Init => StackOK /\ RestOK
  BY InitTyped
<1>2. (StackOK /\ RestOK) /\ [Next]_vars => (StackOK /\ RestOK)'
  BY StepStack, StepRest
<1>3. StackOK /\ RestOK => TypeOK
  BY TypeSplits
<1> QED
  BY <1>1, <1>2, <1>3, PTL DEF Spec

(***************************************************************************)
(* Nothing is invented.                                                    *)
(***************************************************************************)
\* The value of f is what construction left or what a method in S assigns.
From(S, f) ==
  state[f] # class_fields[f] =>
    \E m \in S : \E p \in DOMAIN Body(m) :
      /\ IsMutation(Body(m)[p]) /\ Body(m)[p].field = f
      /\ state[f] = Assigned(Body(m)[p])

\* The strengthening: what is on the stack was called by name as well.
Sourced ==
  /\ phase # "walk" => stack = <<>>
  /\ phase = "walk" =>
       \A S \in SUBSET Method : CalledByName(S) =>
         /\ \A j \in DOMAIN stack : stack[j].method \in S
         /\ \A f \in Field : From(S, f)

LEMMA StepSourced ==
  ASSUME StackOK, RestOK, Sourced, [Next]_vars
  PROVE  Sourced'
<1>1. CASE UNCHANGED vars
  <2>1. /\ UNCHANGED <<program, walked, class_fields, state, stack, phase>>
        /\ \A m : Body(m)' = Body(m)
    BY <1>1 DEF vars, collection, replay, Body
  <2>2. \A S : CalledByName(S)' <=> CalledByName(S)
    BY <2>1 DEF CalledByName, Entry
  <2>3. \A S, f : From(S, f)' <=> From(S, f)
    BY <2>1 DEF From, Assigned
  <2> QED
    BY <2>1, <2>2, <2>3 DEF Sourced
<1>2. CASE phase # "walk" /\ phase' # "walk" /\ UNCHANGED stack
  BY <1>2 DEF Sourced
<1>3. CASE StartWalk
  BY <1>3 DEF Sourced, StartWalk, From, collection
<1>4. CASE EndWalk
  BY <1>4 DEF Sourced, EndWalk, replay
<1>5. ASSUME phase = "walk", phase' = "walk", UNCHANGED <<program, walked, class_fields>>,
             ASSUME NEW S \in SUBSET Method, CalledByName(S),
                    \A j \in DOMAIN stack : stack[j].method \in S,
                    \A f \in Field : From(S, f)
             PROVE  /\ \A j \in DOMAIN stack' : stack'[j].method \in S
                    /\ \A f \in Field : From(S, f)'
      PROVE  Sourced'
  <2>1. \A S : CalledByName(S)' <=> CalledByName(S)
    BY <1>5 DEF CalledByName, Body, Entry
  <2> QED
    BY <1>5, <2>1 DEF Sourced
<1> DEFINE Kept(S) == \A f \in Field : From(S, f)
<1>6. ASSUME UNCHANGED <<program, class_fields, state>>, NEW S
      PROVE  Kept(S)' <=> Kept(S)
  BY <1>6 DEF From, Body, Assigned
<1>7. CASE Use \/ Pass
  <2>1. /\ phase = "walk" /\ phase' = "walk"
        /\ UNCHANGED <<program, walked, class_fields, state, stack>>
    BY <1>7 DEF Use, Pass, Walking, collection, replay
  <2> QED
    BY <1>5, <1>6, <2>1
<1>8. CASE StartReplay
  <2>1. /\ phase = "walk" /\ phase' = "walk" /\ UNCHANGED <<program, walked, class_fields, state>>
        /\ stack' = <<Frame(Entry(Here), MaxDepth)>>
        /\ at \in DOMAIN Body(walked) /\ IsClassCall(Here)
    BY <1>8 DEF StartReplay, Walking, collection
  <2>2. \A S : CalledByName(S) => Entry(Here) \in S
    BY <2>1 DEF CalledByName, Here
  <2>3. \A j \in DOMAIN stack' : stack'[j].method = Entry(Here)
    BY <2>1 DEF Frame
  <2> QED
    BY <1>5, <1>6, <2>1, <2>2, <2>3
<1>9. ASSUME Replaying
      PROVE  phase = "walk" /\ Top.method \in {stack[j].method : j \in DOMAIN stack}
  BY <1>9, EventType DEF Sourced, Replaying, Top
<1>10. CASE Mutate
  <2>1. /\ Replaying /\ phase = "walk" /\ phase' = "walk" /\ stack' = Advanced
        /\ UNCHANGED <<program, walked, class_fields>>
        /\ IsMutation(Event)
        /\ state' = [state EXCEPT ![Event.field] = Assigned(Event)]
    BY <1>9, <1>10 DEF Mutate, collection
  <2> SUFFICES ASSUME NEW S \in SUBSET Method, CalledByName(S),
                      \A j \in DOMAIN stack : stack[j].method \in S,
                      \A f \in Field : From(S, f)
               PROVE  /\ \A j \in DOMAIN stack' : stack'[j].method \in S
                      /\ \A f \in Field : From(S, f)'
    BY <1>5, <2>1
  <2>2. \A j \in DOMAIN stack' : stack'[j].method \in S
    BY <2>1, AdvancedOK
  <2>3. ASSUME NEW f \in Field
        PROVE  From(S, f)'
    <3>1. CASE f = Event.field
      <4> PICK m \in S : \E q \in DOMAIN Body(m) : Event = Body(m)[q]
        BY <1>9, <2>1, EventType DEF Event
      <4>1. PICK q \in DOMAIN Body(m) : Event = Body(m)[q]
        OBVIOUS
      <4>2. state'[f] = Assigned(Body(m)[q])
        BY <2>1, <3>1, <4>1 DEF RestOK
      <4>3. Body(m)' = Body(m) /\ Assigned(Body(m)[q])' = Assigned(Body(m)[q])
        BY <2>1 DEF Body, Assigned
      <4>4. IsMutation(Body(m)[q]) /\ Body(m)[q].field = f
        BY <2>1, <3>1, <4>1
      <4> QED
        BY <4>2, <4>3, <4>4 DEF From, IsMutation
    <3>2. CASE f # Event.field
      <4>1. state'[f] = state[f]
        BY <2>1, <3>2 DEF RestOK
      <4>2. \A m, q : Body(m)' = Body(m) /\ Assigned(Body(m)[q])' = Assigned(Body(m)[q])
        BY <2>1 DEF Body, Assigned
      <4>3. From(S, f) /\ class_fields'[f] = class_fields[f]
        BY <2>1
      <4> QED
        BY <4>1, <4>2, <4>3 DEF From
    <3> QED
      BY <3>1, <3>2
  <2> QED
    BY <2>2, <2>3
<1>11. CASE Cut
  <2>1. /\ Replaying /\ phase = "walk" /\ phase' = "walk" /\ stack' = Advanced
        /\ UNCHANGED <<program, walked, class_fields, state>>
    BY <1>9, <1>11 DEF Cut, collection
  <2>2. DOMAIN stack' = DOMAIN stack /\ \A j \in DOMAIN stack : stack'[j].method = stack[j].method
    BY <2>1, AdvancedOK
  <2> QED
    BY <1>5, <1>6, <2>1, <2>2
<1>12. CASE Descend
  <2> DEFINE new == Frame(Entry(Event), Top.left - 1)
  <2>1. /\ Replaying /\ phase = "walk" /\ phase' = "walk" /\ stack' = Append(Advanced, new)
        /\ UNCHANGED <<program, walked, class_fields, state>>
        /\ ~IsMutation(Event)
    BY <1>9, <1>12 DEF Descend, collection
  <2> SUFFICES ASSUME NEW S \in SUBSET Method, CalledByName(S),
                      \A j \in DOMAIN stack : stack[j].method \in S
               PROVE  \A j \in DOMAIN stack' : stack'[j].method \in S
    BY <1>5, <1>6, <2>1
  <2>2. Top.method \in S
    BY <1>9, <2>1
  <2>3. Entry(Event) \in S
    BY <2>1, <2>2, EventType DEF CalledByName, Event
  <2>4. /\ Len(stack) \in Nat /\ DOMAIN stack = 1 .. Len(stack)
        /\ Advanced \in Seq(FrameSet) /\ Len(Advanced) = Len(stack)
    BY <2>1, AdvancedOK DEF StackOK
  <2>5. /\ DOMAIN stack' = 1 .. (Len(stack) + 1)
        /\ \A j \in 1 .. Len(stack) : stack'[j] = Advanced[j]
        /\ stack'[Len(stack) + 1] = new
    BY <2>1, <2>4
  <2>6. new.method = Entry(Event)
    BY DEF Frame
  <2> QED
    BY <2>1, <2>3, <2>4, <2>5, <2>6, AdvancedOK
<1>13. CASE Return
  <2>1. /\ stack # <<>> /\ stack' = SubSeq(stack, 1, Len(stack) - 1)
        /\ UNCHANGED <<program, walked, class_fields, state, phase>>
    BY <1>13 DEF Return, collection
  <2>2. phase = "walk"
    BY <2>1 DEF Sourced
  <2>3. /\ DOMAIN stack' \subseteq DOMAIN stack
        /\ \A j \in DOMAIN stack' : stack'[j] = stack[j]
    BY <2>1 DEF StackOK
  <2> QED
    BY <1>5, <1>6, <2>1, <2>2, <2>3
<1> QED
  BY <1>1, <1>2, <1>3, <1>4, <1>7, <1>8, <1>10, <1>11, <1>12, <1>13
  DEF Next, Terminated, InClassInitialisers, MeetConstructor, FieldsCollected, CollectEffects,
      replay, vars

\* For every class and every depth, with recursion, overloads and calls on
\* other objects: a value the map holds is what construction left, or what an
\* assignment to that field gives in a method called by name.
THEOREM ReplayInventsNothing == Spec => []NothingInvented
<1>1. Init => Sourced
  BY DEF Init, Sourced
<1>2. StackOK /\ RestOK /\ Sourced /\ [Next]_vars => Sourced'
  BY StepSourced
<1>3. Sourced => NothingInvented
  BY DEF Sourced, NothingInvented, From
<1>4. TypeOK => StackOK /\ RestOK
  BY TypeSplits
<1> QED
  BY <1>1, <1>2, <1>3, <1>4, TypeCorrect, PTL DEF Spec-----------------------------------------------------------------------------
(* Recursive functions.  The library's theorems about them take an operator  *)
(* for a parameter; here the step of the recursion is a function.            *)

\* Every set of natural numbers that is not empty has a least element.
LEMMA LeastNat ==
  ASSUME NEW T, T \subseteq Nat, T # {}
  PROVE  \E m \in T : \A k \in T : m <= k
<1> DEFINE R == OpToRel(<, Nat)
<1>1. IsWellFoundedOn(R, Nat)
  BY NatLessThanWellFounded
<1>2. \A x, y \in Nat : x < y => <<x, y>> \in R
  BY DEF OpToRel
<1> HIDE DEF R
<1>3. PICK x \in T : \A y \in T : ~ (<<y, x>> \in R)
  BY <1>1, WFMin
<1>4. ASSUME NEW k \in T PROVE x <= k
  <2>1. k \in Nat /\ x \in Nat
    OBVIOUS
  <2>2. ~(k < x)
    BY <1>2, <1>3, <2>1
  <2> QED BY <2>1, <2>2
<1> QED BY <1>4

IsRecursion(f, base, step, n) == f[0] = base /\ \A k \in 1 .. n : f[k] = step[k][f[k - 1]]

LEMMA RecursionExists ==
  ASSUME NEW X, NEW base \in X, NEW n \in Nat, NEW step \in [1 .. n -> [X -> X]]
  PROVE  \E f \in [0 .. n -> X] : IsRecursion(f, base, step, n)
<1> DEFINE T == {m \in Nat : m <= n /\ ~ \E f \in [0 .. m -> X] : IsRecursion(f, base, step, m)}
<1> SUFFICES ASSUME T # {} PROVE FALSE
  <2>1. n \notin T
    OBVIOUS
  <2> QED BY <2>1
<1>1. PICK m \in T : \A j \in T : m <= j
  BY LeastNat
<1>2. CASE m = 0
  <2> DEFINE g == [k \in 0 .. 0 |-> base]
  <2>1. g \in [0 .. 0 -> X] /\ IsRecursion(g, base, step, 0)
    BY DEF IsRecursion
  <2> QED BY <1>2, <2>1
<1>3. CASE m # 0
  <2>1. m \in 1 .. n /\ m - 1 \in 0 .. n /\ m - 1 \notin T
    BY <1>1, <1>3
  <2>2. PICK g \in [0 .. m - 1 -> X] : IsRecursion(g, base, step, m - 1)
    BY <2>1
  <2> DEFINE h == [k \in 0 .. m |-> IF k = m THEN step[m][g[m - 1]] ELSE g[k]]
  <2>3. step[m] \in [X -> X] /\ g[m - 1] \in X
    BY <2>1
  <2>4. h \in [0 .. m -> X]
    BY <2>1, <2>3
  <2>5. h[0] = base
    <3>1. h[0] = g[0]
      BY <1>3, <2>1
    <3> QED BY <2>2, <3>1, Zenon DEF IsRecursion
  <2>6. ASSUME NEW k \in 1 .. m PROVE h[k] = step[k][h[k - 1]]
    <3>1. h[k - 1] = g[k - 1]
      BY <2>1
    <3>2. CASE k = m
      BY <2>1, <3>1, <3>2
    <3>3. CASE k # m
      <4>1. k \in 1 .. m - 1 /\ h[k] = g[k]
        BY <2>1, <3>3
      <4>2. g[k] = step[k][g[k - 1]]
        BY <2>2, <4>1, Zenon DEF IsRecursion
      <4> QED BY <3>1, <4>1, <4>2, Zenon
    <3> QED BY <3>2, <3>3
  <2> HIDE DEF h
  <2>7. IsRecursion(h, base, step, m)
    BY <2>5, <2>6, Zenon DEF IsRecursion
  <2> QED BY <1>1, <2>4, <2>7
<1> QED BY <1>2, <1>3

-----------------------------------------------------------------------------
(* Execution, for one program.                                             *)

TurnOf(prog, m, n) == prog.body[m][CHOOSE p \in DOMAIN prog.body[m] : prog.body[m][p].turn = n]

AfterOf(prog, m, s, inner) ==
  LET after[n \in 0 .. Len(prog.body[m])] ==
        IF n = 0 THEN s ELSE Turn(TurnOf(prog, m, n), after[n - 1], inner)
  IN  after

ExecutionOf(prog) ==
  LET calls[d \in 0 .. MaxDepth] ==
        IF d = 0 THEN [m \in Method |-> [s \in State |-> s]]
        ELSE [m \in Method |-> [s \in State |->
               AfterOf(prog, m, s, calls[d - 1])[Len(prog.body[m])]]]
  IN  calls

CalledOf(prog, m) ==
  {prog.body[m][p].method : p \in {q \in DOMAIN prog.body[m] : IsOwnCall(prog.body[m][q])}}

LevelOf(prog, w) ==
  LET level[k \in 0 .. (MaxDepth + 1)] ==
        IF k = 0 THEN {w} ELSE UNION {CalledOf(prog, m) : m \in level[k - 1]}
  IN  level

LEMMA ExecutionIsOf ==
  /\ \A m, s, inner : After(m, s, inner) = AfterOf(program, m, s, inner)
  /\ Execution = ExecutionOf(program)
  /\ Level = LevelOf(program, walked)
<1>1. \A m, s, inner : After(m, s, inner) = AfterOf(program, m, s, inner)
  BY DEF After, AfterOf, TurnOf, AtTurn, Body
<1>2. Execution = ExecutionOf(program)
  BY DEF Execution, ExecutionOf, After, AfterOf, TurnOf, AtTurn, Body
<1>3. Level = LevelOf(program, walked)
  BY DEF Level, LevelOf, Called, CalledOf, Body
<1> QED BY <1>1, <1>2, <1>3

\* What a call may do to the fields.
Effects == [Method -> [State -> State]]

LEMMA ProgramTyped ==
  ASSUME NEW prog \in Programs, NEW m \in Method
  PROVE  /\ prog.body[m] \in Seq(Item)
         /\ Len(prog.body[m]) \in Nat /\ DOMAIN prog.body[m] = 1 .. Len(prog.body[m])
         /\ \A p \in DOMAIN prog.body[m] :
              /\ prog.body[m][p] \in Item
              /\ prog.body[m][p].field \in Field /\ prog.body[m][p].from \in Field
              /\ prog.body[m][p].value \in Value /\ prog.body[m][p].method \in Method
              /\ prog.body[m][p].kind \in Kind
<1>1. prog \in Program
  BY ProgramsOK
<1>2. prog.body[m] \in Seq(Item)
  BY <1>1 DEF Program
<1>3. \A p \in DOMAIN prog.body[m] : prog.body[m][p] \in Item
  BY <1>2
<1> QED BY <1>2, <1>3 DEF Item

LEMMA TurnTyped ==
  ASSUME NEW prog \in Programs, NEW m \in Method, NEW n \in 1 .. Len(prog.body[m]),
         NEW s \in State, NEW inner \in Effects
  PROVE  Turn(TurnOf(prog, m, n), s, inner) \in State
<1> DEFINE p == CHOOSE p \in DOMAIN prog.body[m] : prog.body[m][p].turn = n
<1>1. p \in DOMAIN prog.body[m]
  <2>1. n \in DOMAIN prog.body[m]
    BY ProgramTyped
  <2>2. \E q \in DOMAIN prog.body[m] : prog.body[m][q].turn = n
    BY <2>1, ProgramsOK
  <2> QED BY <2>2, Zenon
<1> DEFINE it == prog.body[m][p]
<1>2. it \in Item /\ it.field \in Field /\ it.from \in Field /\ it.value \in Value /\ it.method \in Method
  BY <1>1, ProgramTyped
<1>3. TurnOf(prog, m, n) = it
  BY DEF TurnOf
<1> HIDE DEF it
<1>4. Turn(it, s, inner) \in State
  <2>1. inner[it.method][s] \in State
    BY <1>2 DEF Effects
  <2>2. Shown(s[it.from]) \in Known
    BY <1>2, ConstantsOK DEF Shown, State, Known
  <2>3. [s EXCEPT ![it.field] = it.value] \in State /\ [s EXCEPT ![it.field] = Shown(s[it.from])] \in State
    BY <1>2, <2>2 DEF State, Known
  <2> QED BY <2>1, <2>3 DEF Turn
<1> QED BY <1>3, <1>4

LEMMA AfterIs ==
  ASSUME NEW prog \in Programs, NEW m \in Method, NEW s \in State, NEW inner \in Effects
  PROVE  /\ AfterOf(prog, m, s, inner) \in [0 .. Len(prog.body[m]) -> State]
         /\ AfterOf(prog, m, s, inner)[0] = s
         /\ \A n \in 1 .. Len(prog.body[m]) :
              AfterOf(prog, m, s, inner)[n] = Turn(TurnOf(prog, m, n), AfterOf(prog, m, s, inner)[n - 1], inner)
<1> DEFINE L == Len(prog.body[m])
           step == [n \in 1 .. L |-> [t \in State |-> Turn(TurnOf(prog, m, n), t, inner)]]
<1>1. L \in Nat
  BY ProgramTyped
<1>2. step \in [1 .. L -> [State -> State]]
  BY TurnTyped
<1>3. \A n \in 1 .. L : \A t \in State : step[n][t] = Turn(TurnOf(prog, m, n), t, inner)
  OBVIOUS
<1> HIDE DEF step, L
<1>4. PICK f \in [0 .. L -> State] : IsRecursion(f, s, step, L)
  BY <1>1, <1>2, RecursionExists
<1>5. ASSUME NEW n \in 1 .. L
      PROVE  f[n] = Turn(TurnOf(prog, m, n), f[n - 1], inner)
  <2>1. f[n] = step[n][f[n - 1]]
    BY <1>4, Zenon DEF IsRecursion
  <2>2. f[n - 1] \in State
    BY <1>1, <1>4
  <2> QED BY <1>3, <2>1, <2>2
<1>6. f[0] = s
  BY <1>4, Zenon DEF IsRecursion
<1>7. f = [n \in 0 .. L |-> IF n = 0 THEN s ELSE Turn(TurnOf(prog, m, n), f[n - 1], inner)]
  <2>1. f = [n \in 0 .. L |-> f[n]]
    OBVIOUS
  <2>2. \A n \in 0 .. L : f[n] = IF n = 0 THEN s ELSE Turn(TurnOf(prog, m, n), f[n - 1], inner)
    <3> SUFFICES ASSUME NEW n \in 0 .. L
                 PROVE  f[n] = IF n = 0 THEN s ELSE Turn(TurnOf(prog, m, n), f[n - 1], inner)
      OBVIOUS
    <3>1. n # 0 => n \in 1 .. L
      BY <1>1
    <3> QED BY <1>5, <1>6, <3>1
  <2> QED BY <2>1, <2>2
<1> DEFINE A == AfterOf(prog, m, s, inner)
<1>8. \E g : g = [n \in 0 .. L |-> IF n = 0 THEN s ELSE Turn(TurnOf(prog, m, n), g[n - 1], inner)]
  BY <1>7, Zenon
<1>9. A = [n \in 0 .. L |-> IF n = 0 THEN s ELSE Turn(TurnOf(prog, m, n), A[n - 1], inner)]
  BY <1>8, Zenon DEF AfterOf, L
<1> HIDE DEF A
<1>10. \A n \in 1 .. L : A[n] = Turn(TurnOf(prog, m, n), A[n - 1], inner)
  <2> SUFFICES ASSUME NEW n \in 1 .. L PROVE A[n] = Turn(TurnOf(prog, m, n), A[n - 1], inner)
    OBVIOUS
  <2>1. n \in 0 .. L /\ n # 0
    BY <1>1
  <2> QED BY <1>9, <2>1, Zenon
<1>11. A[0] = s
  <2>1. 0 \in 0 .. L
    BY <1>1
  <2> QED BY <1>9, <2>1, Zenon
<1>12. \A n \in 0 .. L : A[n] = f[n]
  <2> DEFINE T == {n \in Nat : n <= L /\ A[n] # f[n]}
  <2> SUFFICES ASSUME T # {} PROVE FALSE
    BY <1>1
  <2>1. PICK n \in T : \A j \in T : n <= j
    BY LeastNat
  <2>2. n # 0
    BY <1>6, <1>11, <2>1
  <2>3. n \in 1 .. L /\ n - 1 \in 0 .. L /\ n - 1 \notin T
    BY <1>1, <2>1, <2>2
  <2>4. A[n - 1] = f[n - 1]
    BY <2>3
  <2> QED BY <1>5, <1>10, <2>1, <2>3, <2>4
<1>13. A \in [0 .. L -> State]
  <2>1. \A n \in 0 .. L : A[n] \in State
    BY <1>4, <1>12
  <2>2. A = [n \in 0 .. L |-> A[n]]
    <3> DEFINE B(n) == IF n = 0 THEN s ELSE Turn(TurnOf(prog, m, n), A[n - 1], inner)
    <3>1. A = [n \in 0 .. L |-> B(n)]
      BY <1>9
    <3> HIDE DEF B
    <3> QED BY <3>1
  <2> QED BY <2>1, <2>2
<1> QED BY <1>10, <1>11, <1>13 DEF A, L

LEMMA ExecutionIs ==
  ASSUME NEW prog \in Programs
  PROVE  /\ ExecutionOf(prog) \in [0 .. MaxDepth -> Effects]
         /\ \A m \in Method, s \in State : ExecutionOf(prog)[0][m][s] = s
         /\ \A d \in 1 .. MaxDepth, m \in Method, s \in State :
              ExecutionOf(prog)[d][m][s]
                = AfterOf(prog, m, s, ExecutionOf(prog)[d - 1])[Len(prog.body[m])]
<1> DEFINE once(x) == [m \in Method |-> [s \in State |-> AfterOf(prog, m, s, x)[Len(prog.body[m])]]]
           base == [m \in Method |-> [s \in State |-> s]]
           step == [d \in 1 .. MaxDepth |-> [x \in Effects |-> once(x)]]
           E == ExecutionOf(prog)
<1>1. MaxDepth \in Nat
  BY ConstantsOK
<1>2. base \in Effects
  BY DEF Effects
<1>3. ASSUME NEW x \in Effects PROVE once(x) \in Effects
  <2>1. \A m \in Method, s \in State : AfterOf(prog, m, s, x)[Len(prog.body[m])] \in State
    BY <1>3, AfterIs, ProgramTyped
  <2> QED BY <2>1 DEF Effects
<1>4. \A x, m, s : m \in Method /\ s \in State => once(x)[m][s] = AfterOf(prog, m, s, x)[Len(prog.body[m])]
  OBVIOUS
<1>5. \A m \in Method, s \in State : base[m][s] = s
  OBVIOUS
<1>7. (\E g : g = [d \in 0 .. MaxDepth |-> IF d = 0 THEN base ELSE once(g[d - 1])])
         => E = [d \in 0 .. MaxDepth |-> IF d = 0 THEN base ELSE once(E[d - 1])]
  BY Zenon DEF ExecutionOf
<1> HIDE DEF base, once, E
<1>8. step \in [1 .. MaxDepth -> [Effects -> Effects]]
  BY <1>3
<1>9. \A d \in 1 .. MaxDepth : \A x \in Effects : step[d][x] = once(x)
  OBVIOUS
<1> HIDE DEF step
<1>10. PICK f \in [0 .. MaxDepth -> Effects] : IsRecursion(f, base, step, MaxDepth)
  BY <1>1, <1>2, <1>8, RecursionExists
<1>11. ASSUME NEW d \in 1 .. MaxDepth
       PROVE  f[d] = once(f[d - 1])
  <2>1. f[d] = step[d][f[d - 1]]
    BY <1>10, Zenon DEF IsRecursion
  <2>2. f[d - 1] \in Effects
    BY <1>1, <1>10
  <2> QED BY <1>9, <2>1, <2>2
<1>12. f[0] = base
  BY <1>10, Zenon DEF IsRecursion
<1>13. f = [d \in 0 .. MaxDepth |-> IF d = 0 THEN base ELSE once(f[d - 1])]
  <2>1. f = [d \in 0 .. MaxDepth |-> f[d]]
    OBVIOUS
  <2>2. ASSUME NEW d \in 0 .. MaxDepth PROVE f[d] = IF d = 0 THEN base ELSE once(f[d - 1])
    <3>1. d # 0 => d \in 1 .. MaxDepth
      BY <1>1
    <3> QED BY <1>11, <1>12, <3>1
  <2> QED BY <2>1, <2>2
<1>14. E = [d \in 0 .. MaxDepth |-> IF d = 0 THEN base ELSE once(E[d - 1])]
  BY <1>7, <1>13, Zenon
<1>15. ASSUME NEW d \in 1 .. MaxDepth PROVE E[d] = once(E[d - 1])
  <2>1. d \in 0 .. MaxDepth /\ d # 0
    BY <1>1
  <2> QED BY <1>14, <2>1, Zenon
<1>16. E[0] = base
  <2>1. 0 \in 0 .. MaxDepth
    BY <1>1
  <2> QED BY <1>14, <2>1, Zenon
<1>17. \A d \in 0 .. MaxDepth : E[d] = f[d]
  <2> DEFINE T == {d \in Nat : d <= MaxDepth /\ E[d] # f[d]}
  <2> SUFFICES ASSUME T # {} PROVE FALSE
    BY <1>1
  <2>1. PICK d \in T : \A j \in T : d <= j
    BY LeastNat
  <2>2. d # 0
    BY <1>12, <1>16, <2>1
  <2>3. d \in 1 .. MaxDepth /\ d - 1 \in Nat /\ d - 1 <= MaxDepth /\ d - 1 \notin T
    BY <1>1, <2>1, <2>2
  <2>4. E[d - 1] = f[d - 1]
    BY <2>3
  <2> QED BY <1>11, <1>15, <2>1, <2>3, <2>4
<1>18. E \in [0 .. MaxDepth -> Effects]
  <2>1. \A d \in 0 .. MaxDepth : E[d] \in Effects
    BY <1>10, <1>17
  <2>2. E = [d \in 0 .. MaxDepth |-> E[d]]
    <3> DEFINE B(d) == IF d = 0 THEN base ELSE once(E[d - 1])
    <3>1. E = [d \in 0 .. MaxDepth |-> B(d)]
      BY <1>14
    <3> HIDE DEF B
    <3> QED BY <3>1
  <2> QED BY <2>1, <2>2
<1>19. \A m \in Method, s \in State : E[0][m][s] = s
  BY <1>5, <1>16
<1>20. \A d \in 1 .. MaxDepth, m \in Method, s \in State :
         E[d][m][s] = AfterOf(prog, m, s, E[d - 1])[Len(prog.body[m])]
  BY <1>4, <1>15
<1> QED BY <1>18, <1>19, <1>20 DEF E

LEMMA LevelIs ==
  ASSUME NEW prog \in Programs, NEW w \in Method
  PROVE  /\ LevelOf(prog, w) \in [0 .. (MaxDepth + 1) -> SUBSET Method]
         /\ LevelOf(prog, w)[0] = {w}
         /\ \A k \in 1 .. (MaxDepth + 1) :
              LevelOf(prog, w)[k] = UNION {CalledOf(prog, m) : m \in LevelOf(prog, w)[k - 1]}
<1> DEFINE n == MaxDepth + 1
           next(S) == UNION {CalledOf(prog, m) : m \in S}
           base == {w}
           step == [k \in 1 .. n |-> [S \in SUBSET Method |-> next(S)]]
           V == LevelOf(prog, w)
<1>1. n \in Nat
  BY ConstantsOK
<1>2. base \in SUBSET Method
  OBVIOUS
<1>3. ASSUME NEW S \in SUBSET Method PROVE next(S) \in SUBSET Method
  <2>1. \A m \in Method : CalledOf(prog, m) \subseteq Method
    BY ProgramTyped DEF CalledOf
  <2> QED BY <1>3, <2>1
<1>4. (\E g : g = [k \in 0 .. n |-> IF k = 0 THEN base ELSE next(g[k - 1])])
         => V = [k \in 0 .. n |-> IF k = 0 THEN base ELSE next(V[k - 1])]
  BY Zenon DEF LevelOf
<1>5. \A k : next(V[k - 1]) = UNION {CalledOf(prog, m) : m \in V[k - 1]}
  OBVIOUS
<1> HIDE DEF next, base, V, n
<1>6. step \in [1 .. n -> [SUBSET Method -> SUBSET Method]]
  BY <1>3
<1>7. \A k \in 1 .. n : \A S \in SUBSET Method : step[k][S] = next(S)
  OBVIOUS
<1> HIDE DEF step
<1>8. PICK f \in [0 .. n -> SUBSET Method] : IsRecursion(f, base, step, n)
  BY <1>1, <1>2, <1>6, RecursionExists
<1>9. ASSUME NEW k \in 1 .. n
      PROVE  f[k] = next(f[k - 1])
  <2>1. f[k] = step[k][f[k - 1]]
    BY <1>8, Zenon DEF IsRecursion
  <2>2. f[k - 1] \in SUBSET Method
    BY <1>1, <1>8
  <2> QED BY <1>7, <2>1, <2>2
<1>10. f[0] = base
  BY <1>8, Zenon DEF IsRecursion
<1>11. f = [k \in 0 .. n |-> IF k = 0 THEN base ELSE next(f[k - 1])]
  <2>1. f = [k \in 0 .. n |-> f[k]]
    OBVIOUS
  <2>2. ASSUME NEW k \in 0 .. n PROVE f[k] = IF k = 0 THEN base ELSE next(f[k - 1])
    <3>1. k # 0 => k \in 1 .. n
      BY <1>1
    <3> QED BY <1>9, <1>10, <3>1
  <2> QED BY <2>1, <2>2
<1>12. V = [k \in 0 .. n |-> IF k = 0 THEN base ELSE next(V[k - 1])]
  BY <1>4, <1>11, Zenon
<1>13. ASSUME NEW k \in 1 .. n PROVE V[k] = next(V[k - 1])
  <2>1. k \in 0 .. n /\ k # 0
    BY <1>1
  <2> QED BY <1>12, <2>1, Zenon
<1>14. V[0] = base
  <2>1. 0 \in 0 .. n
    BY <1>1
  <2> QED BY <1>12, <2>1, Zenon
<1>15. \A k \in 0 .. n : V[k] = f[k]
  <2> DEFINE T == {k \in Nat : k <= n /\ V[k] # f[k]}
  <2> SUFFICES ASSUME T # {} PROVE FALSE
    BY <1>1
  <2>1. PICK k \in T : \A j \in T : k <= j
    BY LeastNat
  <2>2. k # 0
    BY <1>10, <1>14, <2>1
  <2>3. k \in 1 .. n /\ k - 1 \in Nat /\ k - 1 <= n /\ k - 1 \notin T
    BY <1>1, <2>1, <2>2
  <2>4. V[k - 1] = f[k - 1]
    BY <2>3
  <2> QED BY <1>9, <1>13, <2>1, <2>3, <2>4
<1>16. V \in [0 .. n -> SUBSET Method]
  <2>1. \A k \in 0 .. n : V[k] \in SUBSET Method
    BY <1>8, <1>15
  <2>2. V = [k \in 0 .. n |-> V[k]]
    <3> DEFINE B(k) == IF k = 0 THEN base ELSE next(V[k - 1])
    <3>1. V = [k \in 0 .. n |-> B(k)]
      BY <1>12
    <3> HIDE DEF B
    <3> QED BY <3>1
  <2> QED BY <2>1, <2>2
<1>17. \A k \in 1 .. n : V[k] = UNION {CalledOf(prog, m) : m \in V[k - 1]}
  BY <1>5, <1>13
<1> QED BY <1>14, <1>16, <1>17 DEF V, n, base

-----------------------------------------------------------------------------
(* Programs the replay can follow.                                         *)

EnteredOf(prog, w) == UNION {LevelOf(prog, w)[k] : k \in 0 .. MaxDepth}

ChangesOf(prog, m) ==
  {prog.body[m][p].field : p \in {q \in DOMAIN prog.body[m] : IsMutation(prog.body[m][q])}}

FollowableIn(prog, w) ==
  /\ LevelOf(prog, w)[MaxDepth + 1] = {}
  /\ \A m \in EnteredOf(prog, w) : \A p \in DOMAIN prog.body[m] :
       LET it == prog.body[m][p]
       IN  /\ IsOwnCall(it) => prog.plain[it.method] = it.method
           /\ it.kind = "copy" => \A n \in EnteredOf(prog, w) : it.from \notin ChangesOf(prog, n)
           /\ it.kind = "this_call" => m = w
           /\ it.kind = "other_call" => m # w
           /\ it.turn = p
           /\ \A q \in DOMAIN prog.body[m] : p < q => it.line < prog.body[m][q].line

LEMMA FollowableIs == Followable <=> FollowableIn(program, walked)
<1>1. Entered = EnteredOf(program, walked)
  BY ExecutionIsOf DEF Entered, EnteredOf
<1>2. Level = LevelOf(program, walked)
  BY ExecutionIsOf
<1> QED BY <1>1, <1>2 DEF Followable, FollowableIn, Changes, ChangesOf, Body

\* A call leads one level down, and there is no level below the last.
LEMMA CallsDescend ==
  ASSUME NEW prog \in Programs, NEW w \in Method, FollowableIn(prog, w),
         NEW k \in 0 .. MaxDepth, NEW m \in LevelOf(prog, w)[k], NEW n \in CalledOf(prog, m)
  PROVE  k + 1 \in 0 .. MaxDepth /\ n \in LevelOf(prog, w)[k + 1]
<1>1. MaxDepth \in Nat /\ k + 1 \in 1 .. (MaxDepth + 1) /\ (k + 1) - 1 = k
  BY ConstantsOK
<1>2. n \in LevelOf(prog, w)[k + 1]
  <2>1. LevelOf(prog, w)[k + 1] = UNION {CalledOf(prog, x) : x \in LevelOf(prog, w)[k]}
    BY <1>1, LevelIs
  <2> QED BY <2>1
<1>3. k + 1 # MaxDepth + 1
  BY <1>2 DEF FollowableIn
<1> QED BY <1>1, <1>2, <1>3

LEMMA EnteredTyped ==
  ASSUME NEW prog \in Programs, NEW w \in Method
  PROVE  EnteredOf(prog, w) \subseteq Method /\ w \in EnteredOf(prog, w)
<1>1. MaxDepth \in Nat
  BY ConstantsOK
<1>2. \A k \in 0 .. MaxDepth : k \in 0 .. (MaxDepth + 1)
  BY <1>1
<1>3. \A k \in 0 .. MaxDepth : LevelOf(prog, w)[k] \subseteq Method
  BY <1>2, LevelIs
<1>4. w \in LevelOf(prog, w)[0] /\ 0 \in 0 .. MaxDepth
  BY <1>1, LevelIs
<1> QED BY <1>3, <1>4 DEF EnteredOf

\* The deepest level at which a method is entered.
IsDeepest(prog, w, m, k) ==
  /\ k \in 0 .. MaxDepth
  /\ m \in LevelOf(prog, w)[k]
  /\ \A j \in 0 .. MaxDepth : m \in LevelOf(prog, w)[j] => j <= k

Deep(prog, w, m) == CHOOSE k : IsDeepest(prog, w, m, k)

LEMMA DeepIs ==
  ASSUME NEW prog \in Programs, NEW w \in Method, NEW m \in EnteredOf(prog, w)
  PROVE  IsDeepest(prog, w, m, Deep(prog, w, m))
<1> DEFINE T == {j \in Nat : j <= MaxDepth /\ m \in LevelOf(prog, w)[MaxDepth - j]}
<1>1. MaxDepth \in Nat
  BY ConstantsOK
<1>2. \A k \in 0 .. MaxDepth : m \in LevelOf(prog, w)[k] => MaxDepth - k \in T
  <2> SUFFICES ASSUME NEW k \in 0 .. MaxDepth, m \in LevelOf(prog, w)[k] PROVE MaxDepth - k \in T
    OBVIOUS
  <2>1. MaxDepth - k \in Nat /\ MaxDepth - k <= MaxDepth /\ MaxDepth - (MaxDepth - k) = k
    BY <1>1
  <2> QED BY <2>1
<1>3. T # {}
  BY <1>2 DEF EnteredOf
<1>4. PICK j \in T : \A i \in T : j <= i
  <2>1. T \subseteq Nat
    OBVIOUS
  <2> HIDE DEF T
  <2> QED BY <1>3, <2>1, LeastNat
<1>5. MaxDepth - j \in 0 .. MaxDepth /\ m \in LevelOf(prog, w)[MaxDepth - j]
  BY <1>1
<1>6. \A k \in 0 .. MaxDepth : m \in LevelOf(prog, w)[k] => k <= MaxDepth - j
  <2> SUFFICES ASSUME NEW k \in 0 .. MaxDepth, m \in LevelOf(prog, w)[k] PROVE k <= MaxDepth - j
    OBVIOUS
  <2>1. j <= MaxDepth - k
    BY <1>2, <1>4
  <2> QED BY <1>1, <2>1
<1>7. IsDeepest(prog, w, m, MaxDepth - j)
  BY <1>5, <1>6 DEF IsDeepest
<1> QED BY <1>7, Zenon DEF Deep

\* No method calls one that has been entered on the way to it.
LEMMA CallsGoDeeper ==
  ASSUME NEW prog \in Programs, NEW w \in Method, FollowableIn(prog, w),
         NEW m \in EnteredOf(prog, w), NEW n \in CalledOf(prog, m)
  PROVE  n \in EnteredOf(prog, w) /\ Deep(prog, w, m) < Deep(prog, w, n)
<1> DEFINE k == Deep(prog, w, m)
<1>1. k \in 0 .. MaxDepth /\ m \in LevelOf(prog, w)[k]
  BY DeepIs DEF IsDeepest
<1>2. k + 1 \in 0 .. MaxDepth /\ n \in LevelOf(prog, w)[k + 1]
  BY <1>1, CallsDescend
<1>3. n \in EnteredOf(prog, w)
  BY <1>2 DEF EnteredOf
<1>4. IsDeepest(prog, w, n, Deep(prog, w, n))
  BY <1>3, DeepIs
<1>5. k + 1 <= Deep(prog, w, n) /\ Deep(prog, w, n) \in 0 .. MaxDepth
  BY <1>2, <1>4 DEF IsDeepest
<1> QED BY <1>1, <1>3, <1>5, ConstantsOK

\* Execution takes the items in the order they are written in.
LEMMA TurnsAreInOrder ==
  ASSUME NEW prog \in Programs, NEW w \in Method, FollowableIn(prog, w),
         NEW m \in EnteredOf(prog, w), NEW n \in DOMAIN prog.body[m]
  PROVE  TurnOf(prog, m, n) = prog.body[m][n]
<1>1. \A p \in DOMAIN prog.body[m] : prog.body[m][p].turn = p
  BY DEF FollowableIn
<1>2. (CHOOSE p \in DOMAIN prog.body[m] : prog.body[m][p].turn = n) = n
  BY <1>1
<1> QED BY <1>2 DEF TurnOf

\* What is executed in turn n of a method that is entered.
LEMMA AfterTurn ==
  ASSUME NEW prog \in Programs, NEW w \in Method, FollowableIn(prog, w),
         NEW m \in EnteredOf(prog, w), NEW n \in DOMAIN prog.body[m],
         NEW s \in State, NEW inner \in Effects
  PROVE  /\ n - 1 \in 0 .. Len(prog.body[m])
         /\ AfterOf(prog, m, s, inner)[n - 1] \in State
         /\ AfterOf(prog, m, s, inner)[n]
              = Turn(prog.body[m][n], AfterOf(prog, m, s, inner)[n - 1], inner)
<1>1. m \in Method
  BY EnteredTyped
<1>2. n \in 1 .. Len(prog.body[m]) /\ Len(prog.body[m]) \in Nat
  BY <1>1, ProgramTyped
<1>3. n - 1 \in 0 .. Len(prog.body[m])
  BY <1>2
<1>4. AfterOf(prog, m, s, inner)[n] = Turn(TurnOf(prog, m, n), AfterOf(prog, m, s, inner)[n - 1], inner)
  BY <1>1, <1>2, AfterIs
<1>5. AfterOf(prog, m, s, inner)[n - 1] \in State
  BY <1>1, <1>3, AfterIs
<1> QED BY <1>3, <1>4, <1>5, TurnsAreInOrder

\* The three things a turn can be.
LEMMA TurnIs ==
  ASSUME NEW it, NEW s \in State, NEW inner
  PROVE  /\ IsOwnCall(it) => Turn(it, s, inner) = inner[it.method][s]
         /\ ~IsOwnCall(it) /\ ~IsMutation(it) => Turn(it, s, inner) = s
         /\ it.kind = "write" => Turn(it, s, inner) = [s EXCEPT ![it.field] = it.value]
         /\ it.kind = "copy" => Turn(it, s, inner) = [s EXCEPT ![it.field] = Shown(s[it.from])]
         /\ IsMutation(it) => ~IsOwnCall(it)
         /\ IsMutation(it) => \A f \in Field : f # it.field => Turn(it, s, inner)[f] = s[f]
<1>1. IsMutation(it) => ~IsOwnCall(it)
  BY DEF IsMutation, IsOwnCall
<1>2. IsOwnCall(it) => Turn(it, s, inner) = inner[it.method][s]
  BY DEF Turn, IsOwnCall
<1>3. it.kind = "write" => Turn(it, s, inner) = [s EXCEPT ![it.field] = it.value]
  BY DEF Turn, IsOwnCall
<1>4. it.kind = "copy" => Turn(it, s, inner) = [s EXCEPT ![it.field] = Shown(s[it.from])]
  BY DEF Turn, IsOwnCall
<1>5. ~IsOwnCall(it) /\ ~IsMutation(it) => Turn(it, s, inner) = s
  BY DEF Turn, IsOwnCall, IsMutation
<1>6. IsMutation(it) => \A f \in Field : f # it.field => Turn(it, s, inner)[f] = s[f]
  BY <1>3, <1>4 DEF IsMutation, State
<1> QED BY <1>1, <1>2, <1>3, <1>4, <1>5, <1>6

Executes(it, before, after, inner) ==
  /\ before \in State
  /\ IsOwnCall(it) => after = inner[it.method][before]
  /\ ~IsOwnCall(it) /\ ~IsMutation(it) => after = before
  /\ it.kind = "write" => after = [before EXCEPT ![it.field] = it.value]
  /\ it.kind = "copy" => after = [before EXCEPT ![it.field] = Shown(before[it.from])]
  /\ IsMutation(it) => \A f \in Field : f # it.field => after[f] = before[f]

LEMMA AfterExecutes ==
  ASSUME NEW prog \in Programs, NEW w \in Method, FollowableIn(prog, w),
         NEW m \in EnteredOf(prog, w), NEW n \in DOMAIN prog.body[m],
         NEW s \in State, NEW inner \in Effects
  PROVE  Executes(prog.body[m][n], AfterOf(prog, m, s, inner)[n - 1], AfterOf(prog, m, s, inner)[n], inner)
<1> DEFINE it     == prog.body[m][n]
           before == AfterOf(prog, m, s, inner)[n - 1]
           after  == AfterOf(prog, m, s, inner)[n]
<1>1. before \in State /\ after = Turn(it, before, inner)
  BY AfterTurn
<1> HIDE DEF it, before, after
<1>2. Executes(it, before, after, inner)
  BY <1>1, TurnIs DEF Executes
<1> QED BY <1>2 DEF it, before, after

-----------------------------------------------------------------------------
(* A field that no method entered changes keeps its value.                 *)

Untouched(prog, w) == {f \in Field : \A n \in EnteredOf(prog, w) : f \notin ChangesOf(prog, n)}

Keeps(prog, w, inner) ==
  \A n \in EnteredOf(prog, w), s \in State, f \in Untouched(prog, w) : inner[n][s][f] = s[f]

LEMMA AfterKeeps ==
  ASSUME NEW prog \in Programs, NEW w \in Method, FollowableIn(prog, w),
         NEW m \in EnteredOf(prog, w), NEW s \in State,
         NEW inner \in Effects, Keeps(prog, w, inner),
         NEW f \in Untouched(prog, w), NEW n \in 0 .. Len(prog.body[m])
  PROVE  AfterOf(prog, m, s, inner)[n][f] = s[f]
<1> DEFINE L == Len(prog.body[m])
           A == AfterOf(prog, m, s, inner)
           T == {k \in Nat : k <= L /\ A[k][f] # s[f]}
<1>1. m \in Method
  BY EnteredTyped
<1>2. L \in Nat /\ DOMAIN prog.body[m] = 1 .. L
  BY <1>1, ProgramTyped
<1> SUFFICES ASSUME T # {} PROVE FALSE
  BY <1>2
<1>3. PICK k \in T : \A i \in T : k <= i
  <2>1. T \subseteq Nat
    OBVIOUS
  <2> HIDE DEF T
  <2> QED BY <2>1, LeastNat
<1>4. k # 0
  BY <1>1, <1>3, AfterIs
<1>5. k \in 1 .. L /\ k - 1 \in Nat /\ k - 1 <= L /\ k - 1 \notin T
  BY <1>2, <1>3, <1>4
<1>6. A[k - 1][f] = s[f]
  BY <1>5
<1> DEFINE it == prog.body[m][k]
<1>7. k \in DOMAIN prog.body[m] /\ Executes(it, A[k - 1], A[k], inner)
  <2>1. k \in DOMAIN prog.body[m]
    BY <1>2, <1>5
  <2> QED BY <2>1, AfterExecutes
<1>8. f \in Field /\ \A x \in EnteredOf(prog, w) : f \notin ChangesOf(prog, x)
  BY DEF Untouched
<1>9. CASE IsMutation(it)
  <2>1. it.field \in ChangesOf(prog, m)
    BY <1>2, <1>5, <1>9 DEF ChangesOf
  <2>2. it.field # f
    BY <1>8, <2>1
  <2>3. A[k][f] = A[k - 1][f]
    BY <1>7, <1>8, <1>9, <2>2 DEF Executes
  <2> QED BY <1>3, <1>6, <2>3
<1>10. CASE IsOwnCall(it)
  <2>1. it.method \in CalledOf(prog, m)
    BY <1>2, <1>5, <1>10 DEF CalledOf
  <2>2. it.method \in EnteredOf(prog, w)
    BY <2>1, CallsGoDeeper
  <2>3. A[k] = inner[it.method][A[k - 1]]
    BY <1>7, <1>10 DEF Executes
  <2>4. A[k - 1] \in State
    BY <1>7 DEF Executes
  <2>5. \A x \in EnteredOf(prog, w), t \in State : inner[x][t][f] = t[f]
    BY DEF Keeps
  <2>6. A[k][f] = A[k - 1][f]
    <3> HIDE DEF A, it
    <3> QED BY <2>2, <2>3, <2>4, <2>5
  <2> QED BY <1>3, <1>6, <2>6
<1>11. CASE ~IsOwnCall(it) /\ ~IsMutation(it)
  <2>1. A[k] = A[k - 1]
    BY <1>7, <1>11 DEF Executes
  <2> QED BY <1>3, <1>6, <2>1
<1> QED BY <1>9, <1>10, <1>11

LEMMA ExecutionKeeps ==
  ASSUME NEW prog \in Programs, NEW w \in Method, FollowableIn(prog, w), NEW d \in 0 .. MaxDepth
  PROVE  Keeps(prog, w, ExecutionOf(prog)[d])
<1> DEFINE E == ExecutionOf(prog)
           T == {k \in Nat : k <= MaxDepth /\ ~Keeps(prog, w, E[k])}
<1> SUFFICES ASSUME T # {} PROVE FALSE
  BY ConstantsOK
<1>1. PICK k \in T : \A i \in T : k <= i
  <2>1. T \subseteq Nat
    OBVIOUS
  <2> HIDE DEF T
  <2> QED BY <2>1, LeastNat
<1>2. \A n \in EnteredOf(prog, w) : n \in Method
  BY EnteredTyped
<1>3. k # 0
  <2>1. \A n \in Method, s \in State : E[0][n][s] = s
    BY ExecutionIs
  <2>2. Keeps(prog, w, E[0])
    BY <1>2, <2>1 DEF Keeps
  <2> QED BY <1>1, <2>2
<1>4. k \in 1 .. MaxDepth /\ k - 1 \in 0 .. MaxDepth /\ k - 1 \notin T
  BY <1>1, <1>3, ConstantsOK
<1>5. Keeps(prog, w, E[k - 1]) /\ E[k - 1] \in Effects
  <2>1. E[k - 1] \in Effects
    BY <1>4, ExecutionIs
  <2>2. k - 1 \in Nat /\ k - 1 <= MaxDepth
    BY <1>4, ConstantsOK
  <2> QED BY <1>4, <2>1, <2>2
<1>6. ASSUME NEW n \in EnteredOf(prog, w), NEW s \in State, NEW f \in Untouched(prog, w)
      PROVE  E[k][n][s][f] = s[f]
  <2>1. E[k][n][s] = AfterOf(prog, n, s, E[k - 1])[Len(prog.body[n])]
    BY <1>2, <1>4, ExecutionIs
  <2>2. Len(prog.body[n]) \in 0 .. Len(prog.body[n])
    BY <1>2, ProgramTyped
  <2>3. AfterOf(prog, n, s, E[k - 1])[Len(prog.body[n])][f] = s[f]
    BY <1>5, <2>2, AfterKeeps
  <2> QED BY <2>1, <2>3
<1>7. Keeps(prog, w, E[k])
  BY <1>6 DEF Keeps
<1> QED BY <1>1, <1>7

-----------------------------------------------------------------------------
(* The events of a method other than the one walked, in sorted order.      *)

EventsOf(prog, m) == {p \in DOMAIN prog.body[m] : IsEvent(prog.body[m][p])}

EventOrdersOf(prog, m) ==
  {s \in [1 .. Cardinality(EventsOf(prog, m)) -> EventsOf(prog, m)] :
     \A j, k \in DOMAIN s : j < k =>
       s[j] # s[k] /\ prog.body[m][s[j]].line <= prog.body[m][s[k]].line}

LEMMA EventOrdersIs == \A m : EventOrders(m) = EventOrdersOf(program, m)
  BY DEF EventOrders, EventOrdersOf, EventsOf, Body

\* Between two events there is nothing that changes a field.
LEMMA SkipLeaves ==
  ASSUME NEW prog \in Programs, NEW w \in Method, FollowableIn(prog, w),
         NEW m \in EnteredOf(prog, w), m # w, NEW s \in State, NEW inner \in Effects,
         NEW a \in 0 .. Len(prog.body[m]), NEW b \in a .. Len(prog.body[m]),
         \A p \in (a + 1) .. b : p \notin EventsOf(prog, m)
  PROVE  AfterOf(prog, m, s, inner)[b] = AfterOf(prog, m, s, inner)[a]
<1> DEFINE L == Len(prog.body[m])
           A == AfterOf(prog, m, s, inner)
           T == {k \in Nat : a <= k /\ k <= b /\ A[k] # A[a]}
<1>1. L \in Nat /\ DOMAIN prog.body[m] = 1 .. L
  BY EnteredTyped, ProgramTyped
<1> SUFFICES ASSUME T # {} PROVE FALSE
  BY <1>1
<1>2. PICK k \in T : \A i \in T : k <= i
  <2>1. T \subseteq Nat
    OBVIOUS
  <2> HIDE DEF T
  <2> QED BY <2>1, LeastNat
<1>3. k # a
  BY <1>2
<1>4. k \in (a + 1) .. b /\ k \in 1 .. L /\ k - 1 \in Nat /\ a <= k - 1 /\ k - 1 <= b /\ k - 1 \notin T
  BY <1>1, <1>2, <1>3
<1>5. A[k - 1] = A[a]
  BY <1>4
<1>6. k \in DOMAIN prog.body[m]
  BY <1>1, <1>4
<1>7. ~IsEvent(prog.body[m][k])
  BY <1>4, <1>6 DEF EventsOf
<1>8. prog.body[m][k].kind # "this_call"
  BY <1>6 DEF FollowableIn
<1>9. ~IsOwnCall(prog.body[m][k]) /\ ~IsMutation(prog.body[m][k])
  BY <1>7, <1>8 DEF IsEvent, IsOwnCall
<1>10. A[k] = A[k - 1]
  <2>1. Executes(prog.body[m][k], A[k - 1], A[k], inner)
    BY <1>6, AfterExecutes
  <2> QED BY <1>9, <2>1 DEF Executes
<1> QED BY <1>2, <1>5, <1>10

\* Sorted events stand in the order of the body, and none is left out.
LEMMA OrdersAreComplete ==
  ASSUME NEW prog \in Programs, NEW m \in Method, NEW s \in EventOrdersOf(prog, m)
  PROVE  /\ s \in Seq(Nat) /\ Len(s) \in Nat /\ DOMAIN s = 1 .. Len(s)
         /\ \A j \in DOMAIN s : s[j] \in EventsOf(prog, m)
         /\ \A p \in EventsOf(prog, m) : \E j \in DOMAIN s : s[j] = p
<1> DEFINE events == EventsOf(prog, m)
           n == Cardinality(events)
<1>1. events \subseteq 1 .. Len(prog.body[m]) /\ Len(prog.body[m]) \in Nat
  BY ProgramTyped DEF EventsOf
<1>2. IsFiniteSet(events)
  <2>1. IsFiniteSet(1 .. Len(prog.body[m]))
    BY <1>1, FS_Interval
  <2> QED BY <1>1, <2>1, FS_Subset
<1>3. n \in Nat
  BY <1>2, FS_CardinalityType
<1>4. s \in [1 .. n -> events]
  BY DEF EventOrdersOf
<1>5. \A j, k \in 1 .. n : j < k => s[j] # s[k]
  BY <1>4 DEF EventOrdersOf
<1> HIDE DEF events
<1>6. s \in Injection(1 .. n, events)
  <2>1. \A j, k \in 1 .. n : s[j] = s[k] => j = k
    <3> SUFFICES ASSUME NEW j \in 1 .. n, NEW k \in 1 .. n, s[j] = s[k], j # k PROVE FALSE
      OBVIOUS
    <3>1. j < k \/ k < j
      BY <1>3
    <3> QED BY <1>5, <3>1
  <2> QED BY <1>4, <2>1 DEF Injection, IsInjective
<1>7. Cardinality(1 .. n) = n
  BY <1>3, FS_Interval
<1>8. s \in Surjection(1 .. n, events)
  <2>1. Cardinality(1 .. n) = Cardinality(events)
    BY <1>7
  <2> HIDE DEF n
  <2> QED BY <1>2, <1>6, <2>1, FS_Injection
<1>9. \A p \in events : \E j \in 1 .. n : s[j] = p
  BY <1>8 DEF Surjection
<1>10. events \subseteq Nat
  BY <1>1
<1> HIDE DEF n
<1>11. s \in Seq(Nat) /\ Len(s) \in Nat /\ DOMAIN s = 1 .. Len(s) /\ DOMAIN s = 1 .. n
  <2>1. s \in [1 .. n -> Nat]
    BY <1>4, <1>10
  <2>2. s \in Seq(Nat)
    BY <1>3, <2>1, SeqDef
  <2> QED BY <2>1, <2>2
<1> QED BY <1>4, <1>9, <1>11 DEF events

LEMMA OrdersAscend ==
  ASSUME NEW prog \in Programs, NEW w \in Method, FollowableIn(prog, w),
         NEW m \in EnteredOf(prog, w), NEW s \in EventOrdersOf(prog, m)
  PROVE  \A j, k \in DOMAIN s : j < k => s[j] < s[k]
<1> SUFFICES ASSUME NEW j \in DOMAIN s, NEW k \in DOMAIN s, j < k PROVE s[j] < s[k]
  OBVIOUS
<1>1. m \in Method
  BY EnteredTyped
<1>2. s[j] \in EventsOf(prog, m) /\ s[k] \in EventsOf(prog, m)
  BY <1>1, OrdersAreComplete
<1>3. s[j] \in DOMAIN prog.body[m] /\ s[k] \in DOMAIN prog.body[m]
  BY <1>2 DEF EventsOf
<1>4. s[j] \in Nat /\ s[k] \in Nat
  BY <1>1, <1>3, ProgramTyped
<1>5. s[j] # s[k] /\ prog.body[m][s[j]].line <= prog.body[m][s[k]].line
  BY DEF EventOrdersOf
<1>6. \A p, q \in DOMAIN prog.body[m] : p < q => prog.body[m][p].line < prog.body[m][q].line
  BY DEF FollowableIn
<1>7. \A p \in DOMAIN prog.body[m] : prog.body[m][p].line \in Nat
  BY <1>1, ProgramTyped DEF Item
<1>8. ~(s[k] < s[j])
  <2>1. s[k] < s[j] => prog.body[m][s[k]].line < prog.body[m][s[j]].line
    BY <1>3, <1>6
  <2>2. prog.body[m][s[k]].line \in Nat /\ prog.body[m][s[j]].line \in Nat
    BY <1>3, <1>7
  <2> QED BY <1>5, <2>1, <2>2
<1> QED BY <1>4, <1>5, <1>8

\* The turns that are over when the event at place x is the next.
Done(s, x, last) == IF x \in DOMAIN s THEN s[x] - 1 ELSE last

\* A replay goes from event to event as execution goes from turn to turn.
LEMMA EventByEvent ==
  ASSUME NEW prog \in Programs, NEW w \in Method, FollowableIn(prog, w),
         NEW m \in EnteredOf(prog, w), m # w, NEW s \in EventOrdersOf(prog, m),
         NEW st \in State, NEW inner \in Effects
  PROVE  LET last == Len(prog.body[m])
             fields == AfterOf(prog, m, st, inner)
         IN  /\ fields[Done(s, 1, last)] = st
             /\ \A x \in DOMAIN s : fields[Done(s, x + 1, last)] = fields[s[x]]
<1> DEFINE last == Len(prog.body[m])
           A == AfterOf(prog, m, st, inner)
<1>1. m \in Method
  BY EnteredTyped
<1>2. last \in Nat /\ DOMAIN prog.body[m] = 1 .. last
  BY <1>1, ProgramTyped
<1>3. /\ Len(s) \in Nat /\ DOMAIN s = 1 .. Len(s)
      /\ \A j \in DOMAIN s : s[j] \in EventsOf(prog, m)
      /\ \A p \in EventsOf(prog, m) : \E j \in DOMAIN s : s[j] = p
  BY <1>1, OrdersAreComplete
<1>4. \A j \in DOMAIN s : s[j] \in 1 .. last
  BY <1>2, <1>3 DEF EventsOf
<1>5. \A j, k \in DOMAIN s : j < k => s[j] < s[k]
  BY OrdersAscend
<1> HIDE DEF last
<1>6. ASSUME NEW x \in Nat, x <= Len(s), NEW a \in 0 .. last,
             \A j \in DOMAIN s : j <= x => s[j] <= a,
             x \in DOMAIN s => a = s[x], x = 0 => a = 0
      PROVE  A[Done(s, x + 1, last)] = A[a]
  <2> DEFINE b == Done(s, x + 1, last)
  <2>1. b \in a .. last
    <3>1. CASE x + 1 \in DOMAIN s
      <4>1. s[x + 1] \in 1 .. last
        BY <1>4, <3>1
      <4>2. a < s[x + 1]
        <5>1. CASE x = 0
          BY <1>6, <4>1, <5>1
        <5>2. CASE x # 0
          <6>1. x \in DOMAIN s
            BY <1>3, <1>6, <5>2
          <6> QED BY <1>5, <1>6, <3>1, <6>1
        <5> QED BY <5>1, <5>2
      <4> QED BY <1>2, <1>6, <3>1, <4>1, <4>2 DEF Done
    <3>2. CASE x + 1 \notin DOMAIN s
      BY <1>2, <1>6, <3>2 DEF Done
    <3> QED BY <3>1, <3>2
  <2>2. \A p \in (a + 1) .. b : p \notin EventsOf(prog, m)
    <3> SUFFICES ASSUME NEW p \in (a + 1) .. b, p \in EventsOf(prog, m) PROVE FALSE
      OBVIOUS
    <3>1. PICK j \in DOMAIN s : s[j] = p
      BY <1>3
    <3>2. j \in Nat /\ ~(j <= x)
      <4>1. p \in Nat /\ a < p
        BY <1>6, <2>1
      <4> QED BY <1>3, <1>6, <3>1, <4>1
    <3>3. x + 1 \in DOMAIN s
      BY <1>3, <3>2
    <3>4. s[x + 1] <= s[j] /\ s[x + 1] \in 1 .. last
      <4>1. j = x + 1 \/ x + 1 < j
        BY <3>2
      <4>2. s[j] \in 1 .. last /\ s[x + 1] \in 1 .. last
        BY <1>4, <3>3
      <4>3. x + 1 < j => s[x + 1] < s[j]
        BY <1>5, <3>3
      <4> QED BY <1>2, <4>1, <4>2, <4>3
    <3>5. b = s[x + 1] - 1
      BY <3>3 DEF Done
    <3>6. p <= b /\ p \in Nat
      BY <1>6, <2>1
    <3> QED BY <1>2, <3>1, <3>4, <3>5, <3>6
  <2> HIDE DEF b
  <2> QED BY <1>6, <2>1, <2>2, SkipLeaves DEF b, last
<1>7. A[Done(s, 1, last)] = st
  <2>1. 0 \in 0 .. last /\ 0 <= Len(s)
    BY <1>2, <1>3
  <2>2. \A j \in DOMAIN s : ~(j <= 0)
    BY <1>3
  <2>3. 0 \notin DOMAIN s /\ 0 + 1 = 1
    BY <1>3
  <2>4. A[Done(s, 0 + 1, last)] = A[0]
    <3> HIDE DEF A
    <3> QED BY <1>6, <2>1, <2>2, <2>3
  <2>5. A[0] = st
    BY <1>1, AfterIs
  <2> QED BY <2>3, <2>4, <2>5
<1>8. ASSUME NEW x \in DOMAIN s PROVE A[Done(s, x + 1, last)] = A[s[x]]
  <2>1. x \in Nat /\ x <= Len(s) /\ x # 0
    BY <1>3
  <2>2. s[x] \in 0 .. last
    BY <1>2, <1>4
  <2>3. \A j \in DOMAIN s : j <= x => s[j] <= s[x]
    <3> SUFFICES ASSUME NEW j \in DOMAIN s, j <= x PROVE s[j] <= s[x]
      OBVIOUS
    <3>1. j = x \/ j < x
      BY <1>3, <2>1
    <3>2. s[j] \in 1 .. last
      BY <1>4
    <3> QED BY <1>2, <1>5, <2>2, <3>1, <3>2
  <2> HIDE DEF A
  <2> QED BY <1>6, <2>1, <2>2, <2>3
<1> QED BY <1>7, <1>8 DEF last

\* A call of a method without events changes nothing.
LEMMA CallWithoutEvents ==
  ASSUME NEW prog \in Programs, NEW w \in Method, FollowableIn(prog, w),
         NEW m \in EnteredOf(prog, w), m # w, <<>> \in EventOrdersOf(prog, m),
         NEW d \in 1 .. MaxDepth, NEW s \in State
  PROVE  ExecutionOf(prog)[d][m][s] = s
<1> DEFINE inner == ExecutionOf(prog)[d - 1]
           last == Len(prog.body[m])
<1>1. m \in Method /\ d - 1 \in 0 .. MaxDepth
  BY EnteredTyped, ConstantsOK
<1>2. inner \in Effects
  BY <1>1, ExecutionIs
<1>3. ExecutionOf(prog)[d][m][s] = AfterOf(prog, m, s, inner)[last]
  BY <1>1, ExecutionIs
<1>4. AfterOf(prog, m, s, inner)[Done(<<>>, 1, last)] = s
  BY <1>2, EventByEvent
<1>5. Done(<<>>, 1, last) = last
  BY DEF Done
<1> QED BY <1>3, <1>4, <1>5

(***************************************************************************)
(* The replay of a walk and the execution of the method walked.            *)
(***************************************************************************)
OrdersOK ==
  /\ program \in Programs
  /\ \A m \in Method : m \notin uncollected => effects[m] \in EventOrdersOf(program, m)
  /\ phase \in {"walk", "done"} => uncollected = {}

\* A field never loses its value.
NothingLost ==
  phase = "walk" => \A f \in Field : state[f] = NoValue => class_fields[f] = NoValue

\* The item at which the method of frame j has called that of the next frame.
Place(j) == effects[stack[j].method][stack[j].next - 1]

DeepOf(m) == Deep(program, walked, m)

\* The stack is a chain of calls that leads down from the method walked.
ChainOK ==
  /\ stack # <<>> => /\ at - 1 \in DOMAIN Body(walked)
                     /\ IsOwnCall(Body(walked)[at - 1])
                     /\ Body(walked)[at - 1].method = stack[1].method
  /\ \A j \in 1 .. (Len(stack) - 1) :
       /\ stack[j].next - 1 \in DOMAIN effects[stack[j].method]
       /\ IsOwnCall(Body(stack[j].method)[Place(j)])
       /\ Body(stack[j].method)[Place(j)].method = stack[j + 1].method

DepthOK ==
  /\ \A j \in DOMAIN stack : /\ stack[j].method \in LevelOf(program, walked)[j]
                             /\ DeepOf(walked) < DeepOf(stack[j].method)
  /\ \A j, k \in DOMAIN stack : j < k => DeepOf(stack[j].method) < DeepOf(stack[k].method)

\* The fields after each turn of the method walked, and of the method of frame
\* j when it is entered with the fields e[j].
WalkedRun == AfterOf(program, walked, class_fields, ExecutionOf(program)[MaxDepth])
Run(j, e) == AfterOf(program, stack[j].method, e[j], ExecutionOf(program)[MaxDepth - j])

\* e[j] is what execution has in the fields when it enters frame j.
EntriesOK(e) ==
  /\ e \in [DOMAIN stack -> State]
  /\ \A j \in DOMAIN stack : \A f \in Untouched(program, walked) : e[j][f] = class_fields[f]
  /\ stack # <<>> => e[1] = WalkedRun[at - 2]
  /\ \A j \in 1 .. (Len(stack) - 1) : e[j + 1] = Run(j, e)[Place(j) - 1]

\* What execution has in the fields where the replay is.
Now(e) ==
  IF stack = <<>> THEN WalkedRun[at - 1]
  ELSE Run(Len(stack), e)[Done(effects[Top.method], Top.next, Len(Body(Top.method)))]

WrittenBefore(f, p) ==
  \E q \in 1 .. (p - 1) : IsMutation(Body(walked)[q]) /\ Body(walked)[q].field = f

FieldsFollow(e) == \A f \in Field : WrittenBefore(f, at) \/ state[f] = Now(e)[f]

WalkFollows ==
  /\ at - 1 \in 0 .. Len(Body(walked))
  /\ ChainOK
  /\ DepthOK
  /\ \E e : EntriesOK(e) /\ FieldsFollow(e)

FoundOK ==
  \A u \in found :
    /\ u[1] \in DOMAIN Body(walked)
    /\ WrittenBefore(Body(walked)[u[1]].field, u[1])
         \/ u[2] = Shown(WalkedRun[u[1] - 1][Body(walked)[u[1]].field])

Follows ==
  FollowableIn(program, walked) =>
    /\ phase \notin {"walk", "done"} => at = 1 /\ found = {}
    /\ phase = "walk" => WalkFollows
    /\ FoundOK

LEMMA WalkedRunIs ==
  ASSUME OrdersOK, RestOK, FollowableIn(program, walked)
  PROVE  /\ walked \in EnteredOf(program, walked)
         /\ DOMAIN Body(walked) = 1 .. Len(Body(walked)) /\ Len(Body(walked)) \in Nat
         /\ class_fields \in State
         /\ WalkedRun \in [0 .. Len(Body(walked)) -> State]
         /\ WalkedRun[0] = class_fields
         /\ \A n \in 0 .. Len(Body(walked)) : \A f \in Untouched(program, walked) :
              WalkedRun[n][f] = class_fields[f]
         /\ \A n \in DOMAIN Body(walked) :
              Executes(Body(walked)[n], WalkedRun[n - 1], WalkedRun[n], ExecutionOf(program)[MaxDepth])
<1>1. program \in Programs /\ walked \in Method /\ class_fields \in State
  BY DEF OrdersOK, RestOK, State
<1>2. MaxDepth \in 0 .. MaxDepth
  BY ConstantsOK
<1>3. ExecutionOf(program)[MaxDepth] \in Effects
  BY <1>1, <1>2, ExecutionIs
<1>4. walked \in EnteredOf(program, walked)
  BY <1>1, EnteredTyped
<1>5. DOMAIN Body(walked) = 1 .. Len(Body(walked)) /\ Len(Body(walked)) \in Nat
  BY <1>1, ProgramTyped DEF Body
<1>6. WalkedRun \in [0 .. Len(Body(walked)) -> State] /\ WalkedRun[0] = class_fields
  BY <1>1, <1>3, AfterIs DEF WalkedRun, Body
<1>7. Keeps(program, walked, ExecutionOf(program)[MaxDepth])
  BY <1>1, <1>2, ExecutionKeeps
<1>8. \A n \in 0 .. Len(Body(walked)) : \A f \in Untouched(program, walked) : WalkedRun[n][f] = class_fields[f]
  BY <1>1, <1>3, <1>4, <1>7, AfterKeeps DEF WalkedRun, Body
<1>9. \A n \in DOMAIN Body(walked) :
        Executes(Body(walked)[n], WalkedRun[n - 1], WalkedRun[n], ExecutionOf(program)[MaxDepth])
  BY <1>1, <1>3, <1>4, AfterExecutes DEF WalkedRun, Body
<1> QED BY <1>1, <1>4, <1>5, <1>6, <1>8, <1>9

LEMMA FrameIs ==
  ASSUME OrdersOK, StackOK, RestOK, FollowableIn(program, walked), DepthOK, phase = "walk",
         NEW j \in DOMAIN stack
  PROVE  /\ j \in 1 .. MaxDepth /\ j \in 1 .. Len(stack)
         /\ stack[j] \in FrameSet
         /\ stack[j].method \in LevelOf(program, walked)[j]
         /\ stack[j].method \in EnteredOf(program, walked)
         /\ stack[j].method \in Method
         /\ stack[j].method # walked
         /\ effects[stack[j].method] \in EventOrdersOf(program, stack[j].method)
<1>1. stack[j] \in FrameSet /\ stack[j].left = MaxDepth + 1 - j /\ j \in 1 .. Len(stack)
  BY DEF StackOK
<1>2. j \in 1 .. MaxDepth
  BY <1>1, ConstantsOK DEF FrameSet
<1>3. stack[j].method \in LevelOf(program, walked)[j]
  BY DEF DepthOK
<1>4. stack[j].method \in EnteredOf(program, walked)
  <2>1. j \in 0 .. MaxDepth
    BY <1>2
  <2> QED BY <1>3, <2>1 DEF EnteredOf
<1>5. stack[j].method \in Method
  BY <1>1 DEF FrameSet
<1>6. stack[j].method # walked
  <2>1. DeepOf(walked) < DeepOf(stack[j].method)
    BY DEF DepthOK
  <2>2. DeepOf(walked) \in Nat
    <3>1. program \in Programs /\ walked \in Method
      BY DEF OrdersOK, RestOK
    <3>2. walked \in EnteredOf(program, walked)
      BY <3>1, EnteredTyped
    <3> QED BY <3>1, <3>2, DeepIs DEF IsDeepest, DeepOf
  <2> QED BY <2>1, <2>2
<1>7. effects[stack[j].method] \in EventOrdersOf(program, stack[j].method)
  BY <1>5 DEF OrdersOK
<1> QED BY <1>1, <1>2, <1>3, <1>4, <1>5, <1>6, <1>7

LEMMA RunIs ==
  ASSUME OrdersOK, StackOK, RestOK, FollowableIn(program, walked), DepthOK, phase = "walk",
         NEW e, EntriesOK(e), NEW j \in DOMAIN stack
  PROVE  LET m    == stack[j].method
             s    == effects[m]
             last == Len(Body(m))
         IN  /\ last \in Nat /\ DOMAIN Body(m) = 1 .. last
             /\ Run(j, e) \in [0 .. last -> State]
             /\ \A n \in 0 .. last : \A f \in Untouched(program, walked) : Run(j, e)[n][f] = class_fields[f]
             /\ Run(j, e)[Done(s, 1, last)] = e[j]
             /\ \A x \in DOMAIN s : Run(j, e)[Done(s, x + 1, last)] = Run(j, e)[s[x]]
             /\ \A n \in DOMAIN Body(m) :
                  Executes(Body(m)[n], Run(j, e)[n - 1], Run(j, e)[n], ExecutionOf(program)[MaxDepth - j])
             /\ Run(j, e)[last] = ExecutionOf(program)[MaxDepth - j + 1][m][e[j]]
<1> DEFINE m == stack[j].method
           inner == ExecutionOf(program)[MaxDepth - j]
<1>1. program \in Programs /\ walked \in Method
  BY DEF OrdersOK, RestOK
<1>2. m \in EnteredOf(program, walked) /\ m \in Method /\ m # walked
      /\ effects[m] \in EventOrdersOf(program, m) /\ j \in 1 .. MaxDepth
  BY FrameIs
<1>3. MaxDepth - j \in 0 .. MaxDepth /\ MaxDepth - j + 1 \in 1 .. MaxDepth
      /\ (MaxDepth - j + 1) - 1 = MaxDepth - j
  BY <1>2, ConstantsOK
<1>4. inner \in Effects /\ Keeps(program, walked, inner)
  BY <1>1, <1>3, ExecutionIs, ExecutionKeeps
<1>5. e[j] \in State /\ \A f \in Untouched(program, walked) : e[j][f] = class_fields[f]
  BY DEF EntriesOK
<1> HIDE DEF m, inner
<1> DEFINE R == AfterOf(program, m, e[j], inner)
           last == Len(program.body[m])
<1>6. last \in Nat /\ DOMAIN program.body[m] = 1 .. last
  BY <1>1, <1>2, ProgramTyped
<1>7. R \in [0 .. last -> State]
  BY <1>1, <1>2, <1>4, <1>5, AfterIs
<1>8. \A n \in 0 .. last : \A f \in Untouched(program, walked) : R[n][f] = e[j][f]
  BY <1>1, <1>2, <1>4, <1>5, AfterKeeps
<1>9. /\ R[Done(effects[m], 1, last)] = e[j]
      /\ \A x \in DOMAIN effects[m] : R[Done(effects[m], x + 1, last)] = R[effects[m][x]]
  BY <1>1, <1>2, <1>4, <1>5, EventByEvent
<1>10. \A n \in DOMAIN program.body[m] : Executes(program.body[m][n], R[n - 1], R[n], inner)
  BY <1>1, <1>2, <1>4, <1>5, AfterExecutes
<1>11. R[last] = ExecutionOf(program)[MaxDepth - j + 1][m][e[j]]
  BY <1>1, <1>2, <1>3, <1>5, ExecutionIs DEF inner
<1>12. Run(j, e) = R /\ Body(m) = program.body[m]
  BY DEF Run, Body, m, inner
<1> HIDE DEF R
<1>13. \A n \in 0 .. last : \A f \in Untouched(program, walked) : R[n][f] = class_fields[f]
  BY <1>5, <1>8
<1> QED BY <1>6, <1>7, <1>9, <1>10, <1>11, <1>12, <1>13 DEF m, inner

\* What the steps of a walk leave alone.
Framed ==
  /\ UNCHANGED <<program, walked, class_fields, effects, uncollected>>
  /\ phase = "walk" /\ phase' = "walk"

LEMMA FramedIs ==
  ASSUME Framed
  PROVE  /\ WalkedRun' = WalkedRun
         /\ \A m : Body(m)' = Body(m)
         /\ \A m : DeepOf(m)' = DeepOf(m)
         /\ \A f : at' = at => (WrittenBefore(f, at)' <=> WrittenBefore(f, at))
<1>1. WalkedRun' = WalkedRun
  BY DEF Framed, WalkedRun
<1>2. \A m : Body(m)' = Body(m)
  BY DEF Framed, Body
<1>3. \A m : DeepOf(m)' = DeepOf(m)
  BY DEF Framed, DeepOf
<1>4. \A f : at' = at => (WrittenBefore(f, at)' <=> WrittenBefore(f, at))
  BY <1>2 DEF Framed, WrittenBefore
<1> QED BY <1>1, <1>2, <1>3, <1>4

\* The walk passes an item without a replay.
LEMMA WalkOn ==
  ASSUME OrdersOK, StackOK, RestOK, FollowableIn(program, walked), WalkFollows, Framed,
         Walking, stack' = stack, at' = at + 1, state' = state,
         \A f \in Field : \/ IsMutation(Here) /\ Here.field = f
                          \/ WalkedRun[at][f] = WalkedRun[at - 1][f]
  PROVE  WalkFollows'
<1>1. at \in DOMAIN Body(walked) /\ stack = <<>>
  BY DEF Walking
<1>2. /\ DOMAIN Body(walked) = 1 .. Len(Body(walked)) /\ Len(Body(walked)) \in Nat
      /\ at \in 1 .. Len(Body(walked)) /\ at' - 1 = at
  BY <1>1, WalkedRunIs
<1>3. (at - 1 \in 0 .. Len(Body(walked)))'
  BY <1>2, FramedIs DEF Framed
<1>4. stack' = <<>> /\ DOMAIN stack' = {} /\ Len(stack') = 0
  BY <1>1
<1>5. ChainOK'
  BY <1>4 DEF ChainOK
<1>6. DepthOK'
  BY <1>4 DEF DepthOK
<1>7. PICK e : EntriesOK(e) /\ FieldsFollow(e)
  BY DEF WalkFollows
<1>8. EntriesOK(e)'
  <2>1. e \in [DOMAIN stack' -> State]
    BY <1>1, <1>7 DEF EntriesOK
  <2> QED BY <1>4, <2>1 DEF EntriesOK
<1>9. FieldsFollow(e)'
  <2> SUFFICES ASSUME NEW f \in Field, ~WrittenBefore(f, at)' PROVE state'[f] = Now(e)'[f]
    BY DEF FieldsFollow
  <2>1. ~WrittenBefore(f, at + 1)
    BY FramedIs DEF WrittenBefore, Framed
  <2>2. ~WrittenBefore(f, at) /\ ~(IsMutation(Here) /\ Here.field = f)
    <3>1. \A q \in 1 .. (at - 1) : q \in 1 .. ((at + 1) - 1)
      BY <1>2
    <3>2. at \in 1 .. ((at + 1) - 1)
      BY <1>2
    <3> QED BY <2>1, <3>1, <3>2 DEF WrittenBefore, Here
  <2>3. state[f] = WalkedRun[at - 1][f]
    BY <1>1, <1>7, <2>2 DEF FieldsFollow, Now
  <2>4. Now(e)' = WalkedRun[at]
    BY <1>2, <1>4, FramedIs DEF Now
  <2> QED BY <2>2, <2>3, <2>4
<1> QED BY <1>3, <1>5, <1>6, <1>8, <1>9 DEF WalkFollows

LEMMA UseFollows ==
  ASSUME OrdersOK, StackOK, RestOK, FollowableIn(program, walked), WalkFollows, Use
  PROVE  WalkFollows'
<1>1. /\ Walking /\ Here.kind = "use" /\ Framed
      /\ stack' = stack /\ at' = at + 1 /\ state' = state
  BY DEF Use, Framed, Walking, collection, replay
<1>2. at \in DOMAIN Body(walked) /\ ~IsOwnCall(Here) /\ ~IsMutation(Here)
  BY <1>1 DEF Walking, IsOwnCall, IsMutation
<1>3. WalkedRun[at] = WalkedRun[at - 1]
  BY <1>2, WalkedRunIs DEF Executes, Here
<1> QED BY <1>1, <1>3, WalkOn

\* A method called by the walked one, or by one on the stack, lies deeper.
LEMMA CalleeIs ==
  ASSUME OrdersOK, RestOK, FollowableIn(program, walked),
         NEW k \in 0 .. MaxDepth, NEW m \in LevelOf(program, walked)[k],
         NEW p \in DOMAIN Body(m), IsOwnCall(Body(m)[p])
  PROVE  LET n == Body(m)[p].method
         IN  /\ n = Entry(Body(m)[p])
             /\ k + 1 \in 1 .. MaxDepth
             /\ n \in LevelOf(program, walked)[k + 1]
             /\ n \in EnteredOf(program, walked) /\ n \in Method
             /\ DeepOf(m) < DeepOf(n) /\ DeepOf(m) \in Nat /\ DeepOf(n) \in Nat
<1> DEFINE n == Body(m)[p].method
<1>1. program \in Programs /\ walked \in Method
  BY DEF OrdersOK, RestOK
<1>2. m \in EnteredOf(program, walked)
  BY DEF EnteredOf
<1>3. n = Entry(Body(m)[p])
  BY <1>2 DEF FollowableIn, Body, Entry
<1>4. n \in CalledOf(program, m)
  BY DEF CalledOf, Body
<1>5. k + 1 \in 0 .. MaxDepth /\ n \in LevelOf(program, walked)[k + 1]
  BY <1>1, <1>4, CallsDescend
<1>6. k + 1 \in 1 .. MaxDepth
  BY <1>5, ConstantsOK
<1>7. n \in EnteredOf(program, walked) /\ DeepOf(m) < DeepOf(n)
  BY <1>1, <1>2, <1>4, CallsGoDeeper DEF DeepOf
<1>8. n \in Method
  BY <1>1, <1>7, EnteredTyped
<1>9. DeepOf(m) \in Nat /\ DeepOf(n) \in Nat
  BY <1>1, <1>2, <1>7, DeepIs DEF IsDeepest, DeepOf
<1> QED BY <1>3, <1>5, <1>6, <1>7, <1>8, <1>9

LEMMA WalkedIsAtLevelZero ==
  ASSUME OrdersOK, RestOK
  PROVE  0 \in 0 .. MaxDepth /\ walked \in LevelOf(program, walked)[0]
<1>1. program \in Programs /\ walked \in Method
  BY DEF OrdersOK, RestOK
<1> QED BY <1>1, LevelIs, ConstantsOK

LEMMA PassFollows ==
  ASSUME OrdersOK, StackOK, RestOK, FollowableIn(program, walked), WalkFollows, Pass
  PROVE  WalkFollows'
<1>1. /\ Walking /\ Framed
      /\ stack' = stack /\ at' = at + 1 /\ state' = state
      /\ IsClassCall(Here) => effects[Entry(Here)] = <<>>
  BY DEF Pass, Framed, Walking, collection, replay
<1>2. at \in DOMAIN Body(walked) /\ Here = Body(walked)[at]
  BY <1>1 DEF Walking, Here
<1>3. /\ Executes(Here, WalkedRun[at - 1], WalkedRun[at], ExecutionOf(program)[MaxDepth])
      /\ WalkedRun[at - 1] \in State
  BY <1>2, WalkedRunIs DEF Executes
<1>4. CASE IsMutation(Here)
  <2>1. \A f \in Field : f # Here.field => WalkedRun[at][f] = WalkedRun[at - 1][f]
    BY <1>3, <1>4 DEF Executes
  <2> QED BY <1>1, <1>4, <2>1, WalkOn
<1>5. CASE IsOwnCall(Here)
  <2> DEFINE n == Here.method
  <2>1. /\ n = Entry(Here) /\ n \in EnteredOf(program, walked) /\ n \in Method
        /\ DeepOf(walked) < DeepOf(n) /\ DeepOf(walked) \in Nat /\ DeepOf(n) \in Nat
    BY <1>2, <1>5, CalleeIs, WalkedIsAtLevelZero
  <2>2. n # walked
    BY <2>1
  <2>3. <<>> \in EventOrdersOf(program, n)
    <3>1. effects[n] = <<>>
      BY <1>1, <1>5, <2>1 DEF IsClassCall
    <3>2. n \notin uncollected
      BY <1>1 DEF OrdersOK, Walking
    <3> QED BY <2>1, <3>1, <3>2 DEF OrdersOK
  <2>4. program \in Programs /\ walked \in Method /\ MaxDepth \in 1 .. MaxDepth
    BY ConstantsOK DEF OrdersOK, RestOK
  <2>5. ExecutionOf(program)[MaxDepth][n][WalkedRun[at - 1]] = WalkedRun[at - 1]
    BY <1>3, <2>1, <2>2, <2>3, <2>4, CallWithoutEvents
  <2>6. WalkedRun[at] = WalkedRun[at - 1]
    BY <1>3, <1>5, <2>5 DEF Executes
  <2> QED BY <1>1, <2>6, WalkOn
<1>6. CASE ~IsMutation(Here) /\ ~IsOwnCall(Here)
  <2>1. WalkedRun[at] = WalkedRun[at - 1]
    BY <1>3, <1>6 DEF Executes
  <2> QED BY <1>1, <2>1, WalkOn
<1> QED BY <1>4, <1>5, <1>6

LEMMA StartReplayFollows ==
  ASSUME OrdersOK, StackOK, StackOK', RestOK, FollowableIn(program, walked), WalkFollows, StartReplay
  PROVE  WalkFollows'
<1> PICK n : n = Here.method
  OBVIOUS
<1> DEFINE s == effects[n]
           last == Len(Body(n))
           X == ExecutionOf(program)[MaxDepth - 1]
<1>1. /\ Walking /\ Framed /\ IsClassCall(Here)
      /\ stack' = <<Frame(Entry(Here), MaxDepth)>> /\ at' = at + 1 /\ state' = state
  BY DEF StartReplay, Framed, Walking, collection, replay
<1>2. at \in DOMAIN Body(walked) /\ Here = Body(walked)[at] /\ stack = <<>>
  BY <1>1 DEF Walking, Here
<1>3. IsOwnCall(Here)
  <2>1. walked \in EnteredOf(program, walked)
    BY WalkedRunIs
  <2>2. Here.kind # "other_call"
    BY <1>2, <2>1 DEF FollowableIn, Body
  <2> QED BY <1>1, <2>2 DEF IsClassCall
<1>4. /\ n = Entry(Here) /\ n \in EnteredOf(program, walked) /\ n \in Method
      /\ n \in LevelOf(program, walked)[1]
      /\ DeepOf(walked) < DeepOf(n) /\ DeepOf(walked) \in Nat /\ DeepOf(n) \in Nat
  BY <1>2, <1>3, CalleeIs, WalkedIsAtLevelZero
<1>5. /\ DOMAIN Body(walked) = 1 .. Len(Body(walked)) /\ Len(Body(walked)) \in Nat
      /\ at \in 1 .. Len(Body(walked)) /\ at' - 1 = at /\ at' - 2 = at - 1
      /\ at - 1 \in 0 .. Len(Body(walked))
  BY <1>1, <1>2, WalkedRunIs
<1>6. (at - 1 \in 0 .. Len(Body(walked)))'
  BY <1>1, <1>5, FramedIs DEF Framed
<1>7. /\ stack' # <<>> /\ DOMAIN stack' = {1} /\ Len(stack') = 1
      /\ stack'[1].method = n /\ stack'[1].next = 1 /\ Top' = stack'[1]
  BY <1>1, <1>4 DEF Frame, Top
<1>8. ChainOK'
  <2>1. Body(walked)' = Body(walked)
    BY <1>1, FramedIs DEF Framed
  <2>2. 1 .. (Len(stack') - 1) = {}
    BY <1>7
  <2> QED BY <1>2, <1>3, <1>5, <1>7, <2>1, <2>2 DEF ChainOK, IsOwnCall
<1>9. DepthOK'
  <2>1. DeepOf(walked)' = DeepOf(walked) /\ DeepOf(n)' = DeepOf(n)
    BY <1>1 DEF Framed, DeepOf
  <2> QED BY <1>1, <1>4, <1>7 DEF DepthOK, Framed, DeepOf
<1>10. WalkedRun[at - 1] \in State /\ \A f \in Untouched(program, walked) : WalkedRun[at - 1][f] = class_fields[f]
  BY <1>5, WalkedRunIs
<1>11. PICK e : e \in [{1} -> State] /\ e[1] = WalkedRun[at - 1]
  <2> DEFINE d == [j \in {1} |-> WalkedRun[at - 1]]
  <2>1. d \in [{1} -> State] /\ d[1] = WalkedRun[at - 1]
    BY <1>10
  <2> HIDE DEF d
  <2> QED BY <2>1
<1>12. EntriesOK(e)'
  <2>1. 1 .. (Len(stack') - 1) = {}
    BY <1>7
  <2>2. WalkedRun' = WalkedRun /\ UNCHANGED <<program, walked, class_fields>>
    BY <1>1, FramedIs DEF Framed
  <2> QED BY <1>5, <1>7, <1>10, <1>11, <2>1, <2>2 DEF EntriesOK
<1>13. Now(e)' = WalkedRun[at - 1]
  <2>1. OrdersOK' /\ program \in Programs /\ walked \in Method
    BY <1>1 DEF OrdersOK, RestOK, Framed
  <2>2. s \in EventOrdersOf(program, n)
    BY <1>1, <1>4 DEF OrdersOK, Walking
  <2>3. MaxDepth - 1 \in 0 .. MaxDepth
    BY ConstantsOK
  <2>4. X \in Effects
    BY <2>1, <2>3, ExecutionIs
  <2>5. AfterOf(program, n, e[1], X)[Done(s, 1, last)] = e[1]
    BY <1>4, <1>10, <1>11, <2>1, <2>2, <2>4, EventByEvent DEF Body
  <2>6. Now(e)' = AfterOf(program, n, e[1], X)[Done(s, 1, last)]
    BY <1>1, <1>7 DEF Now, Run, Framed, Body
  <2> QED BY <1>11, <2>5, <2>6
<1>14. FieldsFollow(e)'
  <2> SUFFICES ASSUME NEW f \in Field, ~WrittenBefore(f, at)' PROVE state'[f] = Now(e)'[f]
    BY DEF FieldsFollow
  <2>1. ~WrittenBefore(f, at)
    <3>1. ~WrittenBefore(f, at + 1)
      BY <1>1, FramedIs DEF WrittenBefore, Framed
    <3>2. \A q \in 1 .. (at - 1) : q \in 1 .. ((at + 1) - 1)
      BY <1>5
    <3> QED BY <3>1, <3>2 DEF WrittenBefore
  <2>2. PICK d : EntriesOK(d) /\ FieldsFollow(d)
    BY DEF WalkFollows
  <2>3. state[f] = WalkedRun[at - 1][f]
    BY <1>2, <2>1, <2>2 DEF FieldsFollow, Now
  <2> QED BY <1>1, <1>13, <2>3
<1> QED BY <1>6, <1>8, <1>9, <1>12, <1>14 DEF WalkFollows

LEMMA StartWalkFollows ==
  ASSUME OrdersOK, OrdersOK', StackOK, RestOK, RestOK', FollowableIn(program, walked),
         at = 1, stack = <<>>, StartWalk
  PROVE  WalkFollows'
<1>1. /\ UNCHANGED <<program, walked, class_fields, stack, at>>
      /\ state' = class_fields
  BY DEF StartWalk, collection
<1>2. stack' = <<>> /\ DOMAIN stack' = {} /\ Len(stack') = 0 /\ at' = 1
  BY <1>1
<1>3. /\ WalkedRun[0] = class_fields
      /\ Len(Body(walked)) \in Nat
  BY WalkedRunIs
<1>4. WalkedRun' = WalkedRun /\ Body(walked)' = Body(walked)
  BY <1>1 DEF WalkedRun, Body
<1>5. (at - 1 \in 0 .. Len(Body(walked)))'
  BY <1>2, <1>3, <1>4
<1>6. ChainOK' /\ DepthOK'
  BY <1>2 DEF ChainOK, DepthOK
<1> DEFINE e == [j \in {} |-> class_fields]
<1>7. EntriesOK(e)'
  BY <1>2 DEF EntriesOK
<1>8. Now(e)' = class_fields
  BY <1>2, <1>3, <1>4 DEF Now
<1>9. FieldsFollow(e)'
  BY <1>1, <1>8 DEF FieldsFollow
<1> QED BY <1>5, <1>6, <1>7, <1>9 DEF WalkFollows

(***************************************************************************)
(* The steps of a replay.                                                  *)
(***************************************************************************)
LEMMA AdvancedIs ==
  ASSUME StackOK, RestOK, Replaying
  PROVE  /\ Len(Advanced) = Len(stack) /\ DOMAIN Advanced = DOMAIN stack
         /\ DOMAIN stack = 1 .. Len(stack) /\ Len(stack) \in Nat \ {0}
         /\ \A j \in 1 .. (Len(stack) - 1) : Advanced[j] = stack[j]
         /\ \A j \in DOMAIN stack : Advanced[j].method = stack[j].method
         /\ Advanced[Len(stack)].next = Top.next + 1 /\ Top = stack[Len(stack)]
         /\ Top.next \in Nat
<1>1. Len(stack) \in DOMAIN stack /\ Top \in FrameSet
  BY EventType
<1>2. DOMAIN stack = 1 .. Len(stack) /\ Len(stack) \in Nat \ {0}
  BY <1>1 DEF StackOK
<1>3. \A j \in 1 .. (Len(stack) - 1) : Advanced[j] = stack[j]
  BY <1>2 DEF Advanced
<1>4. Top = stack[Len(stack)]
  BY DEF Top
<1>5. Advanced[Len(stack)] = [Top EXCEPT !.next = @ + 1]
  BY <1>1, <1>4 DEF Advanced
<1>6. Advanced[Len(stack)].next = Top.next + 1 /\ Top.next \in Nat
  BY <1>1, <1>5 DEF FrameSet
<1> QED BY <1>2, <1>3, <1>4, <1>6, AdvancedOK

\* The event that is next is the turn that execution takes next.
LEMMA EventIs ==
  ASSUME OrdersOK, StackOK, RestOK, FollowableIn(program, walked), DepthOK, phase = "walk",
         Replaying, NEW e, EntriesOK(e)
  PROVE  LET k == Len(stack)
             m == Top.method
             p == effects[m][Top.next]
         IN  /\ Top = stack[k] /\ k \in DOMAIN stack /\ k \in 1 .. MaxDepth
             /\ m \in LevelOf(program, walked)[k]
             /\ p \in DOMAIN Body(m) /\ Event = Body(m)[p]
             /\ Now(e) = Run(k, e)[p - 1]
             /\ Now(e) \in State
             /\ \A f \in Untouched(program, walked) : Now(e)[f] = class_fields[f]
             /\ Run(k, e)[Done(effects[m], Top.next + 1, Len(Body(m)))] = Run(k, e)[p]
             /\ Executes(Event, Now(e), Run(k, e)[p], ExecutionOf(program)[MaxDepth - k])
<1> DEFINE k == Len(stack)
           m == Top.method
           x == Top.next
           p == effects[m][x]
<1>1. /\ k \in DOMAIN stack /\ Top = stack[k] /\ p \in DOMAIN Body(m)
      /\ Event = Body(m)[p]
  BY EventType DEF Top, Event
<1>2. k \in 1 .. MaxDepth /\ m \in LevelOf(program, walked)[k]
  BY <1>1, FrameIs
<1>3. x \in DOMAIN effects[m] /\ stack # <<>>
  BY DEF Replaying
<1>4. Done(effects[m], x, Len(Body(m))) = p - 1
  BY <1>3 DEF Done
<1>5. Now(e) = Run(k, e)[p - 1]
  <2>1. Now(e) = Run(k, e)[Done(effects[m], x, Len(Body(m)))]
    BY <1>3 DEF Now
  <2> QED BY <1>4, <2>1
<1>6. /\ Len(Body(m)) \in Nat /\ DOMAIN Body(m) = 1 .. Len(Body(m))
      /\ Run(k, e) \in [0 .. Len(Body(m)) -> State]
      /\ \A n \in 0 .. Len(Body(m)) : \A f \in Untouched(program, walked) : Run(k, e)[n][f] = class_fields[f]
      /\ \A y \in DOMAIN effects[m] : Run(k, e)[Done(effects[m], y + 1, Len(Body(m)))] = Run(k, e)[effects[m][y]]
      /\ \A n \in DOMAIN Body(m) :
           Executes(Body(m)[n], Run(k, e)[n - 1], Run(k, e)[n], ExecutionOf(program)[MaxDepth - k])
  BY <1>1, RunIs
<1>7. p - 1 \in 0 .. Len(Body(m))
  BY <1>1, <1>6
<1>8. Now(e) \in State /\ \A f \in Untouched(program, walked) : Now(e)[f] = class_fields[f]
  BY <1>5, <1>6, <1>7
<1>9. Run(k, e)[Done(effects[m], x + 1, Len(Body(m)))] = Run(k, e)[p]
  BY <1>3, <1>6
<1>10. Executes(Event, Now(e), Run(k, e)[p], ExecutionOf(program)[MaxDepth - k])
  BY <1>1, <1>5, <1>6
<1> QED BY <1>1, <1>2, <1>5, <1>8, <1>9, <1>10

\* The stack stays as it is but for the event that the top looks at.
LEMMA AdvanceFollows ==
  ASSUME OrdersOK, StackOK, RestOK, FollowableIn(program, walked), WalkFollows, Framed,
         Replaying, stack' = Advanced, at' = at, NEW e, EntriesOK(e)
  PROVE  /\ (at - 1 \in 0 .. Len(Body(walked)))'
         /\ ChainOK' /\ DepthOK'
         /\ EntriesOK(e)'
         /\ Now(e)' = Run(Len(stack), e)[effects[Top.method][Top.next]]
<1> DEFINE k == Len(stack)
<1>1. /\ Len(stack') = k /\ DOMAIN stack' = DOMAIN stack
      /\ DOMAIN stack = 1 .. k /\ k \in Nat \ {0}
      /\ \A j \in 1 .. (k - 1) : stack'[j] = stack[j]
      /\ \A j \in DOMAIN stack : stack'[j].method = stack[j].method
      /\ stack'[k].next = Top.next + 1 /\ Top = stack[k]
  BY AdvancedIs
<1> HIDE DEF k
<1>2. stack # <<>> /\ stack' # <<>>
  BY <1>1
<1>3. ChainOK /\ DepthOK /\ phase = "walk"
  BY DEF WalkFollows, Framed
<1>4. (at - 1 \in 0 .. Len(Body(walked)))'
  BY FramedIs DEF WalkFollows, Framed
<1>5. \A m : Body(m)' = Body(m) /\ effects' = effects /\ walked' = walked /\ program' = program
  BY DEF Framed, Body
<1>6. \A j \in 1 .. (k - 1) : Place(j)' = Place(j)
  BY <1>1, <1>5 DEF Place
<1>7. 1 \in DOMAIN stack /\ \A j \in 1 .. (k - 1) : j \in DOMAIN stack /\ j + 1 \in DOMAIN stack
  BY <1>1
<1>8. ChainOK'
  <2>1. /\ at' - 1 \in DOMAIN Body(walked)'
        /\ IsOwnCall(Body(walked)[at - 1])'
        /\ Body(walked)'[at' - 1].method = stack'[1].method
    BY <1>1, <1>2, <1>3, <1>5, <1>7 DEF ChainOK, IsOwnCall
  <2>2. ASSUME NEW j \in 1 .. (k - 1)
        PROVE  /\ stack'[j].next - 1 \in DOMAIN effects'[stack'[j].method]
               /\ IsOwnCall(Body(stack[j].method)[Place(j)])'
               /\ Body(stack[j].method)'[Place(j)'].method = stack'[j + 1].method
    <3>1. /\ stack[j].next - 1 \in DOMAIN effects[stack[j].method]
          /\ IsOwnCall(Body(stack[j].method)[Place(j)])
          /\ Body(stack[j].method)[Place(j)].method = stack[j + 1].method
      BY <1>3 DEF ChainOK, k
    <3>2. stack'[j] = stack[j] /\ stack'[j + 1].method = stack[j + 1].method
      BY <1>1, <1>7
    <3> QED BY <1>5, <1>6, <3>1, <3>2 DEF IsOwnCall, Body
  <2> QED BY <1>1, <2>1, <2>2 DEF ChainOK, Body
<1>9. DepthOK'
  <2>1. \A m : DeepOf(m)' = DeepOf(m)
    BY FramedIs
  <2> QED BY <1>1, <1>3, <1>5, <2>1 DEF DepthOK, DeepOf
<1>10. \A j \in DOMAIN stack : Run(j, e)' = Run(j, e)
  BY <1>1, <1>5 DEF Run
<1>11. EntriesOK(e)'
  <2>1. WalkedRun' = WalkedRun /\ class_fields' = class_fields
    BY FramedIs DEF Framed
  <2>2. \A j \in 1 .. (k - 1) : e[j + 1] = Run(j, e)'[Place(j)' - 1]
    BY <1>6, <1>7, <1>10 DEF EntriesOK, k
  <2>3. /\ e \in [DOMAIN stack' -> State]
        /\ \A j \in DOMAIN stack' : \A f \in Untouched(program', walked') : e[j][f] = class_fields'[f]
        /\ e[1] = WalkedRun'[at' - 2]
    BY <1>1, <1>2, <1>5, <2>1 DEF EntriesOK
  <2> QED BY <1>1, <2>2, <2>3 DEF EntriesOK
<1>12. Now(e)' = Run(k, e)[effects[Top.method][Top.next]]
  <2>1. Top'.method = Top.method /\ Top'.next = Top.next + 1
    BY <1>1 DEF Top
  <2>2. Now(e)' = Run(k, e)[Done(effects[Top.method], Top.next + 1, Len(Body(Top.method)))]
    BY <1>1, <1>2, <1>5, <1>10, <2>1 DEF Now, Body
  <2> QED BY <1>3, <2>2, EventIs DEF k
<1> QED BY <1>4, <1>8, <1>9, <1>11, <1>12 DEF k

LEMMA MutateFollows ==
  ASSUME OrdersOK, StackOK, RestOK, FollowableIn(program, walked), WalkFollows, Framed, Mutate
  PROVE  WalkFollows'
<1>1. /\ Replaying /\ IsMutation(Event) /\ stack' = Advanced /\ at' = at
      /\ state' = [state EXCEPT ![Event.field] = Assigned(Event)]
  BY DEF Mutate
<1>2. PICK e : EntriesOK(e) /\ FieldsFollow(e)
  BY DEF WalkFollows
<1>3. DepthOK /\ phase = "walk"
  BY DEF WalkFollows, Framed
<1> DEFINE now == Now(e)
           next == Run(Len(stack), e)[effects[Top.method][Top.next]]
<1>4. /\ now \in State /\ \A f \in Untouched(program, walked) : now[f] = class_fields[f]
      /\ Executes(Event, now, next, ExecutionOf(program)[MaxDepth - Len(stack)])
      /\ Event = Body(Top.method)[effects[Top.method][Top.next]]
      /\ effects[Top.method][Top.next] \in DOMAIN Body(Top.method)
      /\ Top.method \in EnteredOf(program, walked)
  BY <1>1, <1>2, <1>3, EventIs, FrameIs
<1>5. Event.field \in Field
  BY <1>1, EventType
<1> HIDE DEF now, next
<1>6. next[Event.field] = Assigned(Event)
  <2>1. CASE Event.kind = "write"
    BY <1>4, <1>5, <2>1 DEF Executes, Assigned, State
  <2>2. CASE Event.kind = "copy"
    <3>1. Event.from \in Field
      <4>1. Top.method \in Method /\ program \in Program
        BY <1>1, EventType DEF RestOK
      <4> QED BY <1>4, <4>1, ItemType
    <3>2. Event.from \in Untouched(program, walked)
      BY <1>4, <2>2, <3>1 DEF FollowableIn, Untouched, Body
    <3>3. next[Event.field] = Shown(now[Event.from])
      BY <1>4, <1>5, <2>2 DEF Executes, State
    <3>4. now[Event.from] = class_fields[Event.from]
      BY <1>4, <3>2
    <3>5. Event.kind # "write"
      BY <2>2
    <3> QED BY <3>3, <3>4, <3>5 DEF Assigned, Shown
  <2> QED BY <1>1, <2>1, <2>2 DEF IsMutation
<1>7. \A f \in Field : f # Event.field => next[f] = now[f]
  BY <1>1, <1>4 DEF Executes
<1>8. FieldsFollow(e)'
  <2> SUFFICES ASSUME NEW f \in Field, ~WrittenBefore(f, at)' PROVE state'[f] = Now(e)'[f]
    BY DEF FieldsFollow
  <2>1. ~WrittenBefore(f, at)
    BY <1>1, FramedIs
  <2>2. state[f] = now[f]
    BY <1>2, <2>1 DEF FieldsFollow, now
  <2>3. Now(e)' = next
    BY <1>1, <1>2, AdvanceFollows DEF next
  <2>4. state \in [Field -> Known]
    BY DEF RestOK
  <2> QED BY <1>1, <1>5, <1>6, <1>7, <2>2, <2>3, <2>4
<1> QED BY <1>1, <1>2, <1>8, AdvanceFollows DEF WalkFollows

\* A call on the stack is of a method that is not on it.
LEMMA CallFromTop ==
  ASSUME OrdersOK, StackOK, RestOK, FollowableIn(program, walked), DepthOK, phase = "walk",
         Replaying, ~IsMutation(Event)
  PROVE  LET n == Event.method
             k == Len(stack)
         IN  /\ IsOwnCall(Event) /\ Entry(Event) = n
             /\ k + 1 \in 1 .. MaxDepth /\ Top.left > 1
             /\ n \in Method /\ n \in EnteredOf(program, walked) /\ n # walked
             /\ n \in LevelOf(program, walked)[k + 1]
             /\ n \notin active
             /\ DeepOf(walked) < DeepOf(n)
             /\ \A j \in DOMAIN stack : DeepOf(stack[j].method) < DeepOf(n)
             /\ effects[n] \in EventOrdersOf(program, n)
<1> DEFINE n == Event.method
           k == Len(stack)
           m == Top.method
           p == effects[m][Top.next]
<1>1. Event.kind = "call" /\ p \in DOMAIN Body(m) /\ Event = Body(m)[p]
  BY EventType DEF Event
<1>2. IsOwnCall(Event)
  BY <1>1 DEF IsOwnCall
<1>3. k \in DOMAIN stack /\ Top = stack[k] /\ k \in Nat /\ DOMAIN stack = 1 .. k
  BY EventType DEF Top, StackOK
<1>4. k \in 1 .. MaxDepth /\ m \in LevelOf(program, walked)[k] /\ m # walked
  BY <1>3, FrameIs
<1>5. k \in 0 .. MaxDepth
  BY <1>4
<1>6. /\ n = Entry(Event) /\ k + 1 \in 1 .. MaxDepth
      /\ n \in LevelOf(program, walked)[k + 1]
      /\ n \in EnteredOf(program, walked) /\ n \in Method
      /\ DeepOf(m) < DeepOf(n) /\ DeepOf(m) \in Nat /\ DeepOf(n) \in Nat
  BY <1>1, <1>2, <1>4, <1>5, CalleeIs
<1>7. program \in Programs /\ walked \in Method
  BY DEF OrdersOK, RestOK
<1>8. ASSUME NEW x \in EnteredOf(program, walked) PROVE DeepOf(x) \in Nat
  BY <1>7, DeepIs DEF IsDeepest, DeepOf
<1>9. \A j \in DOMAIN stack : DeepOf(stack[j].method) < DeepOf(n) /\ DeepOf(stack[j].method) \in Nat
  <2> SUFFICES ASSUME NEW j \in DOMAIN stack
               PROVE  DeepOf(stack[j].method) < DeepOf(n) /\ DeepOf(stack[j].method) \in Nat
    OBVIOUS
  <2>1. DeepOf(stack[j].method) \in Nat
    BY <1>8, FrameIs
  <2>2. j = k \/ j < k
    BY <1>3
  <2>3. j < k => DeepOf(stack[j].method) < DeepOf(m)
    BY <1>3 DEF DepthOK
  <2> HIDE DEF n, k, m
  <2> QED BY <1>3, <1>6, <2>1, <2>2, <2>3 DEF m
<1>10. DeepOf(walked) < DeepOf(n) /\ DeepOf(walked) \in Nat
  <2>1. DeepOf(walked) < DeepOf(m)
    BY <1>3 DEF DepthOK
  <2>2. DeepOf(walked) \in Nat
    BY <1>7, <1>8, EnteredTyped
  <2> QED BY <1>6, <2>1, <2>2
<1>11. n \notin active
  <2>1. \A j \in DOMAIN stack : stack[j].method # n
    BY <1>6, <1>9
  <2> QED BY <2>1 DEF StackOK
<1>12. Top.left > 1
  <2>1. Top.left = MaxDepth + 1 - k
    BY <1>3 DEF StackOK
  <2> QED BY <1>6, <2>1, ConstantsOK
<1>13. n # walked
  BY <1>10
<1>14. effects[n] \in EventOrdersOf(program, n)
  BY <1>6 DEF OrdersOK
<1> QED BY <1>2, <1>6, <1>9, <1>10, <1>11, <1>12, <1>13, <1>14

LEMMA CutFollows ==
  ASSUME OrdersOK, StackOK, RestOK, FollowableIn(program, walked), WalkFollows, Framed, Cut
  PROVE  WalkFollows'
<1>1. /\ Replaying /\ ~IsMutation(Event) /\ ~Enters(Entry(Event))
      /\ stack' = Advanced /\ at' = at /\ state' = state
  BY DEF Cut
<1>2. PICK e : EntriesOK(e) /\ FieldsFollow(e)
  BY DEF WalkFollows
<1>3. DepthOK /\ phase = "walk"
  BY DEF WalkFollows, Framed
<1> DEFINE n == Event.method
           now == Now(e)
           next == Run(Len(stack), e)[effects[Top.method][Top.next]]
<1>4. /\ IsOwnCall(Event) /\ Entry(Event) = n
      /\ Len(stack) + 1 \in 1 .. MaxDepth /\ Top.left > 1
      /\ n \in Method /\ n \in EnteredOf(program, walked) /\ n # walked /\ n \notin active
      /\ effects[n] \in EventOrdersOf(program, n)
  BY <1>1, <1>3, CallFromTop
<1>5. effects[n] = <<>>
  BY <1>1, <1>4 DEF Enters
<1>6. now \in State /\ Executes(Event, now, next, ExecutionOf(program)[MaxDepth - Len(stack)])
  BY <1>1, <1>2, <1>3, EventIs
<1>7. Len(stack) \in Nat
  BY DEF StackOK
<1>8. program \in Programs /\ walked \in Method /\ MaxDepth - Len(stack) \in 1 .. MaxDepth
  BY <1>4, <1>7, ConstantsOK DEF OrdersOK, RestOK
<1>9. ExecutionOf(program)[MaxDepth - Len(stack)][n][now] = now
  BY <1>4, <1>5, <1>6, <1>8, CallWithoutEvents
<1>10. next = now
  BY <1>4, <1>6, <1>9 DEF Executes
<1>11. FieldsFollow(e)'
  <2> SUFFICES ASSUME NEW f \in Field, ~WrittenBefore(f, at)' PROVE state'[f] = Now(e)'[f]
    BY DEF FieldsFollow
  <2>1. ~WrittenBefore(f, at)
    BY <1>1, FramedIs
  <2>2. state[f] = now[f]
    BY <1>2, <2>1 DEF FieldsFollow
  <2>3. Now(e)' = next
    BY <1>1, <1>2, AdvanceFollows
  <2> QED BY <1>1, <1>10, <2>2, <2>3
<1> QED BY <1>1, <1>2, <1>11, AdvanceFollows DEF WalkFollows

LEMMA DescendFollows ==
  ASSUME OrdersOK, StackOK, RestOK, FollowableIn(program, walked), WalkFollows, Framed, Descend
  PROVE  WalkFollows'
<1>1. /\ Replaying /\ ~IsMutation(Event)
      /\ stack' = Append(Advanced, Frame(Entry(Event), Top.left - 1)) /\ at' = at /\ state' = state
  BY DEF Descend
<1>2. PICK e : EntriesOK(e) /\ FieldsFollow(e)
  BY DEF WalkFollows
<1>3. DepthOK /\ ChainOK /\ phase = "walk"
  BY DEF WalkFollows, Framed
<1> PICK n, k, now : n = Event.method /\ k = Len(stack) /\ now = Now(e)
  OBVIOUS
<1>4. /\ IsOwnCall(Event) /\ Entry(Event) = n
      /\ k + 1 \in 1 .. MaxDepth
      /\ n \in Method /\ n \in EnteredOf(program, walked) /\ n # walked
      /\ n \in LevelOf(program, walked)[k + 1]
      /\ DeepOf(walked) < DeepOf(n)
      /\ \A j \in DOMAIN stack : DeepOf(stack[j].method) < DeepOf(n)
      /\ effects[n] \in EventOrdersOf(program, n)
  BY <1>1, <1>3, CallFromTop
<1>5. /\ now \in State /\ \A f \in Untouched(program, walked) : now[f] = class_fields[f]
      /\ now = Run(k, e)[effects[Top.method][Top.next] - 1]
      /\ Event = Body(Top.method)[effects[Top.method][Top.next]]
      /\ Top.next \in DOMAIN effects[Top.method]
  BY <1>1, <1>2, <1>3, EventIs DEF Replaying
<1>6. /\ Advanced \in Seq(FrameSet) /\ Len(Advanced) = k
      /\ DOMAIN stack = 1 .. k /\ k \in Nat \ {0} /\ stack # <<>>
      /\ \A j \in 1 .. (k - 1) : Advanced[j] = stack[j]
      /\ \A j \in 1 .. k : Advanced[j].method = stack[j].method
      /\ Advanced[k].next = Top.next + 1 /\ Top = stack[k] /\ Top.next \in Nat
  BY <1>1, AdvancedIs, AdvancedOK
<1>19. /\ k \in 1 .. k /\ 1 \in 1 .. k /\ (k + 1) - 1 = k
       /\ \A j \in 1 .. (k + 1) : j = k + 1 \/ j \in 1 .. k
       /\ \A j \in 1 .. k : j = k \/ j \in 1 .. (k - 1)
       /\ \A j \in 1 .. (k - 1) : j \in 1 .. k /\ j + 1 \in 1 .. k
       /\ (Top.next + 1) - 1 = Top.next
  <2>1. k \in Nat \ {0} /\ Top.next \in Nat
    BY <1>6
  <2> QED BY <2>1
<1>7. /\ Len(stack') = k + 1 /\ DOMAIN stack' = 1 .. (k + 1) /\ stack' # <<>>
      /\ \A j \in 1 .. (k - 1) : stack'[j] = stack[j]
      /\ \A j \in 1 .. k : stack'[j].method = stack[j].method
      /\ stack'[k].next = Top.next + 1
      /\ stack'[k + 1].method = n /\ stack'[k + 1].next = 1
      /\ Top' = stack'[k + 1]
  <2> DEFINE new == Frame(Entry(Event), Top.left - 1)
  <2>1. new.method = n /\ new.next = 1
    BY <1>4 DEF Frame
  <2> HIDE DEF new
  <2>2. /\ Len(stack') = k + 1 /\ DOMAIN stack' = 1 .. (k + 1) /\ stack' # <<>>
        /\ \A j \in 1 .. k : stack'[j] = Advanced[j]
        /\ stack'[k + 1] = new
    BY <1>1, <1>6 DEF new
  <2>3. Top' = stack'[k + 1]
    BY <2>2 DEF Top
  <2>4. \A j \in 1 .. (k - 1) : stack'[j] = stack[j]
    BY <1>6, <1>19, <2>2
  <2>5. \A j \in 1 .. k : stack'[j].method = stack[j].method
    BY <1>6, <2>2
  <2>6. stack'[k].next = Top.next + 1
    BY <1>6, <1>19, <2>2
  <2> QED BY <2>1, <2>2, <2>3, <2>4, <2>5, <2>6
<1>8. /\ \A m : Body(m)' = Body(m) /\ DeepOf(m)' = DeepOf(m)
      /\ effects' = effects /\ walked' = walked /\ program' = program /\ class_fields' = class_fields
      /\ WalkedRun' = WalkedRun
  BY FramedIs DEF Framed
<1>9. (at - 1 \in 0 .. Len(Body(walked)))'
  BY <1>1, FramedIs DEF WalkFollows, Framed
<1>10. /\ \A j \in 1 .. (k - 1) : Place(j)' = Place(j)
       /\ Place(k)' = effects[Top.method][Top.next]
  <2>1. \A j \in 1 .. (k - 1) : Place(j)' = Place(j)
    BY <1>7, <1>8 DEF Place
  <2>2. stack'[k].method = Top.method /\ stack'[k].next - 1 = Top.next
    BY <1>6, <1>7, <1>19
  <2> QED BY <1>8, <2>1, <2>2 DEF Place
<1>11. ChainOK'
  <2>1. /\ at' - 1 \in DOMAIN Body(walked)'
        /\ IsOwnCall(Body(walked)[at - 1])'
        /\ Body(walked)'[at' - 1].method = stack'[1].method
    <3>1. 1 \in 1 .. k
      BY <1>6
    <3> QED BY <1>1, <1>3, <1>6, <1>7, <1>8, <3>1 DEF ChainOK, IsOwnCall
  <2>2. ASSUME NEW j \in 1 .. k
        PROVE  /\ stack'[j].next - 1 \in DOMAIN effects'[stack'[j].method]
               /\ IsOwnCall(Body(stack[j].method)[Place(j)])'
               /\ Body(stack[j].method)'[Place(j)'].method = stack'[j + 1].method
    <3>1. CASE j \in 1 .. (k - 1)
      <4>1. /\ stack[j].next - 1 \in DOMAIN effects[stack[j].method]
            /\ IsOwnCall(Body(stack[j].method)[Place(j)])
            /\ Body(stack[j].method)[Place(j)].method = stack[j + 1].method
        BY <1>3, <3>1 DEF ChainOK
      <4>2. stack'[j] = stack[j] /\ stack'[j + 1].method = stack[j + 1].method
        <5>1. j + 1 \in 1 .. k
          BY <1>19, <3>1
        <5> QED BY <1>7, <3>1, <5>1
      <4> QED BY <1>8, <1>10, <3>1, <4>1, <4>2 DEF IsOwnCall, Body
    <3>2. CASE j = k
      <4>1. stack'[j].method = Top.method /\ stack'[j].next - 1 = Top.next
        BY <1>6, <1>7, <1>19, <3>2
      <4>2. Body(stack[j].method)'[Place(j)'] = Event
        BY <1>5, <1>8, <1>10, <3>2, <4>1 DEF Body
      <4>3. IsOwnCall(Body(stack[j].method)[Place(j)])'
        BY <1>4, <4>2 DEF IsOwnCall
      <4> QED BY <1>5, <1>7, <1>8, <3>2, <4>1, <4>2, <4>3
    <3> QED BY <1>6, <3>1, <3>2
  <2>3. (k + 1) - 1 = k
    BY <1>6
  <2> QED BY <1>7, <2>1, <2>2, <2>3 DEF ChainOK, Body
<1>12. DepthOK'
  <2>1. ASSUME NEW j \in 1 .. (k + 1)
        PROVE  /\ stack'[j].method \in LevelOf(program, walked)[j]
               /\ DeepOf(walked) < DeepOf(stack'[j].method)
    <3>1. CASE j = k + 1
      BY <1>4, <1>7, <3>1
    <3>2. CASE j # k + 1
      <4>1. j \in 1 .. k
        BY <1>19, <3>2
      <4> QED BY <1>3, <1>6, <1>7, <4>1 DEF DepthOK
    <3> QED BY <3>1, <3>2
  <2>2. ASSUME NEW i \in 1 .. (k + 1), NEW j \in 1 .. (k + 1), i < j
        PROVE  DeepOf(stack'[i].method) < DeepOf(stack'[j].method)
    <3>1. i \in 1 .. k
      <4>1. i \in Nat /\ j \in Nat /\ j <= k + 1 /\ 1 <= i /\ k \in Nat
        BY <1>6
      <4> QED BY <2>2, <4>1
    <3>2. CASE j = k + 1
      BY <1>4, <1>6, <1>7, <3>1, <3>2
    <3>3. CASE j # k + 1
      <4>1. j \in 1 .. k
        BY <1>19, <3>3
      <4> QED BY <1>3, <1>6, <1>7, <2>2, <3>1, <4>1 DEF DepthOK
    <3> QED BY <3>2, <3>3
  <2> QED BY <1>7, <1>8, <2>1, <2>2 DEF DepthOK, DeepOf
<1>13. e \in [1 .. k -> State] /\ \A j \in 1 .. k : \A f \in Untouched(program, walked) : e[j][f] = class_fields[f]
  BY <1>2, <1>6 DEF EntriesOK
<1>14. PICK d : d \in [1 .. (k + 1) -> State] /\ d[k + 1] = now /\ \A j \in 1 .. k : d[j] = e[j]
  <2> DEFINE c == [j \in 1 .. (k + 1) |-> IF j = k + 1 THEN now ELSE e[j]]
  <2>1. \A j \in 1 .. (k + 1) : j # k + 1 => j \in 1 .. k
    BY <1>6
  <2>2. c \in [1 .. (k + 1) -> State]
    BY <1>5, <1>13, <2>1
  <2>3. c[k + 1] = now
    BY <1>6
  <2>4. \A j \in 1 .. k : c[j] = e[j]
    BY <1>6
  <2> HIDE DEF c
  <2> QED BY <2>2, <2>3, <2>4
<1>15. \A j \in 1 .. k : Run(j, d)' = Run(j, e)
  BY <1>7, <1>8, <1>14 DEF Run
<1>16. EntriesOK(d)'
  <2>1. d[1] = WalkedRun'[at' - 2]
    <3>1. 1 \in 1 .. k
      BY <1>6
    <3> QED BY <1>1, <1>2, <1>6, <1>8, <1>14, <3>1 DEF EntriesOK
  <2>2. ASSUME NEW j \in 1 .. k PROVE d[j + 1] = Run(j, d)'[Place(j)' - 1]
    <3>1. CASE j \in 1 .. (k - 1)
      <4>1. e[j + 1] = Run(j, e)[Place(j) - 1] /\ j + 1 \in 1 .. k
        BY <1>2, <1>6, <3>1 DEF EntriesOK
      <4> QED BY <1>10, <1>14, <1>15, <3>1, <4>1
    <3>2. CASE j = k
      BY <1>5, <1>10, <1>14, <1>15, <3>2
    <3> QED BY <1>6, <3>1, <3>2
  <2>3. ASSUME NEW j \in 1 .. (k + 1), NEW f \in Untouched(program, walked) PROVE d[j][f] = class_fields[f]
    <3>1. CASE j = k + 1
      BY <1>5, <1>14, <3>1
    <3>2. CASE j # k + 1
      <4>1. j \in 1 .. k
        BY <1>19, <3>2
      <4> QED BY <1>13, <1>14, <4>1
    <3> QED BY <3>1, <3>2
  <2>4. (k + 1) - 1 = k
    BY <1>6
  <2> QED BY <1>7, <1>8, <1>14, <2>1, <2>2, <2>3, <2>4 DEF EntriesOK
<1>17. Now(d)' = now
  <2> DEFINE X == ExecutionOf(program)[MaxDepth - (k + 1)]
             last == Len(Body(n))
  <2>1. MaxDepth - (k + 1) \in 0 .. MaxDepth
    BY <1>4, <1>6, ConstantsOK
  <2>2. program \in Programs /\ walked \in Method
    BY DEF OrdersOK, RestOK
  <2>3. X \in Effects
    BY <2>1, <2>2, ExecutionIs
  <2> HIDE DEF X
  <2>4. AfterOf(program, n, now, X)[Done(effects[n], 1, last)] = now
    BY <1>4, <1>5, <2>2, <2>3, EventByEvent DEF Body
  <2>5. Now(d)' = AfterOf(program, n, now, X)[Done(effects[n], 1, last)]
    BY <1>7, <1>8, <1>14 DEF Now, Run, Body, X
  <2> QED BY <2>4, <2>5
<1>18. FieldsFollow(d)'
  <2> SUFFICES ASSUME NEW f \in Field, ~WrittenBefore(f, at)' PROVE state'[f] = Now(d)'[f]
    BY DEF FieldsFollow
  <2>1. ~WrittenBefore(f, at)
    BY <1>1, FramedIs
  <2>2. state[f] = now[f]
    BY <1>2, <2>1 DEF FieldsFollow
  <2> QED BY <1>1, <1>17, <2>2
<1> QED BY <1>9, <1>11, <1>12, <1>16, <1>18 DEF WalkFollows

LEMMA ReturnFollows ==
  ASSUME OrdersOK, StackOK, RestOK, FollowableIn(program, walked), WalkFollows, Framed, Return
  PROVE  WalkFollows'
<1>1. /\ stack # <<>> /\ ~Replaying
      /\ stack' = SubSeq(stack, 1, Len(stack) - 1) /\ at' = at /\ state' = state
  BY DEF Return
<1>2. PICK e : EntriesOK(e) /\ FieldsFollow(e)
  BY DEF WalkFollows
<1>3. DepthOK /\ ChainOK /\ phase = "walk"
  BY DEF WalkFollows, Framed
<1> PICK k, m, now : k = Len(stack) /\ m = Top.method /\ now = Now(e)
  OBVIOUS
<1>4. /\ k \in Nat \ {0} /\ DOMAIN stack = 1 .. k /\ k \in DOMAIN stack /\ Top = stack[k]
  BY <1>1 DEF StackOK, Top
<1>5. /\ Len(stack') = k - 1 /\ DOMAIN stack' = 1 .. (k - 1)
      /\ \A j \in 1 .. (k - 1) : stack'[j] = stack[j]
  BY <1>1, <1>4 DEF StackOK
<1>6. /\ \A j \in 1 .. (k - 1) : j \in 1 .. k /\ j + 1 \in 1 .. k
      /\ \A j \in 1 .. ((k - 1) - 1) : j \in 1 .. (k - 1) /\ j + 1 \in 1 .. (k - 1)
      /\ k = 1 => stack' = <<>>
      /\ k # 1 => k - 1 \in 1 .. (k - 1) /\ 1 \in 1 .. (k - 1) /\ (k - 1) + 1 = k
      /\ k - 1 \in Nat
  <2>1. k = 1 => stack' = <<>>
    BY <1>4, <1>5
  <2>2. k \in Nat \ {0}
    BY <1>4
  <2> QED BY <2>1, <2>2
<1>7. /\ \A x : Body(x)' = Body(x) /\ DeepOf(x)' = DeepOf(x)
      /\ effects' = effects /\ walked' = walked /\ program' = program /\ class_fields' = class_fields
      /\ WalkedRun' = WalkedRun
  BY FramedIs DEF Framed
<1>8. (at - 1 \in 0 .. Len(Body(walked)))'
  BY <1>1, FramedIs DEF WalkFollows, Framed
<1>9. \A j \in 1 .. (k - 1) : Place(j)' = Place(j)
  BY <1>5, <1>7 DEF Place
<1>10. ChainOK'
  <2>1. CASE k = 1
    <3>1. stack' = <<>> /\ 1 .. (Len(stack') - 1) = {}
      BY <1>5, <1>6, <2>1
    <3> QED BY <3>1 DEF ChainOK
  <2>2. CASE k # 1
    <3>1. /\ at' - 1 \in DOMAIN Body(walked)'
          /\ IsOwnCall(Body(walked)[at - 1])'
          /\ Body(walked)'[at' - 1].method = stack'[1].method
      BY <1>1, <1>3, <1>5, <1>6, <1>7, <2>2 DEF ChainOK, IsOwnCall
    <3>2. ASSUME NEW j \in 1 .. ((k - 1) - 1)
          PROVE  /\ stack'[j].next - 1 \in DOMAIN effects'[stack'[j].method]
                 /\ IsOwnCall(Body(stack[j].method)[Place(j)])'
                 /\ Body(stack[j].method)'[Place(j)'].method = stack'[j + 1].method
      <4>1. j \in 1 .. (k - 1) /\ stack'[j] = stack[j] /\ stack'[j + 1] = stack[j + 1]
        BY <1>5, <1>6
      <4>2. /\ stack[j].next - 1 \in DOMAIN effects[stack[j].method]
            /\ IsOwnCall(Body(stack[j].method)[Place(j)])
            /\ Body(stack[j].method)[Place(j)].method = stack[j + 1].method
        BY <1>3, <4>1 DEF ChainOK
      <4> QED BY <1>7, <1>9, <4>1, <4>2 DEF IsOwnCall, Body
    <3>3. \A j \in 1 .. (k - 1) : stack'[j].method = stack[j].method
      BY <1>5
    <3> QED BY <1>5, <1>6, <3>1, <3>2, <3>3 DEF ChainOK, Body
  <2> QED BY <2>1, <2>2
<1>11. DepthOK'
  BY <1>3, <1>4, <1>5, <1>6, <1>7 DEF DepthOK, DeepOf
<1>12. e \in [1 .. k -> State] /\ \A j \in 1 .. k : \A f \in Untouched(program, walked) : e[j][f] = class_fields[f]
  BY <1>2, <1>4 DEF EntriesOK
<1>13. PICK d : d \in [1 .. (k - 1) -> State] /\ \A j \in 1 .. (k - 1) : d[j] = e[j]
  <2> DEFINE c == [j \in 1 .. (k - 1) |-> e[j]]
  <2>1. c \in [1 .. (k - 1) -> State] /\ \A j \in 1 .. (k - 1) : c[j] = e[j]
    BY <1>6, <1>12
  <2> HIDE DEF c
  <2> QED BY <2>1
<1>14. \A j \in 1 .. (k - 1) : Run(j, d)' = Run(j, e)
  BY <1>5, <1>7, <1>13 DEF Run
<1>15. EntriesOK(d)'
  <2>1. stack' # <<>> => d[1] = WalkedRun'[at' - 2]
    BY <1>1, <1>2, <1>6, <1>7, <1>13 DEF EntriesOK
  <2>2. ASSUME NEW j \in 1 .. ((k - 1) - 1) PROVE d[j + 1] = Run(j, d)'[Place(j)' - 1]
    <3>1. j \in 1 .. (k - 1) /\ j + 1 \in 1 .. (k - 1)
      BY <1>6
    <3>2. e[j + 1] = Run(j, e)[Place(j) - 1]
      BY <1>2, <3>1 DEF EntriesOK
    <3> QED BY <1>9, <1>13, <1>14, <3>1, <3>2
  <2>3. \A j \in 1 .. (k - 1) : \A f \in Untouched(program, walked) : d[j][f] = class_fields[f]
    BY <1>6, <1>12, <1>13
  <2> QED BY <1>5, <1>7, <1>13, <2>1, <2>2, <2>3 DEF EntriesOK
<1>16. /\ now = ExecutionOf(program)[MaxDepth - k + 1][m][e[k]]
  <2>1. Top.next \notin DOMAIN effects[m]
    BY <1>1 DEF Replaying
  <2>2. now = Run(k, e)[Len(Body(m))]
    BY <1>1, <2>1 DEF Now, Done
  <2>3. Run(k, e)[Len(Body(m))] = ExecutionOf(program)[MaxDepth - k + 1][m][e[k]]
    BY <1>2, <1>3, <1>4, RunIs
  <2> QED BY <2>2, <2>3
<1>17. Now(d)' = now
  <2>1. CASE k = 1
    <3>1. /\ at - 1 \in DOMAIN Body(walked) /\ IsOwnCall(Body(walked)[at - 1])
          /\ Body(walked)[at - 1].method = m /\ e[1] = WalkedRun[at - 2]
      BY <1>1, <1>2, <1>3, <1>4, <2>1 DEF ChainOK, EntriesOK
    <3>2. (at - 1) - 1 = at - 2
      BY DEF RestOK
    <3>3. WalkedRun[at - 1] = ExecutionOf(program)[MaxDepth][m][WalkedRun[at - 2]]
      <4>1. Executes(Body(walked)[at - 1], WalkedRun[(at - 1) - 1], WalkedRun[at - 1], ExecutionOf(program)[MaxDepth])
        BY <3>1, WalkedRunIs
      <4> QED BY <3>1, <3>2, <4>1 DEF Executes
    <3>4. MaxDepth - 1 + 1 = MaxDepth
      BY ConstantsOK
    <3>5. Now(d)' = WalkedRun[at - 1]
      BY <1>1, <1>6, <1>7, <2>1 DEF Now
    <3> QED BY <1>16, <2>1, <3>1, <3>3, <3>4, <3>5
  <2>2. CASE k # 1
    <3> PICK i, n, x, p : i = k - 1 /\ n = stack[i].method /\ x = stack[i].next - 1 /\ p = Place(i)
      OBVIOUS
    <3>1. i \in 1 .. (k - 1) /\ i \in DOMAIN stack /\ i + 1 = k
      BY <1>4, <1>6, <2>2
    <3>2. /\ x \in DOMAIN effects[n] /\ p = effects[n][x]
          /\ IsOwnCall(Body(n)[p]) /\ Body(n)[p].method = m
          /\ e[k] = Run(i, e)[p - 1]
      BY <1>2, <1>3, <1>4, <3>1 DEF ChainOK, EntriesOK, Place
    <3>3. stack[i] \in FrameSet /\ n \in Method
      BY <1>3, <3>1, FrameIs
    <3>4. stack[i].next \in Nat /\ x + 1 = stack[i].next
      BY <3>3 DEF FrameSet
    <3>5. p \in DOMAIN Body(n)
      BY <3>2, <3>3 DEF RestOK
    <3>6. /\ Run(i, e)[Done(effects[n], x + 1, Len(Body(n)))] = Run(i, e)[p]
          /\ Executes(Body(n)[p], Run(i, e)[p - 1], Run(i, e)[p], ExecutionOf(program)[MaxDepth - i])
      BY <1>2, <1>3, <3>1, <3>2, <3>5, RunIs
    <3>7. Run(i, e)[p] = ExecutionOf(program)[MaxDepth - i][m][e[k]]
      BY <3>2, <3>6 DEF Executes
    <3>8. MaxDepth - i = MaxDepth - k + 1
      BY <1>4, <3>1, ConstantsOK
    <3>9. stack' # <<>> /\ Top' = stack[i] /\ Len(stack') = i
      BY <1>5, <1>6, <2>2, <3>1 DEF Top
    <3>10. Now(d)' = Run(i, e)[Done(effects[n], x + 1, Len(Body(n)))]
      BY <1>7, <1>14, <3>1, <3>4, <3>9 DEF Now
    <3> QED BY <1>16, <3>6, <3>7, <3>8, <3>10
  <2> QED BY <2>1, <2>2
<1>18. FieldsFollow(d)'
  <2> SUFFICES ASSUME NEW f \in Field, ~WrittenBefore(f, at)' PROVE state'[f] = Now(d)'[f]
    BY DEF FieldsFollow
  <2>1. ~WrittenBefore(f, at)
    BY <1>1, FramedIs
  <2>2. state[f] = now[f]
    BY <1>2, <2>1 DEF FieldsFollow
  <2> QED BY <1>1, <1>17, <2>2
<1> QED BY <1>8, <1>10, <1>11, <1>15, <1>18 DEF WalkFollows

LEMMA StepOrders ==
  ASSUME RestOK, OrdersOK, [Next]_vars
  PROVE  OrdersOK'
<1>1. CASE UNCHANGED <<program, effects, uncollected>> /\ phase' \notin {"walk", "done"}
  BY <1>1 DEF OrdersOK
<1>2. CASE UNCHANGED <<program, effects, uncollected>> /\ phase \in {"walk", "done"}
  BY <1>2 DEF OrdersOK
<1>3. CASE UNCHANGED vars
  BY <1>3 DEF OrdersOK, vars, collection
<1>4. CASE StartWalk
  BY <1>4 DEF OrdersOK, StartWalk, collection
<1>5. ASSUME NEW m \in Method, CollectEffects(m) PROVE OrdersOK'
  <2>1. PICK s \in EventOrders(m) : effects' = [effects EXCEPT ![m] = s]
    BY <1>5 DEF CollectEffects
  <2>2. s \in EventOrdersOf(program, m)
    BY EventOrdersIs
  <2>3. /\ program' = program /\ phase' = phase /\ phase = "effects" /\ uncollected' = uncollected \ {m}
    BY <1>5 DEF CollectEffects
  <2>4. \A n \in Method : effects'[n] = IF n = m THEN s ELSE effects[n]
    BY <2>1 DEF RestOK
  <2> QED BY <2>2, <2>3, <2>4 DEF OrdersOK
<1>6. CASE InClassInitialisers \/ MeetConstructor \/ FieldsCollected
  <2>1. UNCHANGED <<program, effects, uncollected>> /\ phase' \in {"constructors", "effects"}
    BY <1>6 DEF InClassInitialisers, MeetConstructor, FieldsCollected, collection
  <2> QED BY <1>1, <2>1
<1>7. CASE Use \/ StartReplay \/ Pass \/ EndWalk
  <2>1. UNCHANGED <<program, effects, uncollected>> /\ phase = "walk"
    BY <1>7 DEF Use, StartReplay, Pass, EndWalk, Walking, collection
  <2> QED BY <1>2, <2>1
<1>8. CASE Mutate \/ Descend \/ Cut \/ Return
  <2>1. UNCHANGED <<program, effects, uncollected, phase>>
    BY <1>8 DEF Mutate, Descend, Cut, Return, collection
  <2> QED BY <2>1 DEF OrdersOK
<1> QED BY <1>3, <1>4, <1>5, <1>6, <1>7, <1>8 DEF Next, Terminated

LEMMA StepLosesNothing ==
  ASSUME StackOK, RestOK, Sourced, NothingLost, [Next]_vars
  PROVE  NothingLost'
<1>1. CASE UNCHANGED <<state, class_fields>> /\ (phase' = "walk" => phase = "walk")
  BY <1>1 DEF NothingLost
<1>2. CASE phase' # "walk"
  BY <1>2 DEF NothingLost
<1>3. CASE StartWalk
  BY <1>3 DEF NothingLost, StartWalk, collection
<1>4. CASE Mutate
  <2>1. /\ Replaying /\ state' = [state EXCEPT ![Event.field] = Assigned(Event)]
        /\ class_fields' = class_fields
    BY <1>4 DEF Mutate, collection
  <2>2. phase = "walk"
    BY <2>1 DEF Sourced, Replaying
  <2>3. Assigned(Event) # NoValue
    BY <2>1, EventType, ConstantsOK
  <2>4. state \in [Field -> Known]
    BY DEF RestOK
  <2> QED BY <2>1, <2>2, <2>3, <2>4 DEF NothingLost
<1> QED BY <1>1, <1>2, <1>3, <1>4
  DEF Next, vars, collection, replay, InClassInitialisers, MeetConstructor, FieldsCollected,
      CollectEffects, Use, StartReplay, Pass, EndWalk, Descend, Cut, Return, Terminated

LEMMA FoundKept ==
  ASSUME FoundOK, UNCHANGED <<program, walked, class_fields, found>>
  PROVE  FoundOK'
<1>1. WalkedRun' = WalkedRun /\ Body(walked)' = Body(walked)
  BY DEF WalkedRun, Body
<1>2. \A f, p : WrittenBefore(f, p) => \E q \in 1 .. (p - 1) : IsMutation(Body(walked)[q])' /\ Body(walked)'[q].field = f
  BY <1>1 DEF WrittenBefore, IsMutation
<1> QED BY <1>1, <1>2 DEF FoundOK, WrittenBefore

\* The use that is reported now.
LEMMA UseReports ==
  ASSUME OrdersOK, RestOK, FollowableIn(program, walked), WalkFollows, NothingLost, FoundOK, Use
  PROVE  FoundOK'
<1> DEFINE f == Here.field
<1>1. /\ Walking /\ found' = found \cup {<<at, Reported(f)>>}
      /\ UNCHANGED <<program, walked, class_fields>>
  BY DEF Use, collection
<1>2. at \in DOMAIN Body(walked) /\ stack = <<>> /\ phase = "walk" /\ Here = Body(walked)[at]
  BY <1>1 DEF Walking, Here
<1>3. f \in Field
  BY <1>2, ItemType DEF RestOK
<1>4. WrittenBefore(f, at) \/ Reported(f) = Shown(WalkedRun[at - 1][f])
  <2> SUFFICES ASSUME ~WrittenBefore(f, at) PROVE Reported(f) = Shown(WalkedRun[at - 1][f])
    OBVIOUS
  <2>1. PICK e : EntriesOK(e) /\ FieldsFollow(e)
    BY DEF WalkFollows
  <2>2. state[f] = WalkedRun[at - 1][f]
    BY <1>2, <1>3, <2>1 DEF FieldsFollow, Now
  <2>3. state[f] = NoValue => class_fields[f] = NoValue
    BY <1>2, <1>3 DEF NothingLost
  <2> QED BY <2>2, <2>3 DEF Reported, Shown
<1>5. WalkedRun' = WalkedRun /\ Body(walked)' = Body(walked)
  BY <1>1 DEF WalkedRun, Body
<1>6. \A g, p : WrittenBefore(g, p) => \E q \in 1 .. (p - 1) : IsMutation(Body(walked)[q])' /\ Body(walked)'[q].field = g
  BY <1>5 DEF WrittenBefore, IsMutation
<1>7. ASSUME NEW u \in found'
      PROVE  /\ u[1] \in DOMAIN Body(walked)
             /\ WrittenBefore(Body(walked)[u[1]].field, u[1])
                  \/ u[2] = Shown(WalkedRun[u[1] - 1][Body(walked)[u[1]].field])
  <2>1. CASE u \in found
    BY <2>1 DEF FoundOK
  <2>2. CASE u = <<at, Reported(f)>>
    <3>1. u[1] = at /\ u[2] = Reported(f)
      BY <2>2
    <3> QED BY <1>2, <1>4, <3>1
  <2> QED BY <1>1, <2>1, <2>2
<1> QED BY <1>5, <1>6, <1>7 DEF FoundOK, WrittenBefore

LEMMA StepFollows ==
  ASSUME StackOK, StackOK', RestOK, RestOK', OrdersOK, OrdersOK', Sourced, NothingLost, Follows, [Next]_vars
  PROVE  Follows'
<1> SUFFICES ASSUME FollowableIn(program, walked)'
             PROVE  /\ phase' \notin {"walk", "done"} => at' = 1 /\ found' = {}
                    /\ phase' = "walk" => WalkFollows'
                    /\ FoundOK'
  BY DEF Follows
<1>1. UNCHANGED <<program, walked>>
  BY DEF Next, vars, collection, replay, InClassInitialisers, MeetConstructor, FieldsCollected,
         CollectEffects, StartWalk, Use, StartReplay, Pass, EndWalk, Mutate, Descend, Cut, Return, Terminated
<1>2. /\ FollowableIn(program, walked)
      /\ phase \notin {"walk", "done"} => at = 1 /\ found = {}
      /\ phase = "walk" => WalkFollows
      /\ FoundOK
  BY <1>1 DEF Follows
<1>3. CASE UNCHANGED vars
  <2>1. UNCHANGED <<program, phase, class_fields, effects, walked, at, state, stack, found>>
    BY <1>3 DEF vars, collection, replay
  <2>2. FoundOK'
    BY <1>2, <2>1, FoundKept
  <2>3. WalkFollows => WalkFollows'
    <3> SUFFICES ASSUME WalkFollows PROVE WalkFollows'
      OBVIOUS
    <3>1. PICK e : EntriesOK(e) /\ FieldsFollow(e)
      BY DEF WalkFollows
    <3>2. WalkedRun' = WalkedRun /\ Top' = Top /\ \A m : Body(m)' = Body(m) /\ DeepOf(m)' = DeepOf(m)
      BY <2>1 DEF WalkedRun, Top, Body, DeepOf
    <3>3. \A j : Place(j)' = Place(j) /\ Run(j, e)' = Run(j, e)
      BY <2>1 DEF Place, Run
    <3>4. Now(e)' = Now(e)
      BY <2>1, <3>2, <3>3 DEF Now
    <3>5. EntriesOK(e)'
      BY <2>1, <3>1, <3>2, <3>3 DEF EntriesOK
    <3>6. FieldsFollow(e)'
      BY <2>1, <3>1, <3>2, <3>4 DEF FieldsFollow, WrittenBefore, IsMutation
    <3>7. DepthOK'
      BY <2>1, <3>2 DEF WalkFollows, DepthOK, DeepOf
    <3>8. ChainOK'
      BY <2>1, <3>2, <3>3 DEF WalkFollows, ChainOK, IsOwnCall, Body
    <3>9. (at - 1 \in 0 .. Len(Body(walked)))'
      BY <2>1, <3>2 DEF WalkFollows
    <3> QED BY <3>5, <3>6, <3>7, <3>8, <3>9 DEF WalkFollows
  <2> QED BY <1>2, <2>1, <2>2, <2>3
<1>4. CASE InClassInitialisers \/ MeetConstructor \/ FieldsCollected \/ \E m \in Method : CollectEffects(m)
  <2>1. /\ phase \notin {"walk", "done"} /\ phase' \notin {"walk", "done"}
        /\ UNCHANGED <<at, found>>
    BY <1>4 DEF InClassInitialisers, MeetConstructor, FieldsCollected, CollectEffects
  <2>2. found' = {}
    BY <1>2, <2>1
  <2> QED BY <1>2, <2>1, <2>2 DEF FoundOK
<1>5. CASE StartWalk
  <2>1. /\ phase \notin {"walk", "done"} /\ phase' = "walk" /\ UNCHANGED found /\ stack = <<>>
    BY <1>5 DEF StartWalk, Sourced
  <2>2. WalkFollows'
    BY <1>2, <1>5, <2>1, StartWalkFollows
  <2>3. found' = {}
    BY <1>2, <2>1
  <2> QED BY <2>1, <2>2, <2>3 DEF FoundOK
<1>6. CASE EndWalk
  <2>1. phase' = "done" /\ UNCHANGED <<program, walked, class_fields, found>>
    BY <1>6 DEF EndWalk, collection
  <2> QED BY <1>2, <2>1, FoundKept
<1>7. CASE Use
  <2>1. phase = "walk" /\ phase' = "walk"
    BY <1>7 DEF Use, Walking
  <2> QED BY <1>2, <1>7, <2>1, UseFollows, UseReports
<1>8. CASE StartReplay \/ Pass
  <2>1. phase = "walk" /\ phase' = "walk" /\ UNCHANGED <<program, walked, class_fields, found>>
    BY <1>8 DEF StartReplay, Pass, Walking, collection
  <2> QED BY <1>2, <1>8, <2>1, StartReplayFollows, PassFollows, FoundKept
<1>9. CASE Mutate \/ Descend \/ Cut \/ Return
  <2>1. UNCHANGED <<program, walked, class_fields, found, effects, uncollected, phase>> /\ stack # <<>>
    BY <1>9 DEF Mutate, Descend, Cut, Return, Replaying, collection
  <2>2. phase = "walk"
    BY <2>1 DEF Sourced
  <2>3. Framed
    BY <2>1, <2>2 DEF Framed
  <2>4. WalkFollows'
    BY <1>2, <1>9, <2>2, <2>3, MutateFollows, DescendFollows, CutFollows, ReturnFollows
  <2> QED BY <1>2, <2>1, <2>2, <2>4, FoundKept
<1> QED BY <1>3, <1>4, <1>5, <1>6, <1>7, <1>8, <1>9 DEF Next, Terminated

LEMMA FollowsReplays ==
  ASSUME RestOK, OrdersOK, Follows
  PROVE  ReplayIsExecution
<1> SUFFICES ASSUME Followable, NEW u \in found, ~WrittenHere(u[1])
             PROVE  u[2] = HeldAt(u[1], Body(walked)[u[1]].field)
  BY DEF ReplayIsExecution
<1> DEFINE f == Body(walked)[u[1]].field
<1>1. FollowableIn(program, walked)
  BY FollowableIs
<1>2. u[1] \in DOMAIN Body(walked) /\ (WrittenBefore(f, u[1]) \/ u[2] = Shown(WalkedRun[u[1] - 1][f]))
  BY <1>1 DEF Follows, FoundOK
<1>3. ~WrittenBefore(f, u[1])
  BY DEF WrittenHere, WrittenBefore
<1>4. Body(walked)[u[1]].turn = u[1]
  <2>1. walked \in EnteredOf(program, walked)
    BY EnteredTyped DEF OrdersOK, RestOK
  <2> QED BY <1>1, <1>2, <2>1 DEF FollowableIn, Body
<1>5. WalkedRun = After(walked, class_fields, Execution[MaxDepth])
  BY ExecutionIsOf DEF WalkedRun
<1> QED BY <1>2, <1>3, <1>4, <1>5 DEF HeldAt

(***************************************************************************)
(* What construction leaves.                                               *)
(***************************************************************************)
\* The field has a value if one of the constructors met leaves it one, and
\* then one that a constructor leaves.
Constructed(f) ==
  /\ class_fields[f] \in {Leaves(program.constructors[i], f) : i \in 1 .. met} \cup {NoValue}
  /\ class_fields[f] = NoValue <=> \A i \in 1 .. met : Leaves(program.constructors[i], f) = NoValue

ConstructorsOK ==
  /\ phase = "fields" => met = 0
  /\ phase # "fields" /\ met = 0 => class_fields = program.in_class
  /\ phase # "fields" /\ met > 0 /\ 1 .. met \subseteq DefinedInside =>
       \A f \in Field : program.in_class[f] = NoValue \/ SingleConstructor => Constructed(f)

\* With one constructor in the class, no two are met inside it.
LEMMA OneInside ==
  ASSUME RestOK, SingleConstructor, NEW k \in Nat, 1 .. k \subseteq DefinedInside
  PROVE  k <= 1
<1>1. DefinedInside \subseteq 1 .. Len(program.constructors) /\ Len(program.constructors) \in Nat
  BY DEF DefinedInside, RestOK, Program
<1>2. IsFiniteSet(DefinedInside)
  <2>1. IsFiniteSet(1 .. Len(program.constructors))
    BY <1>1, FS_Interval
  <2> QED BY <1>1, <2>1, FS_Subset
<1>3. PICK x : DefinedInside = {x}
  BY <1>2, FS_Singleton DEF SingleConstructor
<1> SUFFICES ASSUME k > 1 PROVE FALSE
  OBVIOUS
<1>4. 1 \in 1 .. k /\ 2 \in 1 .. k
  OBVIOUS
<1>5. 1 = x /\ 2 = x
  BY <1>3, <1>4
<1> QED BY <1>5

LEMMA MeetConstructs ==
  ASSUME RestOK, ConstructorsOK, MeetConstructor, 1 .. met' \subseteq DefinedInside,
         NEW f \in Field, program.in_class[f] = NoValue \/ SingleConstructor
  PROVE  Constructed(f)'
<1> DEFINE next == program.constructors[met + 1]
           left(i) == Leaves(program.constructors[i], f)
<1>1. /\ phase = "constructors" /\ met' = met + 1 /\ program' = program
      /\ met \in Nat /\ met + 1 \in 1 .. Len(program.constructors)
      /\ class_fields' = [g \in Field |->
           IF next.inside /\ next.inits[g] # NoValue /\ Overwrites(g) THEN next.inits[g] ELSE class_fields[g]]
  BY DEF MeetConstructor, RestOK, Program
<1>2. next.inside
  <2>1. met + 1 \in 1 .. met'
    BY <1>1
  <2> QED BY <2>1 DEF DefinedInside
<1>3. class_fields'[f] = IF next.inits[f] # NoValue /\ Overwrites(f) THEN next.inits[f] ELSE class_fields[f]
  BY <1>1, <1>2
<1>4. left(met + 1) = IF next.inits[f] # NoValue THEN next.inits[f] ELSE program.in_class[f]
  BY DEF Leaves
<1>5. \A i \in 1 .. (met + 1) : i = met + 1 \/ i \in 1 .. met
  BY <1>1
<1>6. met + 1 \in 1 .. (met + 1) /\ \A i \in 1 .. met : i \in 1 .. (met + 1)
  BY <1>1
<1> HIDE DEF left, next
<1>7. /\ class_fields'[f] \in {left(i) : i \in 1 .. (met + 1)} \cup {NoValue}
      /\ class_fields'[f] = NoValue <=> \A i \in 1 .. (met + 1) : left(i) = NoValue
  <2>1. CASE met = 0
    <3>1. class_fields[f] = program.in_class[f]
      BY <1>1, <2>1 DEF ConstructorsOK
    <3>2. Overwrites(f)
      BY <3>1 DEF Overwrites
    <3>3. class_fields'[f] = left(met + 1)
      BY <1>3, <1>4, <3>1, <3>2
    <3>4. \A i \in 1 .. (met + 1) : i = met + 1
      BY <2>1
    <3> QED BY <1>6, <3>3, <3>4
  <2>2. CASE met # 0
    <3>1. ~SingleConstructor
      <4>1. met + 1 \in Nat /\ ~(met + 1 <= 1)
        BY <1>1, <2>2
      <4> QED BY <1>1, <4>1, OneInside
    <3>2. program.in_class[f] = NoValue
      BY <3>1
    <3>3. 1 .. met \subseteq DefinedInside /\ met > 0
      BY <1>1, <1>6, <2>2
    <3>4. /\ class_fields[f] \in {left(i) : i \in 1 .. met} \cup {NoValue}
          /\ class_fields[f] = NoValue <=> \A i \in 1 .. met : left(i) = NoValue
      BY <1>1, <3>2, <3>3 DEF ConstructorsOK, Constructed, left
    <3>5. Overwrites(f) <=> class_fields[f] = NoValue
      BY <3>1 DEF Overwrites
    <3>6. left(met + 1) = next.inits[f]
      BY <1>4, <3>2
    <3>7. CASE class_fields[f] = NoValue
      <4>1. class_fields'[f] = left(met + 1)
        BY <1>3, <3>5, <3>6, <3>7
      <4> QED BY <1>5, <1>6, <3>4, <3>7, <4>1
    <3>8. CASE class_fields[f] # NoValue
      <4>1. class_fields'[f] = class_fields[f]
        BY <1>3, <3>5, <3>8
      <4> QED BY <1>5, <1>6, <3>4, <3>8, <4>1
    <3> QED BY <3>7, <3>8
  <2> QED BY <2>1, <2>2
<1>8. \A c : Leaves(c, f)' = Leaves(c, f)
  BY <1>1 DEF Leaves
<1> QED BY <1>1, <1>7, <1>8 DEF Constructed, left, Leaves

LEMMA StepConstructs ==
  ASSUME RestOK, ConstructorsOK, [Next]_vars
  PROVE  ConstructorsOK'
<1>1. CASE InClassInitialisers
  BY <1>1 DEF ConstructorsOK, InClassInitialisers
<1>2. CASE MeetConstructor
  <2>1. program' = program /\ phase' = phase /\ met' = met + 1 /\ met \in Nat /\ phase = "constructors"
    BY <1>2 DEF MeetConstructor, RestOK
  <2>2. DefinedInside' = DefinedInside /\ SingleConstructor' = SingleConstructor
    BY <2>1 DEF DefinedInside, SingleConstructor
  <2>3. 1 .. met' \subseteq DefinedInside =>
          \A f \in Field : program.in_class[f] = NoValue \/ SingleConstructor => Constructed(f)'
    BY <1>2, MeetConstructs
  <2>4. met' # 0
    BY <2>1
  <2> QED BY <2>1, <2>2, <2>3, <2>4 DEF ConstructorsOK
<1>3. CASE UNCHANGED <<program, met, class_fields>> /\ (phase' = "fields" <=> phase = "fields")
  <2>1. DefinedInside' = DefinedInside /\ SingleConstructor' = SingleConstructor
    BY <1>3 DEF DefinedInside, SingleConstructor
  <2>2. \A f \in Field : Constructed(f) => Constructed(f)'
    BY <1>3 DEF Constructed, Leaves
  <2> QED BY <1>3, <2>1, <2>2 DEF ConstructorsOK
<1> QED BY <1>1, <1>2, <1>3
  DEF Next, vars, collection, replay, FieldsCollected, CollectEffects, StartWalk, Use, StartReplay,
      Pass, EndWalk, Mutate, Descend, Cut, Return, Terminated

LEMMA ConstructorsInitialise == ConstructorsOK => InitialIsConstructed
  BY DEF ConstructorsOK, InitialIsConstructed, Constructed

\* For every class the replay can follow (no recursion, no nesting beyond the
\* limit, no overloads, events on ascending lines), however its methods call
\* each other and in whatever order constructors and events are collected: a
\* library call is reported with the value its field has when the class is
\* executed, from what construction leaves to what called methods change.
THEOREM ReplayIsFaithful == Spec => []FieldsFollowExecution
<1> DEFINE Inv == OrdersOK /\ Sourced /\ NothingLost /\ Follows /\ ConstructorsOK
<1>1. Init => Inv
  <2> SUFFICES ASSUME Init PROVE Inv
    OBVIOUS
  <2>1. OrdersOK /\ Sourced /\ NothingLost
    BY DEF Init, OrdersOK, Sourced, NothingLost
  <2>2. Follows
    BY DEF Init, Follows, FoundOK
  <2>3. ConstructorsOK
    BY DEF Init, ConstructorsOK
  <2> QED BY <2>1, <2>2, <2>3
<1>2. TypeOK /\ TypeOK' /\ Inv /\ [Next]_vars => Inv'
  <2> SUFFICES ASSUME TypeOK, TypeOK', Inv, [Next]_vars PROVE Inv'
    OBVIOUS
  <2>1. StackOK /\ RestOK /\ StackOK' /\ RestOK'
    BY TypeSplits DEF TypeOK, StackOK, RestOK, FrameSet
  <2>2. OrdersOK'
    BY <2>1, StepOrders
  <2> QED BY <2>1, <2>2, StepSourced, StepLosesNothing, StepFollows, StepConstructs
<1>3. TypeOK /\ Inv => FieldsFollowExecution
  BY TypeSplits, FollowsReplays, ConstructorsInitialise DEF FieldsFollowExecution
<1> HIDE DEF Inv
<1> QED BY <1>1, <1>2, <1>3, TypeCorrect, PTL DEF Spec
=============================================================================
