--------------------------- MODULE EmissionProofs ---------------------------
(***************************************************************************)
(* The emission walk, for every program, every database and every limit of *)
(* depth.  The recursion's stack is seen as the set of contexts that are   *)
(* still to be entered, each with the depth it has left.                   *)
(***************************************************************************)
EXTENDS Emission, WellFoundedInduction, FiniteSetTheorems, TLAPS

\* The values and contexts of a program, with the program for a parameter: what
\* never changes is then seen not to.
LastOf(T) == CHOOSE j \in T : \A k \in T : k <= j
FieldIn(prog, f, i) ==
  LET sets == {j \in 1 .. (i - 1) : prog[f][j].effect # "none"}
  IN  IF sets = {} THEN Field0[f] ELSE prog[f][LastOf(sets)].effect
ValueIn(prog, f, i, actual) == Value(prog[f][i].arg, actual, FieldIn(prog, f, i))
CallsIn(prog, x) == UNION {Keys[prog[x[1]][i].callee] \X {ValueIn(prog, x[1], i, x[2])} : i \in DOMAIN prog[x[1]]}
NextChains(prog, W) == W \cup UNION {CallsIn(prog, x) : x \in W}
Chains(prog) ==
  CHOOSE W : W = [k \in Nat |-> IF k = 0 THEN Fn \X {NoActual} ELSE NextChains(prog, W[k - 1])]

\* What a stack has left to enter.
Work(s) == UNION {s[i].keys \X {s[i].actual} \X {s[i].depth} : i \in DOMAIN s}
At(x, depth) == <<x[1], x[2], depth>>

Values == [base : Base, nest : Nat]
Context == Fn \X Values
Frame == [keys : SUBSET Fn, actual : Values, depth : 0 .. MaxDepth]
Visit == [fn : Fn, actual : Values, depth : 1 .. MaxDepth, at : Nat \ {0}, field : Base, out : Seq(Frame)]
Finding == [line : Nat, callee : Callee, value : Values, reduced : BOOLEAN]

WalkTyped ==
  /\ body \in Programs
  /\ reach \subseteq Fn /\ left \subseteq Fn
  /\ phase \in {"reached", "others", "done"}
  /\ stack \in Seq(Frame)
  /\ scan # Idle => scan \in Visit
  /\ visited \subseteq Context
  /\ findings \in Seq(Finding)

\* The context being visited, and how far its visit has come.
Current == <<scan.fn, scan.actual>>
ScanInv ==
  scan # Idle =>
    /\ Current \in visited
    /\ scan.at <= Len(body[scan.fn]) + 1
    /\ scan.field = FieldIn(body, scan.fn, scan.at)

\* The reached functions call reached functions only.
OrderInv ==
  /\ ClosedUnderCalls(reach, body)
  /\ phase = "reached" =>
       /\ left \subseteq reach
       /\ \A w \in Work(stack) : w[1] \in reach
       /\ scan # Idle => scan.fn \in reach /\ \A w \in Work(scan.out) : w[1] \in reach

\* What is left to enter, with the depth it has left, is at the end of a chain
\* as long as the depth that is used up.
RealInv ==
  /\ visited \subseteq Chains(body)[MaxDepth - 1]
  /\ \A w \in Work(stack) : <<w[1], w[2]>> \in Chains(body)[MaxDepth - w[3]]
  /\ scan # Idle =>
       /\ Current \in Chains(body)[MaxDepth - scan.depth]
       /\ \A w \in Work(scan.out) : w[3] = scan.depth - 1 /\ <<w[1], w[2]>> \in Chains(body)[MaxDepth - w[3]]

\* Depth is used up by contexts that were entered, and each is entered once.
DepthInv ==
  /\ IsFiniteSet(visited)
  /\ \A w \in Work(stack) : Cardinality(visited) >= MaxDepth - w[3]
  /\ scan # Idle => Cardinality(visited) >= MaxDepth - scan.depth + 1

\* Unless the depth can run out, what a visited context calls is visited or on
\* the stack.
Follows(x, i) ==
  \A y \in Keys[body[x[1]][i].callee] \X {ValueIn(body, x[1], i, x[2])} :
    \/ y \in visited
    \/ \E w \in Work(stack) : <<w[1], w[2]>> = y
    \/ scan # Idle /\ x = Current /\ (i >= scan.at \/ \E w \in Work(scan.out) : <<w[1], w[2]>> = y)
FollowInv ==
  Cardinality(Chains(body)[MaxDepth]) <= MaxDepth =>
    \A x \in visited : \A i \in DOMAIN body[x[1]] : Follows(x, i)

\* Each function is walked from, without an argument.
Started(f) == stack = << [keys |-> {f}, actual |-> NoActual, depth |-> MaxDepth] >> /\ scan = Idle
StartInv ==
  /\ \A f \in Fn : \/ <<f, NoActual>> \in visited
                   \/ f \in left
                   \/ phase = "reached" /\ f \notin reach
                   \/ Started(f)
  /\ phase = "done" => AtLoop /\ left = {}

\* What was visited was seen, what was seen and counts was found.
KeyAt(x, i) ==
  LET s == body[x[1]][i]
  IN  <<s.line, s.col, s.callee, ValueIn(body, x[1], i, x[2])>>
SeenInv ==
  /\ \A x \in visited : \A i \in DOMAIN body[x[1]] :
       KeyAt(x, i) \in seen \/ (scan # Idle /\ x = Current /\ i >= scan.at)
  /\ \A k \in seen : Emits(k[3], k[4]) =>
       \E j \in DOMAIN findings :
         findings[j].line = k[1] /\ findings[j].callee = k[3] /\ findings[j].value = k[4]

\* And what was found is a call in the program.
OriginInv ==
  \A j \in DOMAIN findings :
    \E f \in Fn : \E i \in DOMAIN body[f] :
      /\ body[f][i].line = findings[j].line /\ body[f][i].callee = findings[j].callee
      /\ findings[j].reduced = Reduced(f)

ReportInv ==
  report = IF phase = "done" THEN {findings[i] : i \in {k \in DOMAIN findings : Kept(k)}} ELSE {}

WalkInv ==
  /\ WalkTyped /\ ScanInv /\ OrderInv /\ RealInv /\ DepthInv /\ FollowInv
  /\ StartInv /\ SeenInv /\ OriginInv /\ ReportInv

-----------------------------------------------------------------------------
(* Natural numbers, and the values of a program.                           *)

\* Every set of natural numbers that is not empty has a least element.
LEMMA LeastNat ==
  ASSUME NEW T, T \subseteq Nat, T # {}
  PROVE  \E m \in T : \A k \in T : m <= k
<1> DEFINE R == OpToRel(<, Nat)
<1>1. IsWellFoundedOn(R, Nat)
  BY NatLessThanWellFounded
<1>2. \A x, y \in Nat : x < y => <<x, y>> \in R
  BY DEF OpToRel
<1> HIDE DEF R
<1>3. PICK x \in T : \A y \in T : ~ (<<y, x>> \in R)
  BY <1>1, WFMin
<1>4. ASSUME NEW k \in T PROVE x <= k
  <2>1. k \in Nat /\ x \in Nat
    OBVIOUS
  <2>2. ~(k < x)
    BY <1>2, <1>3, <2>1
  <2> QED BY <2>1, <2>2
<1> QED BY <1>4

\* A set of naturals with a bound has a last element: the least of its bounds.
LEMMA LastIsLast ==
  ASSUME NEW T, T \subseteq Nat, T # {}, NEW n \in Nat, \A k \in T : k <= n
  PROVE  LastOf(T) \in T /\ \A k \in T : k <= LastOf(T)
<1> DEFINE B == {m \in Nat : \A k \in T : k <= m}
<1>1. n \in B
  OBVIOUS
<1>2. PICK m \in B : \A j \in B : m <= j
  BY <1>1, LeastNat
<1>3. m \in T
  <2> SUFFICES ASSUME m \notin T PROVE FALSE
    OBVIOUS
  <2>1. \A k \in T : k < m
    BY <1>2
  <2>2. m - 1 \in B
    <3>1. PICK k \in T : k \in Nat /\ k < m
      BY <2>1
    <3>2. m - 1 \in Nat
      BY <1>2, <3>1
    <3>3. \A j \in T : j \in Nat /\ j <= m - 1
      BY <1>2, <2>1
    <3> QED BY <3>2, <3>3
  <2> QED BY <1>2, <2>2
<1>4. \E j \in T : \A k \in T : k <= j
  BY <1>2, <1>3
<1> QED BY <1>4, Zenon DEF LastOf

LEMMA LastIsUnique ==
  ASSUME NEW T, T \subseteq Nat, NEW j \in T, \A k \in T : k <= j
  PROVE  LastOf(T) = j
<1>1. LastOf(T) \in T /\ j <= LastOf(T)
  <2>1. j \in Nat
    OBVIOUS
  <2> QED BY <2>1, LastIsLast
<1>2. LastOf(T) <= j /\ LastOf(T) \in Nat /\ j \in Nat
  BY <1>1
<1> QED BY <1>1, <1>2

LEMMA BodyTyped ==
  ASSUME NEW prog \in Programs, NEW f \in Fn
  PROVE  /\ prog[f] \in Seq(Site) /\ Len(prog[f]) \in Nat /\ DOMAIN prog[f] = 1 .. Len(prog[f])
         /\ \A i \in DOMAIN prog[f] : /\ prog[f][i] \in Site /\ Keys[prog[f][i].callee] \subseteq Fn
                                      /\ prog[f][i].effect \in Base /\ prog[f][i].arg \in Arg
<1>1. prog \in [Fn -> Seq(Site)]
  BY EmissionConstants
<1>2. prog[f] \in Seq(Site) /\ Len(prog[f]) \in Nat /\ DOMAIN prog[f] = 1 .. Len(prog[f])
  BY <1>1
<1>3. ASSUME NEW i \in DOMAIN prog[f]
      PROVE /\ prog[f][i] \in Site /\ Keys[prog[f][i].callee] \subseteq Fn
            /\ prog[f][i].effect \in Base /\ prog[f][i].arg \in Arg
  <2>1. prog[f][i] \in Site
    BY <1>2
  <2>2. prog[f][i].callee \in Callee
    BY <2>1 DEF Site
  <2>3. Keys[prog[f][i].callee] \in SUBSET Fn
    BY <2>2, EmissionConstants
  <2> QED BY <2>1, <2>3 DEF Site
<1> QED BY <1>2, <1>3

LEMMA FieldTyped ==
  ASSUME NEW prog \in Programs, NEW f \in Fn, NEW i \in 1 .. Len(prog[f]) + 1
  PROVE  FieldIn(prog, f, i) \in Base
<1> DEFINE sets == {j \in 1 .. (i - 1) : prog[f][j].effect # "none"}
<1>1. Len(prog[f]) \in Nat /\ i - 1 \in Nat /\ i - 1 <= Len(prog[f])
  BY BodyTyped
<1>2. sets \subseteq 1 .. i - 1 /\ sets \subseteq DOMAIN prog[f]
  BY <1>1, BodyTyped
<1>3. sets # {} => LastOf(sets) \in sets
  <2>1. sets \subseteq Nat /\ \A k \in sets : k <= i - 1
    BY <1>1
  <2> HIDE DEF sets
  <2> QED BY <1>1, <2>1, LastIsLast
<1> HIDE DEF sets
<1>4. FieldIn(prog, f, i) = IF sets = {} THEN Field0[f] ELSE prog[f][LastOf(sets)].effect
  BY DEF FieldIn, sets
<1>5. Field0[f] \in Base
  BY EmissionConstants
<1> QED BY <1>2, <1>3, <1>4, <1>5, BodyTyped

\* One more call: the field holds what that call leaves, or what it held.
LEMMA FieldNext ==
  ASSUME NEW prog \in Programs, NEW f \in Fn, NEW i \in DOMAIN prog[f]
  PROVE  FieldIn(prog, f, i + 1) =
           IF prog[f][i].effect = "none" THEN FieldIn(prog, f, i) ELSE prog[f][i].effect
<1> DEFINE before(k) == {j \in 1 .. (k - 1) : prog[f][j].effect # "none"}
<1>1. i \in Nat \ {0} /\ (i + 1) - 1 = i
  BY BodyTyped
<1>2. ASSUME NEW k
      PROVE  FieldIn(prog, f, k) = IF before(k) = {} THEN Field0[f] ELSE prog[f][LastOf(before(k))].effect
  BY DEF FieldIn
<1>3. before(i + 1) = before(i) \cup (IF prog[f][i].effect # "none" THEN {i} ELSE {})
  BY <1>1
<1>4. \A j \in before(i) : j \in Nat /\ j <= i
  BY <1>1
<1> HIDE DEF before
<1>5. CASE prog[f][i].effect = "none"
  <2>1. before(i + 1) = before(i)
    BY <1>3, <1>5
  <2> QED BY <1>2, <1>5, <2>1
<1>6. CASE prog[f][i].effect # "none"
  <2> DEFINE T == before(i + 1)
  <2>1. T \subseteq Nat /\ i \in T /\ \A k \in T : k <= i
    BY <1>1, <1>3, <1>4, <1>6
  <2> HIDE DEF T
  <2>2. LastOf(T) = i /\ T # {}
    BY <2>1, LastIsUnique
  <2> QED BY <1>2, <1>6, <2>2 DEF T
<1> QED BY <1>5, <1>6

LEMMA ValueTyped ==
  ASSUME NEW prog \in Programs, NEW f \in Fn, NEW i \in DOMAIN prog[f], NEW actual \in Values
  PROVE  ValueIn(prog, f, i, actual) \in Values
<1> DEFINE arg == prog[f][i].arg
           field == FieldIn(prog, f, i)
<1>1. arg \in Arg
  BY BodyTyped
<1>2. field \in Base
  <2>1. i \in 1 .. Len(prog[f]) + 1
    BY BodyTyped
  <2> QED BY <2>1, FieldTyped
<1>3. NoActual \in Values /\ Unresolved \in Values /\ \A x \in Base : Literal(x) \in Values
  BY DEF NoActual, Unresolved, Literal, Values, Base
<1>4. Bound(actual) \in Values
  BY <1>3 DEF Bound
<1>5. [Bound(actual) EXCEPT !.nest = @ + 1] \in Values
  BY <1>4 DEF Values
<1>6. arg.base \in Base /\ arg.kind \in {"none", "literal", "param", "wrapped", "field"}
  BY <1>1 DEF Arg
<1> HIDE DEF arg, field
<1>7. Value(arg, actual, field) \in Values
  <2>1. CASE arg.kind = "none"
    BY <1>3, <2>1 DEF Value
  <2>2. CASE arg.kind = "literal"
    BY <1>3, <1>6, <2>2 DEF Value
  <2>3. CASE arg.kind = "param"
    BY <1>4, <2>3 DEF Value
  <2>4. CASE arg.kind = "wrapped"
    BY <1>5, <2>4 DEF Value
  <2>5. CASE arg.kind = "field"
    BY <1>2, <1>3, <2>5 DEF Value
  <2> QED BY <1>6, <2>1, <2>2, <2>3, <2>4, <2>5
<1> QED BY <1>7 DEF ValueIn, arg, field

-----------------------------------------------------------------------------
(* The contexts at the end of chains of calls.  The library's theorem on   *)
(* recursive functions takes an operator for a parameter, so its argument  *)
(* is made here: approximations exist, agree, and their diagonal is the    *)
(* function.                                                               *)

ChainsTo(prog, g, n) ==
  g[0] = Fn \X {NoActual} /\ \A k \in 1 .. n : g[k] = NextChains(prog, g[k - 1])

LEMMA ApproximationsExist ==
  ASSUME NEW prog, NEW n \in Nat
  PROVE  \E g : ChainsTo(prog, g, n)
<1> DEFINE T == {m \in Nat : ~ \E g : ChainsTo(prog, g, m)}
<1> SUFFICES ASSUME T # {} PROVE FALSE
  OBVIOUS
<1>1. PICK m \in T : \A j \in T : m <= j
  BY LeastNat
<1>2. CASE m = 0
  <2> DEFINE g == [k \in 0 .. 0 |-> Fn \X {NoActual}]
  <2>1. ChainsTo(prog, g, 0)
    BY DEF ChainsTo
  <2> QED BY <1>2, <2>1
<1>3. CASE m # 0
  <2>1. m - 1 \in Nat /\ m \in Nat /\ m - 1 \notin T
    BY <1>1, <1>3
  <2>2. PICK g : ChainsTo(prog, g, m - 1)
    BY <2>1
  <2> DEFINE h == [k \in 0 .. m |-> IF k = m THEN NextChains(prog, g[m - 1]) ELSE g[k]]
  <2>3. h[0] = Fn \X {NoActual}
    <3>1. h[0] = g[0]
      BY <1>3, <2>1
    <3> QED BY <2>2, <3>1, Zenon DEF ChainsTo
  <2>4. ASSUME NEW k \in 1 .. m PROVE h[k] = NextChains(prog, h[k - 1])
    <3>1. h[k - 1] = g[k - 1]
      BY <2>1
    <3>2. CASE k = m
      BY <2>1, <3>1, <3>2
    <3>3. CASE k # m
      <4>1. k \in 1 .. m - 1 /\ h[k] = g[k]
        BY <2>1, <3>3
      <4>2. g[k] = NextChains(prog, g[k - 1])
        BY <2>2, <4>1, Zenon DEF ChainsTo
      <4> QED BY <3>1, <4>1, <4>2, Zenon
    <3> QED BY <3>2, <3>3
  <2> HIDE DEF h
  <2>5. ChainsTo(prog, h, m)
    BY <2>3, <2>4, Zenon DEF ChainsTo
  <2> QED BY <1>1, <2>5
<1> QED BY <1>2, <1>3

LEMMA ApproximationsAgree ==
  ASSUME NEW prog, NEW m \in Nat, NEW n \in Nat, NEW g, NEW h,
         ChainsTo(prog, g, m), ChainsTo(prog, h, n), NEW i \in Nat, i <= m, i <= n
  PROVE  g[i] = h[i]
<1> DEFINE T == {k \in Nat : k <= m /\ k <= n /\ g[k] # h[k]}
<1> SUFFICES ASSUME T # {} PROVE FALSE
  OBVIOUS
<1>1. g[0] = h[0]
  BY Zenon DEF ChainsTo
<1>2. PICK k \in T : \A j \in T : k <= j
  BY LeastNat
<1>3. k \in 1 .. m /\ k \in 1 .. n /\ k - 1 \in Nat
  <2>1. k # 0
    BY <1>1, <1>2
  <2> QED BY <1>2, <2>1
<1>4. k - 1 \notin T
  BY <1>2, <1>3
<1>5. g[k - 1] = h[k - 1]
  BY <1>3, <1>4
<1>6. g[k] = NextChains(prog, g[k - 1]) /\ h[k] = NextChains(prog, h[k - 1])
  BY <1>3, Zenon DEF ChainsTo
<1> QED BY <1>2, <1>5, <1>6

LEMMA ChainsAre ==
  ASSUME NEW prog
  PROVE  Chains(prog) =
           [k \in Nat |-> IF k = 0 THEN Fn \X {NoActual} ELSE NextChains(prog, Chains(prog)[k - 1])]
<1> DEFINE to(n) == CHOOSE g : ChainsTo(prog, g, n)
           G == [n \in Nat |-> to(n)[n]]
<1>1. ASSUME NEW n \in Nat PROVE ChainsTo(prog, to(n), n)
  <2>1. \E g : ChainsTo(prog, g, n)
    BY ApproximationsExist
  <2> QED BY <2>1, Zenon
<1> HIDE DEF to
<1>2. ASSUME NEW n \in Nat
      PROVE  G[n] = IF n = 0 THEN Fn \X {NoActual} ELSE NextChains(prog, G[n - 1])
  <2>1. ChainsTo(prog, to(n), n)
    BY <1>1
  <2>2. CASE n = 0
    BY <2>1, <2>2, Zenon DEF ChainsTo
  <2>3. CASE n # 0
    <3>1. n - 1 \in Nat /\ n - 1 <= n
      BY <2>3
    <3>2. to(n)[n - 1] = to(n - 1)[n - 1]
      BY <1>1, <3>1, ApproximationsAgree
    <3>3. to(n)[n] = NextChains(prog, to(n)[n - 1])
      <4>1. n \in 1 .. n
        BY <2>3
      <4> QED BY <2>1, <4>1, Zenon DEF ChainsTo
    <3> QED BY <2>3, <3>1, <3>2, <3>3
  <2> QED BY <2>2, <2>3
<1>3. G = [n \in Nat |-> G[n]]
  OBVIOUS
<1> HIDE DEF G
<1>4. G = [n \in Nat |-> IF n = 0 THEN Fn \X {NoActual} ELSE NextChains(prog, G[n - 1])]
  BY <1>2, <1>3
<1>5. \E W : W = [k \in Nat |-> IF k = 0 THEN Fn \X {NoActual} ELSE NextChains(prog, W[k - 1])]
  BY <1>4, Zenon
<1> QED BY <1>5, Zenon DEF Chains

LEMMA WithinIsChains == Within = Chains(body)
BY DEF Within, Chains, NextChains, CallsIn, ContextCalls, ValueAt, ValueIn, FieldAt, FieldIn, LastOf

LEMMA ChainsStep ==
  ASSUME NEW prog
  PROVE  /\ Chains(prog)[0] = Fn \X {NoActual}
         /\ \A n \in Nat : Chains(prog)[n + 1] = NextChains(prog, Chains(prog)[n])
<1> DEFINE C == Chains(prog)
<1>1. C = [k \in Nat |-> IF k = 0 THEN Fn \X {NoActual} ELSE NextChains(prog, C[k - 1])]
  BY ChainsAre
<1> HIDE DEF C
<1>2. \A n \in Nat : n + 1 \in Nat /\ n + 1 # 0 /\ (n + 1) - 1 = n
  OBVIOUS
<1>3. C[0] = Fn \X {NoActual}
  BY <1>1
<1>4. ASSUME NEW n \in Nat PROVE C[n + 1] = NextChains(prog, C[n])
  BY <1>1, <1>2
<1> QED BY <1>3, <1>4 DEF C

LEMMA ChainsGrow ==
  ASSUME NEW prog, NEW n \in Nat, NEW m \in 0 .. n
  PROVE  Chains(prog)[m] \subseteq Chains(prog)[n]
<1> DEFINE C == Chains(prog)
           T == {k \in Nat : k >= m /\ ~(C[m] \subseteq C[k])}
<1>1. \A k \in Nat : C[k] \subseteq C[k + 1]
  BY ChainsStep DEF NextChains
<1> HIDE DEF C
<1> SUFFICES ASSUME T # {} PROVE FALSE
  BY DEF C
<1>2. PICK k \in T : \A j \in T : k <= j
  BY LeastNat
<1>3. k # m /\ k \in Nat /\ k - 1 \in Nat /\ k - 1 >= m /\ (k - 1) + 1 = k
  BY <1>2
<1>4. C[m] \subseteq C[k - 1]
  BY <1>2, <1>3
<1>5. C[k - 1] \subseteq C[k]
  BY <1>1, <1>3
<1> QED BY <1>2, <1>4, <1>5

LEMMA CallIsContext ==
  ASSUME NEW prog \in Programs, NEW x \in Context, NEW y \in CallsIn(prog, x)
  PROVE  y \in Context
<1>1. x[1] \in Fn /\ x[2] \in Values
  BY DEF Context
<1>2. PICK i \in DOMAIN prog[x[1]] : y \in Keys[prog[x[1]][i].callee] \X {ValueIn(prog, x[1], i, x[2])}
  BY DEF CallsIn
<1>3. Keys[prog[x[1]][i].callee] \subseteq Fn /\ ValueIn(prog, x[1], i, x[2]) \in Values
  BY <1>1, BodyTyped, ValueTyped
<1> QED BY <1>2, <1>3 DEF Context

LEMMA ChainsAreContexts ==
  ASSUME NEW prog \in Programs, NEW n \in Nat
  PROVE  Chains(prog)[n] \subseteq Context
<1> DEFINE C == Chains(prog)
           T == {k \in Nat : ~(C[k] \subseteq Context)}
<1>1. C[0] = Fn \X {NoActual} /\ \A k \in Nat : C[k + 1] = NextChains(prog, C[k])
  BY ChainsStep
<1> HIDE DEF C
<1> SUFFICES ASSUME T # {} PROVE FALSE
  BY DEF C
<1>2. PICK k \in T : \A j \in T : k <= j
  BY LeastNat
<1>3. C[0] \subseteq Context
  <2>1. NoActual \in Values
    BY DEF NoActual, Values, Base
  <2> QED BY <1>1, <2>1 DEF Context
<1>4. k # 0 /\ k - 1 \in Nat /\ (k - 1) + 1 = k
  BY <1>2, <1>3
<1>5. C[k - 1] \subseteq Context
  BY <1>2, <1>4
<1>6. C[k] = NextChains(prog, C[k - 1])
  BY <1>1, <1>4
<1> QED BY <1>2, <1>5, <1>6, CallIsContext DEF NextChains

\* What the elements of a finite set have, finitely many each, is finite.
LEMMA CallsAreFinite ==
  ASSUME NEW prog \in Programs, NEW x \in Context
  PROVE  IsFiniteSet(CallsIn(prog, x))
<1>1. x[1] \in Fn
  BY DEF Context
<1> DEFINE D == DOMAIN prog[x[1]]
           each(i) == Keys[prog[x[1]][i].callee] \X {ValueIn(prog, x[1], i, x[2])}
           S == {each(i) : i \in D}
           f == [i \in D |-> each(i)]
<1>2. IsFiniteSet(D)
  BY <1>1, BodyTyped, FS_Interval
<1>3. \A i \in D : IsFiniteSet(each(i))
  <2> SUFFICES ASSUME NEW i \in D PROVE IsFiniteSet(each(i))
    OBVIOUS
  <2>1. IsFiniteSet(Keys[prog[x[1]][i].callee])
    BY <1>1, BodyTyped, EmissionConstants, FS_Subset
  <2>2. IsFiniteSet({ValueIn(prog, x[1], i, x[2])})
    BY FS_Singleton
  <2> QED BY <2>1, <2>2, FS_Product
<1> HIDE DEF each, D
<1>4. f \in Surjection(D, S)
  BY DEF Surjection
<1>5. IsFiniteSet(S)
  BY <1>2, <1>4, FS_Surjection
<1>6. IsFiniteSet(UNION S)
  <2>1. \A t \in S : IsFiniteSet(t)
    BY <1>3
  <2> HIDE DEF S
  <2> QED BY <1>5, <2>1, FS_UNION
<1> QED BY <1>6 DEF CallsIn, each, D

LEMMA ChainsAreFinite ==
  ASSUME NEW prog \in Programs, NEW n \in Nat
  PROVE  IsFiniteSet(Chains(prog)[n])
<1> DEFINE C == Chains(prog)
           T == {k \in Nat : ~IsFiniteSet(C[k])}
<1>1. /\ C[0] = Fn \X {NoActual} /\ \A k \in Nat : C[k + 1] = NextChains(prog, C[k])
      /\ \A k \in Nat : C[k] \subseteq Context
  BY ChainsStep, ChainsAreContexts
<1> HIDE DEF C
<1> SUFFICES ASSUME T # {} PROVE FALSE
  BY DEF C
<1>2. PICK k \in T : \A j \in T : k <= j
  BY LeastNat
<1>3. IsFiniteSet(C[0])
  <2>1. IsFiniteSet({NoActual})
    BY FS_Singleton
  <2>2. IsFiniteSet(Fn)
    BY EmissionConstants
  <2>3. IsFiniteSet(Fn \X {NoActual})
    BY <2>1, <2>2, FS_Product
  <2> QED BY <1>1, <2>3
<1>4. k # 0 /\ k - 1 \in Nat /\ (k - 1) + 1 = k
  BY <1>2, <1>3
<1> DEFINE W == C[k - 1]
           S == {CallsIn(prog, x) : x \in W}
           f == [x \in W |-> CallsIn(prog, x)]
<1>5. IsFiniteSet(W) /\ W \subseteq Context
  BY <1>1, <1>2, <1>4
<1>6. C[k] = W \cup UNION S
  BY <1>1, <1>4 DEF NextChains
<1>7. \A x \in W : IsFiniteSet(CallsIn(prog, x))
  BY <1>5, CallsAreFinite
<1> HIDE DEF W
<1>8. f \in Surjection(W, S)
  BY DEF Surjection
<1>9. IsFiniteSet(S)
  BY <1>5, <1>8, FS_Surjection
<1>10. IsFiniteSet(UNION S)
  <2>1. \A t \in S : IsFiniteSet(t)
    BY <1>7
  <2> HIDE DEF S
  <2> QED BY <1>9, <2>1, FS_UNION
<1> HIDE DEF S
<1>11. IsFiniteSet(W \cup UNION S)
  BY <1>5, <1>10, FS_Union
<1> QED BY <1>2, <1>6, <1>11

-----------------------------------------------------------------------------
(* What stacks have left to enter.                                         *)

LEMMA InWork ==
  ASSUME NEW s, NEW w
  PROVE  w \in Work(s) <=> \E i \in DOMAIN s : \E f \in s[i].keys : w = <<f, s[i].actual, s[i].depth>>
BY DEF Work

LEMMA WorkTyped ==
  ASSUME NEW s \in Seq(Frame), NEW w \in Work(s)
  PROVE  /\ w = <<w[1], w[2], w[3]>> /\ w[1] \in Fn /\ w[2] \in Values
         /\ w[3] \in 0 .. MaxDepth
<1>1. PICK i \in DOMAIN s : \E f \in s[i].keys : w = <<f, s[i].actual, s[i].depth>>
  BY InWork
<1>2. s[i] \in Frame
  BY <1>1
<1> QED BY <1>1, <1>2 DEF Frame

LEMMA WorkOfNone == Work(<<>>) = {}
BY DEF Work

LEMMA WorkOfOne ==
  ASSUME NEW fr \in Frame
  PROVE  Work(<<fr>>) = fr.keys \X {fr.actual} \X {fr.depth}
<1>1. DOMAIN <<fr>> = {1} /\ <<fr>>[1] = fr
  OBVIOUS
<1> QED BY <1>1 DEF Work

LEMMA WorkJoins ==
  ASSUME NEW s \in Seq(Frame), NEW t \in Seq(Frame)
  PROVE  Work(s \o t) = Work(s) \cup Work(t)
<1> DEFINE j == s \o t
<1>1. /\ Len(s) \in Nat /\ Len(t) \in Nat /\ DOMAIN s = 1 .. Len(s) /\ DOMAIN t = 1 .. Len(t)
      /\ DOMAIN j = 1 .. Len(s) + Len(t)
      /\ \A i \in 1 .. Len(s) + Len(t) : j[i] = IF i <= Len(s) THEN s[i] ELSE t[i - Len(s)]
  OBVIOUS
<1> HIDE DEF j
<1>2. ASSUME NEW w \in Work(j) PROVE w \in Work(s) \cup Work(t)
  <2>1. PICK i \in DOMAIN j : \E f \in j[i].keys : w = <<f, j[i].actual, j[i].depth>>
    BY InWork
  <2>2. CASE i <= Len(s)
    <3>1. i \in DOMAIN s /\ j[i] = s[i]
      BY <1>1, <2>1, <2>2
    <3> QED BY <2>1, <3>1, InWork
  <2>3. CASE ~(i <= Len(s))
    <3>1. i - Len(s) \in DOMAIN t /\ j[i] = t[i - Len(s)]
      BY <1>1, <2>1, <2>3
    <3> QED BY <2>1, <3>1, InWork
  <2> QED BY <2>2, <2>3
<1>3. ASSUME NEW w \in Work(s) PROVE w \in Work(j)
  <2>1. PICK i \in DOMAIN s : \E f \in s[i].keys : w = <<f, s[i].actual, s[i].depth>>
    BY InWork
  <2>2. i \in DOMAIN j /\ j[i] = s[i]
    BY <1>1, <2>1
  <2> QED BY <2>1, <2>2, InWork
<1>4. ASSUME NEW w \in Work(t) PROVE w \in Work(j)
  <2>1. PICK i \in DOMAIN t : \E f \in t[i].keys : w = <<f, t[i].actual, t[i].depth>>
    BY InWork
  <2>2. i + Len(s) \in DOMAIN j /\ j[i + Len(s)] = t[i]
    BY <1>1, <2>1
  <2> QED BY <2>1, <2>2, InWork
<1> QED BY <1>2, <1>3, <1>4 DEF j

LEMMA WorkAppends ==
  ASSUME NEW s \in Seq(Frame), NEW fr \in Frame
  PROVE  Work(Append(s, fr)) = Work(s) \cup fr.keys \X {fr.actual} \X {fr.depth}
<1>1. Append(s, fr) = s \o <<fr>> /\ <<fr>> \in Seq(Frame)
  OBVIOUS
<1>2. Work(s \o <<fr>>) = Work(s) \cup Work(<<fr>>)
  BY <1>1, WorkJoins
<1>3. Work(<<fr>>) = fr.keys \X {fr.actual} \X {fr.depth}
  BY WorkOfOne
<1> QED BY <1>1, <1>2, <1>3, Zenon

\* Taking f from the call on top leaves all that was there but f's.
LEMMA WorkBelow ==
  ASSUME stack \in Seq(Frame), stack # <<>>, NEW f \in Head(stack).keys
  PROVE  /\ Below(f) \in Seq(Frame)
         /\ Work(Below(f)) \subseteq Work(stack)
         /\ At(<<f, Head(stack).actual>>, Head(stack).depth) \in Work(stack)
         /\ \A w \in Work(stack) :
              w \in Work(Below(f)) \/ w = At(<<f, Head(stack).actual>>, Head(stack).depth)
<1> DEFINE h == Head(stack)
           rest == Tail(stack)
           others == h.keys \ {f}
           top == [h EXCEPT !.keys = others]
<1>1. h \in Frame /\ rest \in Seq(Frame) /\ stack = <<h>> \o rest /\ <<h>> \in Seq(Frame)
  OBVIOUS
<1>2. Work(stack) = (h.keys \X {h.actual} \X {h.depth}) \cup Work(rest)
  BY <1>1, WorkJoins, WorkOfOne
<1>3. /\ top \in Frame /\ <<top>> \in Seq(Frame)
      /\ top.keys = others /\ top.actual = h.actual /\ top.depth = h.depth
  BY <1>1 DEF Frame
<1>4. Below(f) = IF others = {} THEN rest ELSE <<top>> \o rest
  BY DEF Below
<1> HIDE DEF h, rest, others, top
<1>5. Work(<<top>> \o rest) = (others \X {h.actual} \X {h.depth}) \cup Work(rest)
  <2>1. Work(<<top>> \o rest) = Work(<<top>>) \cup Work(rest)
    BY <1>1, <1>3, WorkJoins
  <2>2. Work(<<top>>) = top.keys \X {top.actual} \X {top.depth}
    BY <1>3, WorkOfOne
  <2> QED BY <1>3, <2>1, <2>2
<1>6. Below(f) \in Seq(Frame) /\ Work(Below(f)) = (others \X {h.actual} \X {h.depth}) \cup Work(rest)
  <2>1. CASE others = {}
    BY <1>1, <1>4, <2>1
  <2>2. CASE others # {}
    BY <1>1, <1>3, <1>4, <1>5, <2>2
  <2> QED BY <2>1, <2>2
<1>7. \A w : w \in h.keys \X {h.actual} \X {h.depth} <=> \E k \in h.keys : w = <<k, h.actual, h.depth>>
  OBVIOUS
<1>8. \A w : w \in others \X {h.actual} \X {h.depth} <=> \E k \in others : w = <<k, h.actual, h.depth>>
  OBVIOUS
<1>9. f \in h.keys /\ \A k : k \in others <=> k \in h.keys /\ k # f
  BY DEF h, others
<1>10. At(<<f, h.actual>>, h.depth) = <<f, h.actual, h.depth>>
  BY DEF At
<1>11. /\ Work(Below(f)) \subseteq Work(stack)
       /\ At(<<f, h.actual>>, h.depth) \in Work(stack)
       /\ \A w \in Work(stack) : w \in Work(Below(f)) \/ w = At(<<f, h.actual>>, h.depth)
  BY <1>2, <1>6, <1>7, <1>8, <1>9, <1>10
<1> QED BY <1>6, <1>11 DEF h

-----------------------------------------------------------------------------
(* The invariant holds initially, and every step keeps it.                 *)

LEMMA Basics ==
  /\ MaxDepth \in Nat \ {0}
  /\ NoActual \in Values
  /\ \A v \in Visit : v # Idle
<1>1. \A v \in Visit : v # Idle
  BY DEF Visit, Idle
<1> QED BY <1>1, EmissionConstants DEF NoActual, Values, Base

LEMMA WalkStarts == Init => WalkInv
<1> SUFFICES ASSUME Init PROVE WalkInv
  OBVIOUS
<1> USE DEF Init
<1>1. WalkTyped
  BY DEF WalkTyped
<1>2. ScanInv
  BY DEF ScanInv
<1>3. OrderInv
  BY WorkOfNone DEF OrderInv
<1>4. RealInv
  BY WorkOfNone DEF RealInv
<1>5. DepthInv
  BY WorkOfNone, FS_EmptySet DEF DepthInv
<1>6. FollowInv
  BY DEF FollowInv
<1>7. StartInv
  BY DEF StartInv
<1>8. SeenInv
  BY DEF SeenInv
<1>9. OriginInv
  BY DEF OriginInv
<1>10. ReportInv
  BY DEF ReportInv
<1> QED BY <1>1, <1>2, <1>3, <1>4, <1>5, <1>6, <1>7, <1>8, <1>9, <1>10 DEF WalkInv

\* Steps that leave the walk where it is.
LEMMA SeenStays ==
  ASSUME SeenInv, OriginInv, UNCHANGED <<body, reach, scan, visited, seen, findings>>
  PROVE  SeenInv' /\ OriginInv'
<1>1. SeenInv'
  BY DEF SeenInv, KeyAt, Current
<1>2. OriginInv'
  BY DEF OriginInv, Reduced
<1> QED BY <1>1, <1>2

LEMMA ReportStays ==
  ASSUME ReportInv, phase # "done", phase' # "done", UNCHANGED report
  PROVE  ReportInv'
BY DEF ReportInv

LEMMA StartFromKeeps ==
  ASSUME WalkInv, NEW f \in left, StartFrom(f)
  PROVE  WalkInv'
<1> DEFINE fr == [keys |-> {f}, actual |-> NoActual, depth |-> MaxDepth]
<1> USE DEF WalkInv
<1>1. /\ stack = <<>> /\ scan = Idle /\ left' = left \ {f} /\ stack' = <<fr>>
      /\ UNCHANGED <<body, reach, phase, scan, visited, seen, findings, report>>
  BY DEF StartFrom, AtLoop, program
<1>2. f \in Fn /\ fr \in Frame
  BY Basics DEF WalkTyped, Frame
<1>3. Work(stack) = {} /\ \A w \in Work(stack') : w[1] = f /\ w[2] = NoActual /\ w[3] = MaxDepth
  <2>1. Work(stack') = {f} \X {NoActual} \X {MaxDepth}
    BY <1>1, <1>2, WorkOfOne
  <2> QED BY <1>1, <2>1, WorkOfNone
<1>4. phase # "done"
  BY <1>1 DEF StartInv
<1>5. WalkTyped'
  BY <1>1, <1>2 DEF WalkTyped
<1>6. ScanInv'
  BY <1>1 DEF ScanInv
<1>7. OrderInv'
  BY <1>1, <1>3 DEF OrderInv
<1>8. RealInv'
  <2>1. <<f, NoActual>> \in Chains(body)[0] /\ MaxDepth - MaxDepth = 0
    BY <1>2, Basics, ChainsStep
  <2> QED BY <1>1, <1>3, <2>1 DEF RealInv
<1>9. DepthInv'
  <2>1. Cardinality(visited) \in Nat
    BY FS_CardinalityType DEF DepthInv
  <2>2. \A w \in Work(stack') : Cardinality(visited) >= MaxDepth - w[3]
    BY <1>3, <2>1, Basics
  <2> QED BY <1>1, <2>2 DEF DepthInv
<1>10. FollowInv'
  BY <1>1, <1>3 DEF FollowInv, Follows
<1>11. StartInv'
  BY <1>1, <1>4 DEF StartInv, Started
<1> QED BY <1>1, <1>4, <1>5, <1>6, <1>7, <1>8, <1>9, <1>10, <1>11, SeenStays, ReportStays

LEMMA StartOthersKeeps ==
  ASSUME WalkInv, StartOthers
  PROVE  WalkInv'
<1> USE DEF WalkInv
<1>1. /\ stack = <<>> /\ scan = Idle /\ phase = "reached" /\ left = {}
      /\ phase' = "others" /\ left' = Fn \ reach
      /\ UNCHANGED <<body, reach, stack, scan, visited, seen, findings, report>>
  BY DEF StartOthers, AtLoop, program
<1>2. WalkTyped'
  BY <1>1 DEF WalkTyped
<1>3. ScanInv' /\ OrderInv' /\ RealInv' /\ DepthInv'
  BY <1>1, WorkOfNone DEF ScanInv, OrderInv, RealInv, DepthInv
<1>4. FollowInv'
  BY <1>1, WorkOfNone DEF FollowInv, Follows
<1>5. StartInv'
  BY <1>1 DEF StartInv, Started
<1> QED BY <1>1, <1>2, <1>3, <1>4, <1>5, SeenStays, ReportStays

LEMMA DeduplicateKeeps ==
  ASSUME WalkInv, Deduplicate
  PROVE  WalkInv'
<1> USE DEF WalkInv
<1>1. /\ stack = <<>> /\ scan = Idle /\ phase = "others" /\ left = {} /\ phase' = "done"
      /\ report' = {findings[i] : i \in {k \in DOMAIN findings : Kept(k)}}
      /\ UNCHANGED <<body, reach, left, stack, scan, visited, seen, findings>>
  BY DEF Deduplicate, AtLoop, program
<1>2. WalkTyped'
  BY <1>1 DEF WalkTyped
<1>3. ScanInv' /\ OrderInv' /\ RealInv' /\ DepthInv'
  BY <1>1, WorkOfNone DEF ScanInv, OrderInv, RealInv, DepthInv
<1>4. FollowInv'
  BY <1>1, WorkOfNone DEF FollowInv, Follows
<1>5. StartInv'
  BY <1>1 DEF StartInv, Started, AtLoop
<1>6. ReportInv'
  <2>1. \A k : Kept(k)' = Kept(k)
    BY <1>1 DEF Kept, SamePlace
  <2> QED BY <1>1, <2>1 DEF ReportInv
<1> QED BY <1>1, <1>2, <1>3, <1>4, <1>5, <1>6, SeenStays

LEMMA StutterKeeps ==
  ASSUME WalkInv, UNCHANGED vars
  PROVE  WalkInv'
<1> USE DEF WalkInv
<1>1. UNCHANGED <<body, reach, phase, left, stack, scan, visited, seen, findings, report>>
  BY DEF vars
<1>2. WalkTyped'
  BY <1>1 DEF WalkTyped
<1>3. ScanInv' /\ OrderInv' /\ RealInv' /\ DepthInv'
  BY <1>1 DEF ScanInv, OrderInv, RealInv, DepthInv, Current
<1>4. FollowInv'
  BY <1>1 DEF FollowInv, Follows, Current
<1>5. StartInv'
  BY <1>1 DEF StartInv, Started, AtLoop
<1>6. ReportInv'
  <2>1. \A k : Kept(k)' = Kept(k)
    BY <1>1 DEF Kept, SamePlace
  <2> QED BY <1>1, <2>1 DEF ReportInv
<1> QED BY <1>1, <1>2, <1>3, <1>4, <1>5, <1>6, SeenStays

\* If the program has no more contexts than the walk has levels, depth runs out
\* only when all of them have been visited.
LEMMA DepthSuffices ==
  ASSUME WalkInv, Cardinality(Chains(body)[MaxDepth]) <= MaxDepth, NEW w \in Work(stack), w[3] = 0
  PROVE  <<w[1], w[2]>> \in visited
<1> DEFINE C == Chains(body)[MaxDepth]
<1>1. body \in Programs /\ MaxDepth \in Nat \ {0} /\ MaxDepth - 0 = MaxDepth
  BY Basics DEF WalkInv, WalkTyped
<1>2. IsFiniteSet(C)
  BY <1>1, ChainsAreFinite
<1>3. visited \subseteq C
  <2>1. MaxDepth - 1 \in 0 .. MaxDepth
    BY <1>1
  <2>2. Chains(body)[MaxDepth - 1] \subseteq Chains(body)[MaxDepth]
    BY <1>1, <2>1, ChainsGrow
  <2> QED BY <2>2 DEF WalkInv, RealInv
<1>4. Cardinality(visited) >= MaxDepth /\ <<w[1], w[2]>> \in C
  BY <1>1 DEF WalkInv, DepthInv, RealInv
<1>5. Cardinality(C) <= MaxDepth
  OBVIOUS
<1> HIDE DEF C
<1>6. Cardinality(visited) \in Nat /\ Cardinality(C) \in Nat
  BY <1>2, <1>3, FS_Subset, FS_CardinalityType
<1>7. Cardinality(visited) <= Cardinality(C) /\ (Cardinality(C) = Cardinality(visited) => C = visited)
  BY <1>2, <1>3, FS_Subset
<1>8. Cardinality(C) = Cardinality(visited)
  BY <1>1, <1>4, <1>5, <1>6, <1>7
<1> QED BY <1>4, <1>7, <1>8

\* The call on top, and that f is a context of it.
LEMMA TopOfWork ==
  ASSUME WalkInv, stack # <<>>, NEW f \in Head(stack).keys
  PROVE  LET c == <<f, Head(stack).actual>>
             d == Head(stack).depth
         IN  /\ f \in Fn /\ Head(stack).actual \in Values /\ d \in 0 .. MaxDepth
             /\ At(c, d) \in Work(stack) /\ At(c, d)[1] = f /\ At(c, d)[3] = d
             /\ <<At(c, d)[1], At(c, d)[2]>> = c
             /\ Below(f) \in Seq(Frame) /\ Work(Below(f)) \subseteq Work(stack)
             /\ \A w \in Work(stack) : w \in Work(Below(f)) \/ <<w[1], w[2]>> = c
             /\ phase # "done"
             /\ \A g : Started(g) => f = g /\ Head(stack).actual = NoActual /\ d = MaxDepth
<1> DEFINE h == Head(stack)
<1>1. stack \in Seq(Frame)
  BY DEF WalkInv, WalkTyped
<1>2. h \in Frame
  BY <1>1
<1>3. f \in Fn /\ h.actual \in Values /\ h.depth \in 0 .. MaxDepth
  BY <1>2 DEF Frame
<1>4. phase # "done"
  BY DEF WalkInv, StartInv, AtLoop
<1>5. \A g : Started(g) => f = g /\ Head(stack).actual = NoActual /\ h.depth = MaxDepth
  BY DEF Started
<1> QED BY <1>1, <1>3, <1>4, <1>5, WorkBelow DEF At

LEMMA SkipKeeps ==
  ASSUME WalkInv, NEW f \in Fn, Skip(f)
  PROVE  WalkInv'
<1> USE DEF WalkInv
<1> DEFINE c == <<f, Head(stack).actual>>
           d == Head(stack).depth
<1>1. /\ scan = Idle /\ stack # <<>> /\ f \in Head(stack).keys /\ stack' = Below(f)
      /\ d = 0 \/ c \in visited
      /\ UNCHANGED <<body, reach, phase, left, scan, visited, seen, findings, report>>
  BY DEF Skip, Skipped, program
<1>2. /\ stack' \in Seq(Frame) /\ Work(stack') \subseteq Work(stack)
      /\ \A w \in Work(stack) : w \in Work(stack') \/ <<w[1], w[2]>> = c
      /\ phase # "done"
      /\ \A g : Started(g) => f = g /\ Head(stack).actual = NoActual /\ d = MaxDepth
  BY <1>1, TopOfWork
<1>3. Cardinality(Chains(body)[MaxDepth]) <= MaxDepth => c \in visited
  BY <1>1, TopOfWork, DepthSuffices
<1> HIDE DEF c, d
<1>4. WalkTyped'
  BY <1>1, <1>2 DEF WalkTyped
<1>5. ScanInv' /\ OrderInv' /\ RealInv' /\ DepthInv'
  BY <1>1, <1>2 DEF ScanInv, OrderInv, RealInv, DepthInv
<1>6. FollowInv'
  BY <1>1, <1>2, <1>3 DEF FollowInv, Follows
<1>7. StartInv'
  <2>1. ASSUME NEW g \in Fn, Started(g) PROVE <<g, NoActual>> \in visited
    BY <1>1, <1>2, <2>1, Basics DEF c
  <2> QED BY <1>1, <1>2, <2>1 DEF StartInv
<1> QED BY <1>1, <1>2, <1>4, <1>5, <1>6, <1>7, SeenStays, ReportStays

LEMMA EnterKeeps ==
  ASSUME WalkInv, NEW f \in Fn, Enter(f)
  PROVE  WalkInv'
<1> USE DEF WalkInv
<1> DEFINE a == Head(stack).actual
           c == <<f, a>>
           d == Head(stack).depth
<1>1. /\ scan = Idle /\ stack # <<>> /\ f \in Head(stack).keys /\ stack' = Below(f)
      /\ d # 0 /\ c \notin visited /\ visited' = visited \cup {c}
      /\ scan' = [fn |-> f, actual |-> a, depth |-> d, at |-> 1, field |-> Field0[f], out |-> <<>>]
      /\ UNCHANGED <<body, reach, phase, left, seen, findings, report>>
  BY DEF Enter, Skipped, program
<1>2. /\ a \in Values /\ d \in 0 .. MaxDepth
      /\ At(c, d) \in Work(stack) /\ At(c, d)[1] = f /\ At(c, d)[3] = d /\ <<At(c, d)[1], At(c, d)[2]>> = c
      /\ stack' \in Seq(Frame) /\ Work(stack') \subseteq Work(stack)
      /\ \A w \in Work(stack) : w \in Work(stack') \/ <<w[1], w[2]>> = c
      /\ phase # "done"
      /\ \A g : Started(g) => f = g /\ a = NoActual
  BY <1>1, TopOfWork
<1>3. body \in Programs /\ d \in 1 .. MaxDepth /\ MaxDepth \in Nat \ {0} /\ d \in Nat
  BY <1>1, <1>2, Basics DEF WalkTyped
<1> HIDE DEF a, d
<1>4. scan' \in Visit /\ scan' # Idle
  <2>1. Field0[f] \in Base /\ <<>> \in Seq(Frame)
    BY EmissionConstants
  <2>2. scan' \in Visit
    BY <1>1, <1>2, <1>3, <2>1 DEF Visit
  <2> QED BY <2>2, Basics
<1>5. /\ Current' = c /\ scan'.fn = f /\ scan'.at = 1 /\ scan'.depth = d /\ scan'.field = Field0[f]
      /\ scan'.out = <<>> /\ Work(scan'.out) = {}
  BY <1>1, WorkOfNone DEF Current
<1>6. WalkTyped'
  BY <1>1, <1>2, <1>4 DEF WalkTyped, Context
<1>7. ScanInv'
  <2>1. FieldIn(body, f, 1) = Field0[f]
    BY DEF FieldIn
  <2>2. 1 <= Len(body[f]) + 1
    BY <1>3, BodyTyped
  <2> QED BY <1>1, <1>5, <2>1, <2>2 DEF ScanInv
<1>8. OrderInv'
  BY <1>1, <1>2, <1>5 DEF OrderInv
<1>9. RealInv'
  <2>1. c \in Chains(body)[MaxDepth - d]
    BY <1>2 DEF RealInv
  <2>2. MaxDepth - d \in 0 .. MaxDepth - 1 /\ MaxDepth - 1 \in Nat
    BY <1>3
  <2>3. Chains(body)[MaxDepth - d] \subseteq Chains(body)[MaxDepth - 1]
    BY <2>2, ChainsGrow
  <2> QED BY <1>1, <1>2, <1>5, <2>1, <2>3 DEF RealInv
<1>10. DepthInv'
  <2>1. IsFiniteSet(visited) /\ Cardinality(visited) \in Nat
    BY FS_CardinalityType DEF DepthInv
  <2>2. IsFiniteSet(visited') /\ Cardinality(visited') = Cardinality(visited) + 1
    BY <1>1, <2>1, FS_AddElement
  <2>3. Cardinality(visited) >= MaxDepth - d
    BY <1>2 DEF DepthInv
  <2>4. \A w \in Work(stack') : w[3] \in Nat /\ Cardinality(visited) >= MaxDepth - w[3]
    BY <1>2, WorkTyped DEF DepthInv
  <2>5. \A w \in Work(stack') : Cardinality(visited') >= MaxDepth - w[3]
    BY <1>3, <2>1, <2>2, <2>4
  <2>6. Cardinality(visited') >= MaxDepth - d + 1
    BY <1>3, <2>1, <2>2, <2>3
  <2> QED BY <1>5, <2>2, <2>5, <2>6 DEF DepthInv
<1>11. FollowInv'
  <2> SUFFICES ASSUME Cardinality(Chains(body)[MaxDepth]) <= MaxDepth,
                      NEW x \in visited', NEW i \in DOMAIN body[x[1]]
               PROVE  Follows(x, i)'
    BY <1>1 DEF FollowInv
  <2>1. CASE x \in visited
    BY <1>1, <1>2, <2>1 DEF FollowInv, Follows
  <2>2. CASE x = c
    <3>1. x[1] = f
      BY <2>2
    <3>2. i >= scan'.at
      BY <1>3, <1>5, <3>1, BodyTyped
    <3> QED BY <1>4, <1>5, <2>2, <3>2 DEF Follows
  <2> QED BY <1>1, <2>1, <2>2
<1>12. StartInv'
  <2>1. ASSUME NEW g \in Fn, Started(g) PROVE <<g, NoActual>> \in visited'
    BY <1>1, <1>2, <2>1
  <2> QED BY <1>1, <1>2, <2>1 DEF StartInv
<1>13. SeenInv'
  <2>1. ASSUME NEW x \in visited', NEW i \in DOMAIN body[x[1]]
        PROVE  KeyAt(x, i)' \in seen \/ (scan' # Idle /\ x = Current' /\ i >= scan'.at)
    <3>1. CASE x \in visited
      BY <1>1, <2>1, <3>1 DEF SeenInv, KeyAt
    <3>2. CASE x = c
      <4>1. x[1] = f
        BY <3>2
      <4>2. i >= scan'.at
        BY <1>3, <1>5, <2>1, <4>1, BodyTyped
      <4> QED BY <1>4, <1>5, <3>2, <4>2
    <3> QED BY <1>1, <3>1, <3>2
  <2> QED BY <1>1, <2>1 DEF SeenInv
<1>14. OriginInv'
  BY <1>1 DEF OriginInv, Reduced
<1> QED BY <1>1, <1>2, <1>6, <1>7, <1>8, <1>9, <1>10, <1>11, <1>12, <1>13, <1>14, ReportStays

LEMMA VisitCallKeeps ==
  ASSUME WalkInv, VisitCall
  PROVE  WalkInv'
<1> USE DEF WalkInv
<1> DEFINE f == scan.fn
           at == scan.at
           s == body[f][at]
           v == Value(s.arg, scan.actual, scan.field)
           key == <<s.line, s.col, s.callee, v>>
           called == Keys[s.callee]
           fr == [keys |-> called, actual |-> v, depth |-> scan.depth - 1]
           new == key \notin seen /\ Emits(s.callee, v)
           found == [line |-> s.line, callee |-> s.callee, value |-> v, reduced |-> Reduced(f)]
<1>1. /\ scan # Idle /\ at <= Len(body[f]) /\ seen' = seen \cup {key}
      /\ findings' = IF new THEN Append(findings, found) ELSE findings
      /\ scan' = [scan EXCEPT
                    !.at = at + 1,
                    !.out = IF called = {} THEN scan.out ELSE Append(scan.out, fr),
                    !.field = IF s.effect = "none" THEN scan.field ELSE s.effect]
      /\ UNCHANGED <<body, reach, phase, left, stack, visited, report>>
  BY DEF VisitCall, program
<1>2. /\ body \in Programs /\ f \in Fn /\ scan \in Visit /\ scan.actual \in Values /\ at \in Nat \ {0}
      /\ scan.depth \in 1 .. MaxDepth /\ scan.out \in Seq(Frame)
  BY <1>1 DEF WalkTyped, Visit
<1>3. at \in DOMAIN body[f] /\ s \in Site /\ called \subseteq Fn /\ s.effect \in Base
  <2>1. /\ Len(body[f]) \in Nat /\ DOMAIN body[f] = 1 .. Len(body[f])
        /\ \A i \in DOMAIN body[f] : /\ body[f][i] \in Site /\ Keys[body[f][i].callee] \subseteq Fn
                                     /\ body[f][i].effect \in Base
    BY <1>2, BodyTyped
  <2>2. at \in DOMAIN body[f]
    <3>1. at \in Nat \ {0} /\ at <= Len(body[f])
      BY <1>1, <1>2, Zenon
    <3> HIDE DEF at
    <3> QED BY <2>1, <3>1
  <2> QED BY <2>1, <2>2
<1>4. v = ValueIn(body, f, at, scan.actual) /\ v \in Values
  BY <1>1, <1>2, <1>3, ValueTyped DEF ScanInv, ValueIn
<1>5. Current \in visited /\ Current[1] = f /\ Current[2] = scan.actual /\ KeyAt(Current, at) = key
  BY <1>1, <1>4 DEF ScanInv, Current, KeyAt
<1>6. MaxDepth \in Nat \ {0} /\ fr \in Frame
  BY <1>2, <1>3, <1>4, Basics DEF Frame
<1>7. s.line \in Nat /\ s.callee \in Callee
  BY <1>3 DEF Site
<1>8. phase # "done"
  BY <1>1 DEF StartInv, AtLoop
<1> HIDE DEF v, s, called, at, f
<1>9. scan' \in Visit /\ scan' # Idle
  <2>1. (IF called = {} THEN scan.out ELSE Append(scan.out, fr)) \in Seq(Frame)
    BY <1>2, <1>6
  <2>2. (IF s.effect = "none" THEN scan.field ELSE s.effect) \in Base
    BY <1>2, <1>3 DEF Visit
  <2>3. at + 1 \in Nat \ {0}
    BY <1>2
  <2>4. scan' \in Visit
    BY <1>1, <1>2, <2>1, <2>2, <2>3 DEF Visit
  <2> QED BY <2>4, Basics
<1>10. /\ scan'.fn = f /\ scan'.actual = scan.actual /\ scan'.depth = scan.depth /\ scan'.at = at + 1
       /\ scan'.out = (IF called = {} THEN scan.out ELSE Append(scan.out, fr))
       /\ scan'.field = (IF s.effect = "none" THEN scan.field ELSE s.effect)
       /\ Current' = Current
  BY <1>1, <1>2 DEF Visit, Current, f
<1>11. Work(scan'.out) = Work(scan.out) \cup called \X {v} \X {scan.depth - 1}
  <2>1. CASE called = {}
    BY <1>10, <2>1
  <2>2. CASE called # {}
    <3>1. fr.keys = called /\ fr.actual = v /\ fr.depth = scan.depth - 1
      OBVIOUS
    <3> HIDE DEF fr
    <3> QED BY <1>2, <1>6, <1>10, <2>2, <3>1, WorkAppends
  <2> QED BY <2>1, <2>2
<1>12. WalkTyped'
  <2>1. found \in Finding
    BY <1>4, <1>7 DEF Finding, Reduced
  <2> HIDE DEF found, new
  <2>2. findings' \in Seq(Finding)
    BY <1>1, <2>1 DEF WalkTyped
  <2> QED BY <1>1, <1>9, <2>2 DEF WalkTyped
<1>13. ScanInv'
  <2>1. FieldIn(body, f, at + 1) = IF s.effect = "none" THEN FieldIn(body, f, at) ELSE s.effect
    BY <1>2, <1>3, FieldNext DEF s
  <2>2. scan.field = FieldIn(body, f, at)
    BY <1>1 DEF ScanInv, f, at
  <2>3. at + 1 <= Len(body[f]) + 1
    BY <1>1, <1>2, BodyTyped DEF f, at
  <2> QED BY <1>1, <1>5, <1>10, <2>1, <2>2, <2>3 DEF ScanInv
<1>14. OrderInv'
  <2>1. ASSUME phase = "reached" PROVE called \subseteq reach
    BY <1>1, <1>3, <2>1 DEF OrderInv, ClosedUnderCalls, called, s, at, f
  <2>2. phase = "reached" => \A w \in Work(scan'.out) : w[1] \in reach
    BY <1>1, <1>11, <2>1 DEF OrderInv
  <2> QED BY <1>1, <1>10, <2>2 DEF OrderInv, f
<1>15. RealInv'
  <2>1. Current \in Chains(body)[MaxDepth - scan.depth]
    BY <1>1 DEF RealInv
  <2>2. /\ MaxDepth - scan.depth \in Nat
        /\ MaxDepth - (scan.depth - 1) = (MaxDepth - scan.depth) + 1
    BY <1>2, <1>6
  <2>3. \A k \in called : <<k, v>> \in CallsIn(body, Current)
    BY <1>3, <1>4, <1>5 DEF CallsIn, called, s
  <2>4. \A k \in called : <<k, v>> \in Chains(body)[MaxDepth - (scan.depth - 1)]
    <3> DEFINE n == MaxDepth - scan.depth
    <3>1. Chains(body)[n + 1] = NextChains(body, Chains(body)[n])
      BY <2>2, ChainsStep
    <3>2. \A k \in called : <<k, v>> \in Chains(body)[n + 1]
      BY <2>1, <2>3, <3>1 DEF NextChains
    <3> QED BY <2>2, <3>2
  <2>5. \A w \in called \X {v} \X {scan.depth - 1} :
          w[3] = scan.depth - 1 /\ <<w[1], w[2]>> \in Chains(body)[MaxDepth - w[3]]
    BY <2>4
  <2>6. \A w \in Work(scan.out) :
          w[3] = scan.depth - 1 /\ <<w[1], w[2]>> \in Chains(body)[MaxDepth - w[3]]
    BY <1>1 DEF RealInv
  <2>7. \A w \in Work(scan'.out) :
          w[3] = scan.depth - 1 /\ <<w[1], w[2]>> \in Chains(body)[MaxDepth - w[3]]
    BY <1>11, <2>5, <2>6
  <2> QED BY <1>1, <1>10, <2>1, <2>7 DEF RealInv
<1>16. DepthInv'
  BY <1>1, <1>10 DEF DepthInv
<1>17. FollowInv'
  <2> SUFFICES ASSUME Cardinality(Chains(body)[MaxDepth]) <= MaxDepth,
                      NEW x \in visited, NEW i \in DOMAIN body[x[1]],
                      NEW y \in Keys[body[x[1]][i].callee] \X {ValueIn(body, x[1], i, x[2])}
               PROVE  \/ y \in visited
                      \/ \E w \in Work(stack) : <<w[1], w[2]>> = y
                      \/ x = Current /\ (i >= at + 1 \/ \E w \in Work(scan'.out) : <<w[1], w[2]>> = y)
    BY <1>1, <1>9, <1>10 DEF FollowInv, Follows
  <2>1. Follows(x, i)
    BY DEF FollowInv
  <2>2. CASE x = Current /\ i = at
    <3>1. y \in called \X {v}
      BY <1>4, <1>5, <2>2 DEF called, s
    <3>2. <<y[1], y[2], scan.depth - 1>> \in Work(scan'.out) /\ <<y[1], y[2]>> = y
      BY <1>11, <3>1
    <3> QED BY <2>2, <3>2
  <2>3. CASE x = Current /\ i # at
    <3>1. i \in Nat
      BY <1>2, <1>5, <2>3, BodyTyped
    <3>2. i >= at => i >= at + 1
      BY <1>2, <2>3, <3>1
    <3> QED BY <1>1, <1>11, <2>1, <2>3, <3>2 DEF Follows, at
  <2>4. CASE x # Current
    BY <2>1, <2>4 DEF Follows
  <2> QED BY <2>2, <2>3, <2>4
<1>18. StartInv'
  BY <1>1, <1>8, <1>9 DEF StartInv, Started
<1>19. SeenInv'
  <2>1. ASSUME NEW x \in visited, NEW i \in DOMAIN body[x[1]]
        PROVE  KeyAt(x, i) \in seen' \/ (scan' # Idle /\ x = Current' /\ i >= scan'.at)
    <3>1. CASE x = Current /\ i = at
      BY <1>1, <1>5, <3>1
    <3>2. CASE x = Current /\ i # at
      <4>1. i \in Nat
        BY <1>2, <1>5, <2>1, <3>2, BodyTyped
      <4>2. i >= at => i >= at + 1
        BY <1>2, <3>2, <4>1
      <4> QED BY <1>1, <1>9, <1>10, <2>1, <3>2, <4>2 DEF SeenInv, at
    <3>3. CASE x # Current
      BY <1>1, <2>1, <3>3 DEF SeenInv
    <3> QED BY <3>1, <3>2, <3>3
  <2>2. \A x, i : KeyAt(x, i)' = KeyAt(x, i)
    BY <1>1 DEF KeyAt
  <2>3. ASSUME NEW k \in seen', Emits(k[3], k[4])
        PROVE  \E j \in DOMAIN findings' :
                 findings'[j].line = k[1] /\ findings'[j].callee = k[3] /\ findings'[j].value = k[4]
    <3>1. findings \in Seq(Finding)
      BY DEF WalkTyped
    <3>2. CASE k \in seen
      <4>1. PICK j \in DOMAIN findings :
              findings[j].line = k[1] /\ findings[j].callee = k[3] /\ findings[j].value = k[4]
        BY <2>3, <3>2 DEF SeenInv
      <4>2. j \in DOMAIN findings' /\ findings'[j] = findings[j]
        BY <1>1, <3>1, <4>1
      <4> QED BY <4>1, <4>2
    <3>3. CASE k \notin seen
      <4>1. k = key /\ new /\ k[1] = s.line /\ k[3] = s.callee /\ k[4] = v
        BY <1>1, <2>3, <3>3
      <4>2. findings' = Append(findings, found)
        BY <1>1, <4>1
      <4>3. found.line = s.line /\ found.callee = s.callee /\ found.value = v
        OBVIOUS
      <4> HIDE DEF found
      <4>4. Len(findings) + 1 \in DOMAIN findings' /\ findings'[Len(findings) + 1] = found
        BY <3>1, <4>2
      <4> QED BY <4>1, <4>3, <4>4
    <3> QED BY <3>2, <3>3
  <2> QED BY <1>1, <2>1, <2>2, <2>3 DEF SeenInv
<1>20. OriginInv'
  <2> DEFINE Has(j) == \E g \in Fn : \E i \in DOMAIN body[g] :
                         /\ body[g][i].line = findings'[j].line /\ body[g][i].callee = findings'[j].callee
                         /\ findings'[j].reduced = Reduced(g)
  <2>1. findings \in Seq(Finding)
    BY DEF WalkTyped
  <2>2. ASSUME NEW j \in DOMAIN findings', j \in DOMAIN findings PROVE Has(j)
    <3>1. findings'[j] = findings[j]
      BY <1>1, <2>1, <2>2
    <3> QED BY <2>2, <3>1 DEF OriginInv
  <2>3. ASSUME NEW j \in DOMAIN findings', j \notin DOMAIN findings PROVE Has(j)
    <3>1. found.line = s.line /\ found.callee = s.callee /\ found.reduced = Reduced(f)
      OBVIOUS
    <3> HIDE DEF found, new
    <3>2. findings'[j] = found
      BY <1>1, <2>1, <2>3
    <3> QED BY <1>2, <1>3, <3>1, <3>2 DEF s
  <2>4. \A g : Reduced(g)' = Reduced(g)
    BY <1>1 DEF Reduced
  <2> QED BY <1>1, <2>2, <2>3, <2>4 DEF OriginInv
<1> QED BY <1>1, <1>8, <1>12, <1>13, <1>14, <1>15, <1>16, <1>17, <1>18, <1>19, <1>20, ReportStays

LEMMA EndBodyKeeps ==
  ASSUME WalkInv, EndBody
  PROVE  WalkInv'
<1> USE DEF WalkInv
<1>1. /\ scan # Idle /\ scan.at > Len(body[scan.fn]) /\ stack' = scan.out \o stack /\ scan' = Idle
      /\ UNCHANGED <<body, reach, phase, left, visited, seen, findings, report>>
  BY DEF EndBody, program
<1>2. /\ body \in Programs /\ scan.fn \in Fn /\ scan.at \in Nat /\ scan.depth \in 1 .. MaxDepth
      /\ scan.out \in Seq(Frame) /\ stack \in Seq(Frame)
  BY <1>1 DEF WalkTyped, Visit
<1>3. stack' \in Seq(Frame) /\ Work(stack') = Work(scan.out) \cup Work(stack)
  BY <1>1, <1>2, WorkJoins
<1>4. phase # "done"
  BY <1>1 DEF StartInv, AtLoop
<1>5. Current[1] = scan.fn /\ \A i \in DOMAIN body[scan.fn] : ~(i >= scan.at)
  BY <1>1, <1>2, BodyTyped DEF Current
<1>6. WalkTyped'
  BY <1>1, <1>3 DEF WalkTyped
<1>7. ScanInv'
  BY <1>1 DEF ScanInv
<1>8. OrderInv'
  BY <1>1, <1>3 DEF OrderInv
<1>9. RealInv'
  BY <1>1, <1>3 DEF RealInv
<1>10. DepthInv'
  <2>1. Cardinality(visited) \in Nat /\ MaxDepth \in Nat
    BY FS_CardinalityType, Basics DEF DepthInv
  <2>2. \A w \in Work(scan.out) : w[3] = scan.depth - 1
    BY <1>1 DEF RealInv
  <2>3. Cardinality(visited) >= MaxDepth - (scan.depth - 1)
    BY <1>1, <1>2, <2>1 DEF DepthInv
  <2>4. \A w \in Work(scan.out) : Cardinality(visited) >= MaxDepth - w[3]
    BY <2>2, <2>3
  <2> QED BY <1>1, <1>3, <2>4 DEF DepthInv
<1>11. FollowInv'
  <2> SUFFICES ASSUME Cardinality(Chains(body)[MaxDepth]) <= MaxDepth,
                      NEW x \in visited, NEW i \in DOMAIN body[x[1]],
                      NEW y \in Keys[body[x[1]][i].callee] \X {ValueIn(body, x[1], i, x[2])}
               PROVE  y \in visited \/ \E w \in Work(stack') : <<w[1], w[2]>> = y
    BY <1>1 DEF FollowInv, Follows
  <2>1. Follows(x, i)
    BY DEF FollowInv
  <2> QED BY <1>3, <1>5, <2>1 DEF Follows
<1>12. StartInv'
  BY <1>1, <1>4 DEF StartInv, Started
<1>13. SeenInv'
  BY <1>1, <1>5 DEF SeenInv, KeyAt
<1>14. OriginInv'
  BY <1>1 DEF OriginInv, Reduced
<1> QED BY <1>1, <1>4, <1>6, <1>7, <1>8, <1>9, <1>10, <1>11, <1>12, <1>13, <1>14, ReportStays

LEMMA WalkKeeps == WalkInv /\ [Next]_vars => WalkInv'
<1> SUFFICES ASSUME WalkInv, [Next]_vars PROVE WalkInv'
  OBVIOUS
<1> QED BY StartFromKeeps, StartOthersKeeps, SkipKeeps, EnterKeeps, VisitCallKeeps, EndBodyKeeps,
           DeduplicateKeeps, StutterKeeps DEF Next, Terminated

-----------------------------------------------------------------------------
(* What the walk promises.                                                 *)

LEMMA ReachedFirstHolds == WalkInv => ReachedFirst
<1> SUFFICES ASSUME WalkInv, phase = "reached"
             PROVE  /\ scan # Idle => scan.fn \in reach
                    /\ \A i \in DOMAIN stack : stack[i].keys \subseteq reach
  BY DEF ReachedFirst
<1>1. ASSUME NEW i \in DOMAIN stack, NEW f \in stack[i].keys PROVE f \in reach
  <2>1. <<f, stack[i].actual, stack[i].depth>> \in Work(stack)
    BY <1>1, InWork
  <2> QED BY <2>1 DEF WalkInv, OrderInv
<1> QED BY <1>1 DEF WalkInv, OrderInv

\* At the end every function has been started from.
LEMMA AllStarted ==
  ASSUME WalkInv, phase = "done"
  PROVE  /\ stack = <<>> /\ scan = Idle
         /\ \A f \in Fn : <<f, NoActual>> \in visited
BY DEF WalkInv, StartInv, AtLoop, Started

\* Then what is visited holds the first contexts and what visited ones call,
\* and with that every chain.
LEMMA AllChainsVisited ==
  ASSUME WalkInv, phase = "done", Cardinality(Chains(body)[MaxDepth]) <= MaxDepth, NEW n \in Nat
  PROVE  Chains(body)[n] \subseteq visited
<1> DEFINE C == Chains(body)
           T == {k \in Nat : ~(C[k] \subseteq visited)}
<1>1. C[0] = Fn \X {NoActual} /\ \A k \in Nat : C[k + 1] = NextChains(body, C[k])
  BY ChainsStep
<1>2. ASSUME NEW x \in visited, NEW y \in CallsIn(body, x) PROVE y \in visited
  <2>1. PICK i \in DOMAIN body[x[1]] : y \in Keys[body[x[1]][i].callee] \X {ValueIn(body, x[1], i, x[2])}
    BY <1>2 DEF CallsIn
  <2>2. Follows(x, i)
    BY DEF WalkInv, FollowInv
  <2>3. scan = Idle /\ Work(stack) = {}
    BY AllStarted, WorkOfNone
  <2> QED BY <2>1, <2>2, <2>3 DEF Follows
<1> HIDE DEF C
<1> SUFFICES ASSUME T # {} PROVE FALSE
  BY DEF C
<1>3. PICK k \in T : \A j \in T : k <= j
  BY LeastNat
<1>4. C[0] \subseteq visited
  BY <1>1, AllStarted
<1>5. k # 0 /\ k - 1 \in Nat /\ (k - 1) + 1 = k
  BY <1>3, <1>4
<1>6. C[k - 1] \subseteq visited
  BY <1>3, <1>5
<1>7. C[k] = NextChains(body, C[k - 1])
  BY <1>1, <1>5
<1> QED BY <1>2, <1>3, <1>6, <1>7 DEF NextChains

LEMMA ContextsHold == WalkInv => ContextsAreRight
<1> SUFFICES ASSUME WalkInv PROVE ContextsAreRight
  OBVIOUS
<1>1. OnlyRealContexts
  BY WithinIsChains DEF WalkInv, RealInv, OnlyRealContexts
<1>2. FewContextsAllVisited
  BY WithinIsChains, AllChainsVisited, Basics DEF FewContextsAllVisited
<1> QED BY <1>1, <1>2, ReachedFirstHolds DEF ContextsAreRight

\* The walk of every program invents no argument, enters the reached functions
\* first, and visits every context of a program that has no more of them than
\* the walk has levels, although a context met with little depth left is not
\* entered again (drive_emission, walk_call_graph).
THEOREM ContextsAreSound == Spec => []ContextsAreRight
BY WalkStarts, WalkKeeps, ContextsHold, PTL DEF Spec

-----------------------------------------------------------------------------
(* What the report promises.                                               *)

\* Of the findings of a place the last pass keeps one.
LEMMA OneIsKept ==
  ASSUME NEW j \in DOMAIN findings, findings \in Seq(Finding)
  PROVE  \E i \in DOMAIN findings : SamePlace(j, i) /\ Kept(i)
<1> DEFINE place == {i \in DOMAIN findings : SamePlace(j, i)}
           clear == {i \in place : Placeholders(findings[i].value) = 0}
           best == IF clear = {} THEN place ELSE clear
<1>1. DOMAIN findings \subseteq Nat
  OBVIOUS
<1>2. j \in place
  BY DEF SamePlace
<1>3. \A i : Placeholders(findings[i].value) \in {0, 1}
  BY DEF Placeholders
<1>4. best \subseteq Nat /\ best # {}
  BY <1>1, <1>2
<1>5. PICK i \in best : \A k \in best : i <= k
  BY <1>4, LeastNat
<1>6. i \in DOMAIN findings /\ SamePlace(j, i)
  BY <1>5
<1>7. ASSUME NEW k \in DOMAIN findings, SamePlace(i, k)
      PROVE  \/ Placeholders(findings[i].value) < Placeholders(findings[k].value)
             \/ Placeholders(findings[i].value) = Placeholders(findings[k].value) /\ i <= k
  <2>1. k \in place
    BY <1>6, <1>7 DEF SamePlace
  <2>2. CASE clear = {}
    BY <1>3, <1>5, <1>6, <2>1, <2>2
  <2>3. CASE clear # {}
    <3>1. Placeholders(findings[i].value) = 0
      BY <1>5, <2>3
    <3> QED BY <1>3, <1>5, <2>1, <2>3, <3>1
  <2> QED BY <2>2, <2>3
<1>8. Kept(i)
  BY <1>7 DEF Kept
<1> QED BY <1>6, <1>8

\* A call that counts, in a context that was visited, has been found.
LEMMA VisitedIsFound ==
  ASSUME WalkInv, phase = "done", NEW x \in visited, NEW i \in DOMAIN body[x[1]],
         Emits(body[x[1]][i].callee, ValueIn(body, x[1], i, x[2]))
  PROVE  \E j \in DOMAIN findings :
           /\ findings[j].line = body[x[1]][i].line /\ findings[j].callee = body[x[1]][i].callee
           /\ findings[j].value = ValueIn(body, x[1], i, x[2])
<1>1. KeyAt(x, i) \in seen
  BY AllStarted DEF WalkInv, SeenInv
<1> DEFINE k == KeyAt(x, i)
<1>2. k[1] = body[x[1]][i].line /\ k[3] = body[x[1]][i].callee /\ k[4] = ValueIn(body, x[1], i, x[2])
  BY DEF KeyAt
<1> HIDE DEF k
<1>3. \E j \in DOMAIN findings :
        findings[j].line = k[1] /\ findings[j].callee = k[3] /\ findings[j].value = k[4]
  BY <1>1, <1>2 DEF WalkInv, SeenInv, k
<1> QED BY <1>2, <1>3

LEMMA ValueAtIsIn == \A f, i, actual : ValueAt(f, i, actual) = ValueIn(body, f, i, actual)
BY DEF ValueAt, ValueIn, FieldAt, FieldIn, LastOf

LEMMA SitesAreReported == WalkInv => EverySiteReported
<1> SUFFICES ASSUME WalkInv, phase = "done", NEW f \in Fn, NEW i \in DOMAIN body[f],
                    Emits(body[f][i].callee, ValueAt(f, i, NoActual))
             PROVE  \E r \in report : r.line = body[f][i].line /\ r.callee = body[f][i].callee
  BY DEF EverySiteReported
<1> DEFINE x == <<f, NoActual>>
<1>1. x \in visited /\ x[1] = f /\ x[2] = NoActual
  BY AllStarted
<1> HIDE DEF x
<1>2. i \in DOMAIN body[x[1]] /\ Emits(body[x[1]][i].callee, ValueIn(body, x[1], i, x[2]))
  BY <1>1, ValueAtIsIn
<1>3. PICK j \in DOMAIN findings :
        findings[j].line = body[f][i].line /\ findings[j].callee = body[f][i].callee
  BY <1>1, <1>2, VisitedIsFound
<1>4. PICK k \in DOMAIN findings : SamePlace(j, k) /\ Kept(k)
  BY OneIsKept DEF WalkInv, WalkTyped
<1>5. findings[k] \in report
  BY <1>4 DEF WalkInv, ReportInv
<1> QED BY <1>3, <1>4, <1>5 DEF SamePlace

\* No vulnerable call of any program is lost on the way to the report, in
\* functions that cannot be reached either (drive_emission, emit_finding, the
\* pass over duplicates).
THEOREM NoSiteIsLost == Spec => []EverySiteReported
BY WalkStarts, WalkKeeps, SitesAreReported, PTL DEF Spec

LEMMA ValuesWin == WalkInv => ValueBeatsPlaceholder
<1> SUFFICES ASSUME WalkInv, NEW r \in report, Placeholders(r.value) > 0,
                    NEW x \in visited, NEW i \in DOMAIN body[x[1]],
                    body[x[1]][i].line = r.line, body[x[1]][i].callee = r.callee,
                    Emits(body[x[1]][i].callee, ValueAt(x[1], i, x[2]))
             PROVE  Placeholders(ValueAt(x[1], i, x[2])) > 0
  BY DEF ValueBeatsPlaceholder
<1>1. phase = "done"
  BY DEF WalkInv, ReportInv
<1>2. PICK k \in DOMAIN findings : Kept(k) /\ r = findings[k]
  BY <1>1 DEF WalkInv, ReportInv
<1> DEFINE v == ValueIn(body, x[1], i, x[2])
<1>3. v = ValueAt(x[1], i, x[2])
  BY ValueAtIsIn
<1>4. PICK j \in DOMAIN findings : findings[j].line = r.line /\ findings[j].callee = r.callee /\ findings[j].value = v
  BY <1>1, <1>3, VisitedIsFound
<1> HIDE DEF v
<1>5. SamePlace(k, j)
  BY <1>2, <1>4 DEF SamePlace
<1>6. Placeholders(r.value) < Placeholders(v) \/ Placeholders(r.value) = Placeholders(v)
  BY <1>2, <1>4, <1>5 DEF Kept
<1>7. Placeholders(r.value) \in {0, 1} /\ Placeholders(v) \in {0, 1}
  BY DEF Placeholders
<1> QED BY <1>3, <1>6, <1>7

\* A finding whose argument is not known is reported only where no visited
\* context knows it (the pass over duplicates of try_libclang).
THEOREM ValuesAreReported == Spec => []ValueBeatsPlaceholder
BY WalkStarts, WalkKeeps, ValuesWin, PTL DEF Spec

ReportIsOfCalls ==
  \A r \in report : \E f \in Fn : \E i \in DOMAIN body[f] :
    body[f][i].line = r.line /\ body[f][i].callee = r.callee /\ r.reduced = (f \notin reach)

LEMMA RiskHasASite == WalkInv => ReportIsOfCalls
<1> SUFFICES ASSUME WalkInv, NEW r \in report
             PROVE  \E f \in Fn : \E i \in DOMAIN body[f] :
                      body[f][i].line = r.line /\ body[f][i].callee = r.callee /\ r.reduced = (f \notin reach)
  BY DEF ReportIsOfCalls
<1>1. PICK k \in DOMAIN findings : r = findings[k]
  BY DEF WalkInv, ReportInv
<1> QED BY <1>1 DEF WalkInv, OriginInv, Reduced

\* Nothing is reported that is not a call in some function of the unit, and its
\* risk is that of a function it stands in, also when a line holds calls of two
\* functions (emit_finding).
THEOREM ReportedCallsExist == Spec => []ReportIsOfCalls
BY WalkStarts, WalkKeeps, RiskHasASite, PTL DEF Spec

\* No line holds calls of two functions.
LinesApart ==
  \A prog \in Programs : \A f, g \in Fn : \A i \in DOMAIN prog[f], j \in DOMAIN prog[g] :
    prog[f][i].line = prog[g][j].line => f = g

LEMMA RiskHolds ==
  ASSUME LinesApart, WalkInv
  PROVE  RiskFollowsReach
<1> SUFFICES ASSUME NEW r \in report, NEW f \in Fn, NEW i \in DOMAIN body[f], body[f][i].line = r.line
             PROVE  r.reduced <=> f \notin reach
  BY DEF RiskFollowsReach
<1>1. PICK k \in DOMAIN findings : r = findings[k]
  BY DEF WalkInv, ReportInv
<1>2. PICK g \in Fn : \E j \in DOMAIN body[g] : body[g][j].line = r.line /\ r.reduced = Reduced(g)
  BY <1>1 DEF WalkInv, OriginInv
<1>3. g = f
  BY <1>2 DEF WalkInv, WalkTyped, LinesApart
<1> QED BY <1>2, <1>3 DEF Reduced

\* The risk of a reported call is reduced exactly if the function it stands in
\* was not reached, whatever contexts led to it first (kUnreachableRiskFactor).
THEOREM RiskIsOfTheFunction ==
  ASSUME LinesApart
  PROVE  Spec => []RiskFollowsReach
BY WalkStarts, WalkKeeps, RiskHolds, PTL DEF Spec
=============================================================================
