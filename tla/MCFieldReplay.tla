--------------------------- MODULE MCFieldReplay ---------------------------
(***************************************************************************)
(* A class of four methods and two fields.  The walked method w has up to  *)
(* three items before its library call; a may call b, b may call c or go   *)
(* back to a, so that with two levels the limit, the set of active methods *)
(* and overloads all cut the replay somewhere.                             *)
(***************************************************************************)
EXTENDS FieldReplay, TLC

CONSTANTS w, a, b, c, f, g

MCMethod == {w, a, b, c}
MCField  == {f, g}
MCValue  == {"unknown", "initial", "constructed", "other", "by w", "by a", "by b", "by c"}

\* Items, with the line and the turn still open.
It(kind, field, value, from, m) ==
  [kind |-> kind, field |-> field, value |-> value, from |-> from, method |-> m]
Write(x, v)   == It("write", x, v, f, w)
Copy(x, y)    == It("copy", x, "unknown", y, w)
Do(kind, m)   == It(kind, f, "unknown", f, m)
Lib(x)        == It("use", x, "unknown", f, w)

Placed(items, lines, turns) ==
  [p \in DOMAIN items |-> items[p] @@ [line |-> lines[p], turn |-> turns[p]]]
InLines(items) == Placed(items, [p \in DOMAIN items |-> p], [p \in DOMAIN items |-> p])

\* f = m(); on one line: assignment and call in the tree, call first when run.
AssignResult(x, v, m) == Placed(<<Write(x, v), Do("call", m)>>, <<1, 1>>, <<2, 1>>)

Walks ==
  {InLines(<<Do(k, a), Lib(f)>>) : k \in {"call", "this_call", "other_call"}}
    \cup {InLines(<<Write(f, "by w"), Do("call", m), Lib(f)>>) : m \in {a, c}}
    \cup {InLines(<<Do("call", c), Lib(f), Do("call", b), Lib(f)>>),
          InLines(<<Do("call", a), Write(f, "by w"), Lib(g)>>),
          InLines(<<Do("call", b), Do("call", b), Lib(f)>>),
          InLines(<<Write(f, "by w"), Lib(f)>>),
          Placed(<<Lib(f), Do("call", c)>>, <<1, 1>>, <<2, 1>>)}

InA == {InLines(<<Write(f, "by a"), Do("call", b)>>),
        InLines(<<Do("call", b), Write(f, "by a")>>),
        InLines(<<Do("call", b)>>),
        InLines(<<Do("this_call", b), Copy(f, g)>>),
        AssignResult(f, "by a", b)}

InB == {InLines(<<Do("call", c), Write(g, "by b")>>),
        InLines(<<Write(f, "by b"), Do("call", a)>>),
        InLines(<<Copy(g, f), Do("other_call", c)>>),
        <<>>}

InC == {InLines(<<Write(f, "by c")>>), InLines(<<Do("call", w)>>)}

InClass(x) == f :> x @@ g :> "other"
Constructor(inside, v) == [inside |-> inside, inits |-> f :> v @@ g :> NoValue]

MCPrograms ==
  {[in_class |-> InClass("initial"), constructors |-> <<>>,
    body |-> w :> bw @@ a :> ba @@ b :> bb @@ c :> bc,
    plain |-> w :> w @@ a :> a @@ b :> pb @@ c :> c] :
     bw \in Walks, ba \in InA, bb \in InB, bc \in InC, pb \in {b, c}}
  \cup
  {[in_class |-> InClass(x), constructors |-> cs,
    body |-> [m \in MCMethod |-> IF m = w THEN InLines(<<Lib(f)>>) ELSE <<>>],
    plain |-> [m \in MCMethod |-> m]] :
     x \in {NoValue, "initial"},
     cs \in UNION {[1 .. n -> {Constructor(i, v) : i \in BOOLEAN, v \in {NoValue, "constructed", "other"}}]
                     : n \in 0 .. 2}}
=============================================================================
