---------------------------- MODULE MCLocalValues ----------------------------
(***************************************************************************)
(* Translation units for LocalValues: w makes library calls, g and h are   *)
(* called by it and by each other.  The bodies have a write above, on and  *)
(* below the line of a call, in either branch and before a return; calls   *)
(* nested in arguments and in what is returned; recursion; a parameter, a  *)
(* global and a variable nobody sees written.                              *)
(***************************************************************************)
EXTENDS LocalPrograms

LOCAL INSTANCE TLC

Literal(v)   == [kind |-> "literal", value |-> v]
Named(n)     == [kind |-> "name", name |-> n]
Paren(e)     == [kind |-> "paren", of |-> e]
Call(f, e)   == [kind |-> "call", callee |-> f, args |-> <<e>>]
NoArg(f)     == [kind |-> "call", callee |-> f, args |-> <<>>]
Opaque       == [kind |-> "operator"]

X == Named("x")
P == Named("p")
Gl == Named("global")

AnItem(kind, n, e, when) == [kind |-> kind, name |-> n, expr |-> e, when |-> when]
Set(n, e)          == AnItem("set", n, e, "always")
SetIf(branch, n, e) == AnItem("set", n, e, branch)
Give(n, v)         == Set(n, Literal(v))
GiveIf(branch, n, v) == SetIf(branch, n, Literal(v))
Use(e)             == AnItem("use", "p", e, "always")
UseIf(branch, e)   == AnItem("use", "p", e, branch)
Return(e)          == AnItem("return", "p", e, "always")
ReturnIf(branch, e) == AnItem("return", "p", e, branch)

Lined(items, lines) == [i \in DOMAIN items |-> items[i] @@ [line |-> lines[i]]]
InLines(items) == Lined(items, [i \in DOMAIN items |-> i])
OneLine(items) == Lined(items, [i \in DOMAIN items |-> 1])

Walked ==
  {InLines(<<Give("x", "A"), Use(X), Give("x", "B"), Use(P)>>),
   OneLine(<<Give("x", "A"), Use(X), Give("x", "B")>>),
   OneLine(<<Give("x", "A"), Give("x", "B"), Use(X)>>),
   InLines(<<GiveIf("then", "x", "A"), GiveIf("else", "x", "B"), Use(X)>>),
   InLines(<<Give("x", "C"), GiveIf("then", "x", "A"), UseIf("else", X)>>),
   InLines(<<Give("y", "C"), GiveIf("then", "y", "A"), Set("x", Named("y")), Give("z", "B"),
             SetIf("else", "z", X), Use(Named("z"))>>),
   InLines(<<Set("x", P), Use(X), Use(P)>>),
   InLines(<<Set("x", Gl), AnItem("open", "y", Opaque, "always"), Use(Named("y")), Use(X)>>),
   InLines(<<Give("p", "A"), Use(Paren(P))>>),
   InLines(<<Give("x", "A"), AnItem("hidden", "x", Opaque, "always"), Use(X)>>),
   InLines(<<Set("x", Call("g", P)), Use(X), Use(Call("g", P))>>),
   InLines(<<Give("x", "A"), Set("y", Call("g", Call("h", X))), Use(Named("y")),
             Use(Call("h", Call("g", Literal("B"))))>>),
   InLines(<<Set("x", Opaque), Use(Call("lib", X)), Use(NoArg("g")), Use(X)>>),
   InLines(<<Give("global", "A"), Use(Gl), Use(Call("g", Gl))>>)}

Called(me, other) ==
  {InLines(<<Return(P)>>),
   InLines(<<Give("p", "C"), Return(P)>>),
   InLines(<<Set("x", P), Return(X)>>),
   InLines(<<ReturnIf("then", P), ReturnIf("else", Literal("B"))>>),
   InLines(<<Give("x", "A"), ReturnIf("then", X), Give("x", "B"), Return(X)>>),
   InLines(<<Give("x", "A"), ReturnIf("then", X), Give("x", "B")>>),
   InLines(<<Give("x", "A"), GiveIf("then", "x", "C"), ReturnIf("then", P), Return(X)>>),
   InLines(<<Give("y", "A"), Set("x", Named("y")), Give("y", "B"), Return(X)>>),
   InLines(<<ReturnIf("then", Call(me, P)), Return(Call(other, P))>>),
   InLines(<<Set("x", Call(other, Literal("B"))), Return(X)>>),
   InLines(<<Return(Paren(Call(other, Paren(Gl))))>>)}

Bodies ==
  {[body |-> "w" :> w @@ "g" :> g @@ "h" :> h,
    params |-> [f \in {"w", "g", "h"} |-> <<"p">>],
    plain |-> "w" :> "w" @@ "g" :> "g" @@ "h" :> first,
    global |-> "global" :> "B"] :
     w \in Walked, g \in Called("g", "h"), h \in Called("h", "g"), first \in {"g", "h"}}

WithParts(exprs) == exprs \cup UNION {Parts(e) : e \in exprs}

Expressions ==
  WithParts(WithParts(WithParts(WithParts(
    UNION {{body[p].expr : p \in DOMAIN body} :
             body \in Walked \cup Called("g", "h") \cup Called("h", "g")}))))

Heights[e \in Expressions] ==
  LET heights == {Heights[part] : part \in Parts(e)}
  IN  1 + IF heights = {} THEN 0 ELSE CHOOSE h \in heights : \A k \in heights : k <= h

\* What one more round of executing the bodies lets the calls return.
Execute(unit) ==
  [f \in Function |-> [given \in Given(unit, f) |->
     UNION {LET run == Runs(unit, f, given, branch)
            IN  UNION {UNION {Outcomes(unit, env)[unit.body[f][p].expr] : env \in run[p - 1]} :
                         p \in {q \in DOMAIN unit.body[f] : /\ unit.body[f][q].kind = "return"
                                                         /\ Executed(unit.body[f][q], branch)}}
                \cup {Unknown : env \in run[Len(unit.body[f])]} :
              branch \in Branch}]]

NoCalls(unit) == [f \in Function |-> [given \in Given(unit, f) |-> {}]]

Rounds == 4

Completed(unit) ==
  LET round[n \in 0 .. Rounds] ==
        unit @@ "calls" :> IF n = 0 THEN NoCalls(unit) ELSE Execute(round[n - 1])
  IN  round[Rounds]

\* The values calls may return are those some execution returns, no others:
\* that nothing is missing after so many rounds, CallsFollowBodies says.
Units == {Completed(unit) : unit \in Bodies}

PassedTexts == {<<"A">>, <<"<type: ...>">>, <<>>}
=============================================================================
