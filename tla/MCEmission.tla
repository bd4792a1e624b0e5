----------------------------- MODULE MCEmission -----------------------------
(***************************************************************************)
(* Three functions that may call each other in a cycle.  The library call  *)
(* lib is vulnerable whatever its argument, ctx only for some arguments;   *)
(* "bc" is an overloaded name, "set" changes the class field.              *)
(***************************************************************************)
EXTENDS Emission, TLC

CONSTANTS a, b, c

MCFn     == {a, b, c}
MCKeys   == "bc" :> {b, c} @@ "c" :> {c} @@ "a" :> {a}
            @@ "lib" :> {} @@ "ctx" :> {} @@ "set" :> {}
MCCallee == DOMAIN MCKeys
MCDb     == "lib" :> "any" @@ "ctx" :> "selective"
            @@ [n \in {"bc", "c", "a", "set"} |-> "miss"]
MCField0 == a :> "none" @@ b :> "neutral" @@ c :> "none"

FirstLine == a :> 10 @@ b :> 20 @@ c :> 30
NextName  == a :> "bc" @@ b :> "c" @@ c :> "a"

NoArg    == [kind |-> "none", base |-> "none"]
Param    == [kind |-> "param", base |-> "none"]
Wrapped  == [kind |-> "wrapped", base |-> "none"]
Field    == [kind |-> "field", base |-> "none"]
Lit(x)   == [kind |-> "literal", base |-> x]

Call(l, k, n, x)    == [line |-> l, col |-> k, callee |-> n, arg |-> x, effect |-> "none"]
Setter(l, k, x)     == [line |-> l, col |-> k, callee |-> "set", arg |-> NoArg, effect |-> x]

BodiesOf(f) ==
  LET l == FirstLine[f]
      n == NextName[f]
  IN <<
    << Call(l, 1, "lib", Param) >>,
    << Call(l, 1, n, Lit("dangerous")), Call(l + 1, 1, n, Lit("neutral")) >>,
    << Call(l, 1, n, NoArg), Call(l, 9, "lib", Lit("safe")) >>,
    << Call(l, 1, n, Wrapped), Call(l, 9, "ctx", Param) >>,
    << Call(l, 1, n, Field), Setter(l + 1, 1, "dangerous"), Call(l + 1, 9, "ctx", Field) >>
  >>

MCPrograms == {[f \in MCFn |-> BodiesOf(f)[pick[f]]] : pick \in [MCFn -> 1 .. 5]}
=============================================================================
