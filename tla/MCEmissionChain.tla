-------------------------- MODULE MCEmissionChain --------------------------
(***************************************************************************)
(* One program for the real limit of eight levels: a chain 1 -> 2 -> ...   *)
(* of functions without parameters whose last caller passes an algorithm   *)
(* name to a wrapper of a library call.                                    *)
(***************************************************************************)
EXTENDS Emission, TLC

Wrapper == MaxDepth + 1

MCFn     == 1 .. Wrapper
Name     == [i \in 2 .. Wrapper |-> <<"f", i>>]
MCCallee == {Name[i] : i \in DOMAIN Name} \cup {<<"ctx", 0>>}
MCKeys   == [n \in MCCallee |-> IF n[1] = "f" THEN {n[2]} ELSE {}]
MCDb     == [n \in MCCallee |-> IF n[1] = "f" THEN "miss" ELSE "selective"]
MCField0 == [f \in MCFn |-> "none"]

Call(f, n, kind, base) == [line |-> 10 * f, col |-> 1, callee |-> n,
                           arg |-> [kind |-> kind, base |-> base], effect |-> "none"]

MCPrograms == {[f \in MCFn |->
  << CASE f < MaxDepth -> Call(f, Name[f + 1], "none", "none")
       [] f = MaxDepth -> Call(f, Name[Wrapper], "literal", "dangerous")
       [] f = Wrapper  -> Call(f, <<"ctx", 0>>, "param", "none") >>]}
=============================================================================
