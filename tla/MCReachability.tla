--------------------------- MODULE MCReachability ---------------------------
(***************************************************************************)
(* A small translation unit: main, two overloads of N::f and one N::g.     *)
(* The call names are a qualified name with overloads, the same name       *)
(* unqualified (ambiguous between the overloads) and an unqualified name   *)
(* that only one definition has.                                           *)
(***************************************************************************)
EXTENDS Reachability, TLC

CONSTANTS m, f1, f2, g

MCDef    == {m, f1, f2, g}
MCName   == {"main", "N::f", "f", "N::g", "g"}
MCQual   == m :> "main" @@ f1 :> "N::f" @@ f2 :> "N::f" @@ g :> "N::g"
MCSimple == m :> "main" @@ f1 :> "f" @@ f2 :> "f" @@ g :> "g"
MCLine   == m :> 1 @@ f1 :> 2 @@ f2 :> 3 @@ g :> 4
MCCalls  == {{}, {"N::f"}, {"f"}, {"g"}}
=============================================================================
