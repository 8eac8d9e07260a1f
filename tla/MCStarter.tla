------------------------------ MODULE MCStarter ------------------------------
(***************************************************************************)
(* Small instances of Gateway for TLC: two functions, two definitions of   *)
(* the first, and the edits of a Fidfile that matter: a function added,    *)
(* removed or redefined.                                                   *)
(***************************************************************************)
EXTENDS Gateway, TLC

CONSTANTS s1, s2, f1, f2, v1, v2

OneStarter == {s1}
TwoStarters == {s1, s2}
TwoFunctions == {f1, f2}

First == [functions |-> f1 :> v1, infoServer |-> TRUE]
Both == [functions |-> f1 :> v1 @@ f2 :> v1, infoServer |-> TRUE]
Redefined == [functions |-> f1 :> v2, infoServer |-> FALSE]
Second == [functions |-> f2 :> v1, infoServer |-> FALSE]

OneFile == {Both}
TwoFiles == {Both, Redefined}
ThreeFiles == {Both, Redefined, Second}

Symmetry == Permutations(TwoStarters)

=============================================================================
