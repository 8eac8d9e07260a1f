------------------------------ MODULE MCScaler ------------------------------
(***************************************************************************)
(* Small instances of Scaler and of FunctionPod for TLC.                   *)
(***************************************************************************)
EXTENDS Scaler, TLC

CONSTANTS p1, p2, p3

OnePod == {p1}
TwoPods == {p1, p2}
ThreePods == {p1, p2, p3}

Symmetry == Permutations(Pods)

=============================================================================
