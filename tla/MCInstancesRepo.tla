--------------------------- MODULE MCInstancesRepo ---------------------------
(***************************************************************************)
(* Small instances of InstancesRepo for TLC.                               *)
(***************************************************************************)
EXTENDS InstancesRepo, TLC

CONSTANTS c1, c2, i1

TwoClients == {c1, c2}
OneInstance == {i1}

Symmetry == Permutations(TwoClients)

=============================================================================
