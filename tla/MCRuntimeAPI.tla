---------------------------- MODULE MCRuntimeAPI ----------------------------
(***************************************************************************)
(* Small instances of RuntimeAPI for TLC.                                  *)
(***************************************************************************)
EXTENDS RuntimeAPI

CONSTANTS i1, i2

TwoInstances == {i1, i2}
OneBound == {i1}

=============================================================================
