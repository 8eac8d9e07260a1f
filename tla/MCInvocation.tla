---------------------------- MODULE MCInvocation ----------------------------
(***************************************************************************)
(* Small instances of Invocation for TLC.                                  *)
(***************************************************************************)
EXTENDS InvocationImplementsCall, TLC

CONSTANTS r1, r2, i1, i2

OneRequest == {r1}
TwoRequests == {r1, r2}
OnePod == {i1}
TwoPods == {i1, i2}
NoPod == {}

NoFault == {}
AllFaults == FaultKinds
AckAndGateway == {"ack", "gateway"}
AllButDelivery == FaultKinds \ {"delivery"}

PodSymmetry == Permutations(TwoPods)
Symmetry == PodSymmetry \cup Permutations(TwoRequests)

=============================================================================
