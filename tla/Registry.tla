------------------------------ MODULE Registry ------------------------------
(***************************************************************************)
(* What the instance records are for, without records: which instances of  *)
(* a function are counted.  A runtime API server registers its instance    *)
(* before it serves, withdraws it only after it has left for good, and     *)
(* nobody else does either.  A server may leave without withdrawing.       *)
(***************************************************************************)
CONSTANT Ids  (* the instances *)

VARIABLES
  counted,  (* the instances that count                       *)
  stage     (* [Ids -> ...] where the instance's server stands *)

vars == <<counted, stage>>

Init ==
  /\ counted = {}
  /\ stage = [i \in Ids |-> "new"]

Register(i) ==
  /\ stage[i] = "new"
  /\ counted' = counted \cup {i}
  /\ UNCHANGED stage

Serve(i) ==
  /\ stage[i] = "new" /\ i \in counted
  /\ stage' = [stage EXCEPT ![i] = "serving"]
  /\ UNCHANGED counted

Leave(i) ==
  /\ stage' = [stage EXCEPT ![i] = "gone"]
  /\ UNCHANGED counted

Withdraw(i) ==
  /\ stage[i] = "gone"
  /\ counted' = counted \ {i}
  /\ UNCHANGED stage

Step(i) == Register(i) \/ Serve(i) \/ Leave(i) \/ Withdraw(i)

Next == \E i \in Ids : Step(i)

Spec == Init /\ [][Next]_vars

(* A server that serves is counted.                                        *)
ServingIsCounted == \A i \in Ids : stage[i] = "serving" => i \in counted

=============================================================================
