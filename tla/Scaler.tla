------------------------------- MODULE Scaler -------------------------------
(***************************************************************************)
(* The scaler of a function over the function's pods.  rescaleToConfig     *)
(* counts the instances and creates as many pods as are missing to Min,    *)
(* one after the other.  What it counts are the records that the pods'     *)
(* runtime API servers keep of themselves (Registry), not the pods.        *)
(* At this commit nothing calls rescaleToConfig; the module takes it to be *)
(* called any number of times, as Run's loop would.                        *)
(***************************************************************************)
EXTENDS FunctionPod, Naturals, FiniteSets

CONSTANTS
  Min,        (* ScalingConfig().Min of the definition read at Init *)
  MaxRounds,  (* bound: calls of rescaleToConfig                    *)
  NoPod       (* "no pod", not one of Pods                          *)

ASSUME ScalerAssumption ==
  /\ IsFiniteSet(Pods)
  /\ Min \in Nat
  /\ MaxRounds \in Nat
  /\ NoPod \notin Pods

VARIABLES
  at,        (* "waiting" or "scaling": in the loop of rescaleToConfig  *)
  toCreate,  (* pods the loop has still to begin                        *)
  pod,       (* the pod AddInstance is creating, or NoPod               *)
  rounds,    (* calls of rescaleToConfig so far                         *)
  counted, stage,  (* of Registry: the pods with a presence record, and
                      where their servers stand                         *)
  missed     (* history: live pods the last count that created some did not see *)

scalerVars == <<at, toCreate, pod, rounds, missed>>
registryVars == <<counted, stage>>
allVars == <<podVars, scalerVars, registryVars>>

Reg == INSTANCE Registry WITH Ids <- Pods

(* The pods whose runtime API server runs.                                 *)
Live == {p \in Pods : Running(p, "api")}

Current == {pod} \ {NoPod}

ScalerTypeOK ==
  /\ TypeOK
  /\ at \in {"waiting", "scaling"}
  /\ toCreate \in 0 .. Min
  /\ pod \in Pods \cup {NoPod}
  /\ rounds \in 0 .. MaxRounds
  /\ missed \in Nat
  /\ counted \subseteq Pods
  /\ stage \in [Pods -> {"new", "serving", "gone"}]

ScalerInit ==
  /\ Init
  /\ Reg!Init
  /\ at = "waiting"
  /\ toCreate = 0
  /\ pod = NoPod
  /\ rounds = 0
  /\ missed = 0

-----------------------------------------------------------------------------
(* rescaleToConfig counts, and sees that instances are missing.  (A count
   that fails, and one that shows enough or too many, change nothing.)     *)
RescaleToConfig ==
  /\ at = "waiting"
  /\ rounds < MaxRounds
  /\ Cardinality(counted) < Min
  /\ at' = "scaling"
  /\ toCreate' = Min - Cardinality(counted)
  /\ rounds' = rounds + 1
  /\ missed' = Cardinality(Live \ counted)
  /\ UNCHANGED <<pod, podVars, registryVars>>

(* scaleUp calls AddInstance, with a second to do it in.                   *)
ScaleUp ==
  /\ at = "scaling" /\ pod = NoPod /\ toCreate > 0
  /\ toCreate' = toCreate - 1
  /\ \E p \in Pods : AddInstance(p) /\ pod' = p
  /\ UNCHANGED <<at, rounds, missed, registryVars>>

(* AddInstance has returned the pod's id: the loop goes on.                *)
InstanceAdded ==
  /\ pod \in Pods /\ pc[pod] = "up"
  /\ pod' = NoPod
  /\ UNCHANGED <<at, toCreate, rounds, missed, podVars, registryVars>>

(* Mutation: an error is logged and the pod is tried again.                *)
RetriesInstance ==
  /\ pod \in Pods /\ pc[pod] = "failed"
  /\ pod' = NoPod
  /\ toCreate' = toCreate + 1
  /\ UNCHANGED <<at, rounds, missed, podVars, registryVars>>

(* AddInstance has returned an error: rescaleToConfig gives up.            *)
AddInstanceFails ==
  /\ pod \in Pods /\ pc[pod] = "failed"
  /\ pod' = NoPod
  /\ toCreate' = 0
  /\ at' = "waiting"
  /\ UNCHANGED <<rounds, missed, podVars, registryVars>>

RescaleDone ==
  /\ at = "scaling" /\ pod = NoPod /\ toCreate = 0
  /\ at' = "waiting"
  /\ UNCHANGED <<toCreate, pod, rounds, missed, podVars, registryVars>>

(* The runtime API server of a pod, as far as it can be counted.           *)
ServerStep(p) ==
  /\ Running(p, "api")
  /\ Reg!Step(p)
  /\ UNCHANGED <<podVars, scalerVars>>

ScalerNext ==
  \/ RescaleToConfig \/ ScaleUp \/ InstanceAdded \/ AddInstanceFails \/ RescaleDone
  \/ \E p \in Pods :
       \/ ServerStep(p)
       \/ StopInstance(p) /\ UNCHANGED <<scalerVars, registryVars>>
       \/ PodStep(p) /\ UNCHANGED <<scalerVars, registryVars>>

ScalerSpec == ScalerInit /\ [][ScalerNext]_allVars

-----------------------------------------------------------------------------
(* The scaler never has more pods alive or under way than Min plus the live
   pods that its last count missed because they had not registered yet (or
   had withdrawn early): with pods that register before the next count there
   are at most Min of them, whatever fails, and whatever a failed clean-up
   leaves running.                                                         *)
OvershootExplained == Cardinality(Live \cup Current) + toCreate <= Min + missed

=============================================================================
