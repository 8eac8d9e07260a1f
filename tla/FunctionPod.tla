----------------------------- MODULE FunctionPod -----------------------------
(***************************************************************************)
(* The function pods of the Docker backend: a network, the runtime API's   *)
(* container and the function's container each.  Backend.AddInstance       *)
(* starts a pod, call by call, and cleans up when a call fails;            *)
(* Backend.StopInstance stops it.  Every call of the Docker API may fail,  *)
(* with or without having had its effect, and fails once the context has   *)
(* expired (the scaler gives AddInstance a second).                        *)
(***************************************************************************)
CONSTANT Pods  (* the pods, named by their uuid *)

VARIABLES
  pc,       (* [Pods -> ...] the next Docker call, or where the pod came to rest *)
  ctx,      (* [Pods -> ...] the context of the call in progress             *)
  names,    (* [Pods -> ...] whether the FunctionPod at hand knows its container names *)
  net,      (* the pods whose network exists                                 *)
  box,      (* [Pods -> [Containers -> ...]] the containers                  *)
  errs,     (* [Pods -> SUBSET Containers] fnStopErr and apiStopErr of Stop  *)
  stopped,  (* [Pods -> ...] what the last Stop returned                     *)
  hurt      (* history: pods for which a Docker call of the last Stop went wrong *)

docker == <<net, box>>
local == <<names, errs>>
results == <<stopped, hurt>>
podVars == <<pc, ctx, docker, local, results>>

Containers == {"api", "function"}

ContainerStates == {"none", "created", "running", "exited"}

Resting == {"none", "up", "failed", "stopped"}

TypeOK ==
  /\ pc \in [Pods -> Resting \cup
               {"createNetwork", "createAPI", "startAPI", "createFunction", "startFunction",
                "stopFunction", "stopAPI", "removeNetwork"}]
  /\ ctx \in [Pods -> {"live", "expired"}]
  /\ names \in [Pods -> {"own", "empty"}]
  /\ net \subseteq Pods
  /\ box \in [Pods -> [Containers -> ContainerStates]]
  /\ errs \in [Pods -> SUBSET Containers]
  /\ stopped \in [Pods -> {"none", "ok", "error"}]
  /\ hurt \subseteq Pods

Init ==
  /\ pc = [p \in Pods |-> "none"]
  /\ ctx = [p \in Pods |-> "live"]
  /\ names = [p \in Pods |-> "own"]
  /\ net = {}
  /\ box = [p \in Pods |-> [c \in Containers |-> "none"]]
  /\ errs = [p \in Pods |-> {}]
  /\ stopped = [p \in Pods |-> "none"]
  /\ hurt = {}

-----------------------------------------------------------------------------
(* Backend.AddInstance and FunctionPod.Start                               *)
Goto(p, from, to) ==
  /\ pc[p] = from
  /\ pc' = [pc EXCEPT ![p] = to]

SetBox(p, c, state) == box' = [box EXCEPT ![p][c] = state]

Running(p, c) == box[p][c] = "running"

(* The pod gets its dependencies, a uuid and container names made of it, or
   an error before anything is asked of Docker.                            *)
AddInstance(p) ==
  /\ Goto(p, "none", "createNetwork") \/ Goto(p, "none", "failed")
  /\ UNCHANGED <<ctx, docker, local, results>>

(* The error of any call makes the deferred function run Stop, under the
   same context.                                                           *)
StartFails(p, from) == Goto(p, from, "stopFunction")

CreateNetwork(p) ==
  /\ \/ /\ ctx[p] = "live"
        /\ net' = net \cup {p}
        /\ Goto(p, "createNetwork", "createAPI") \/ StartFails(p, "createNetwork")
     \/ StartFails(p, "createNetwork") /\ UNCHANGED net
  /\ UNCHANGED <<ctx, box, local, results>>

(* ContainerCreate and ContainerStart: c is to be in this state afterwards. *)
ContainerCall(p, c, state, from, to) ==
  /\ \/ /\ ctx[p] = "live"
        /\ SetBox(p, c, state)
        /\ Goto(p, from, to) \/ StartFails(p, from)
     \/ StartFails(p, from) /\ UNCHANGED box
  /\ UNCHANGED <<ctx, net, local, results>>

CreateRuntimeAPI(p) == ContainerCall(p, "api", "created", "createAPI", "startAPI")

StartRuntimeAPI(p) == ContainerCall(p, "api", "running", "startAPI", "createFunction")

CreateFunction(p) == ContainerCall(p, "function", "created", "createFunction", "startFunction")

(* Mutation: the deferred function looks at another variable named err.    *)
StartFunctionShadowed(p) ==
  /\ Goto(p, "startFunction", "failed")
  /\ UNCHANGED <<ctx, docker, local, results>>

(* Mutation: the error of ContainerStart is not looked at.                 *)
StartFunctionUnchecked(p) ==
  /\ Goto(p, "startFunction", "up")
  /\ SetBox(p, "function", "running") \/ UNCHANGED box
  /\ UNCHANGED <<ctx, net, local, results>>

StartFunction(p) == ContainerCall(p, "function", "running", "startFunction", "up")

-----------------------------------------------------------------------------
(* FunctionPod.Stop: three calls, whatever becomes of each.                *)

(* Mutation: the containers are created with AutoRemove.                   *)
AutoRemoved(state) == IF state = "running" THEN "removed" ELSE state

(* A container that is not running, or is not there, stays as it is.       *)
Halted(state) == IF state = "running" THEN "exited" ELSE state

Halt(p, c) == SetBox(p, c, Halted(box[p][c]))

(* Docker takes calls while the context lives, and none without a name.    *)
Reachable(p) == ctx[p] = "live" /\ names[p] = "own"

(* The call fails, with or without effect.  A call without a name cannot do
   anything else, so that does not count as going wrong.                   *)
StopCallFails(p, c) ==
  /\ (Reachable(p) /\ Halt(p, c)) \/ UNCHANGED box
  /\ hurt' = IF names[p] = "own" THEN hurt \cup {p} ELSE hurt

(* A container that is not found counts as stopped.                        *)
StopFunction(p) ==
  /\ Goto(p, "stopFunction", "stopAPI")
  /\ \/ /\ Reachable(p)
        /\ Halt(p, "function")
        /\ errs' = [errs EXCEPT ![p] = {}]
        /\ UNCHANGED hurt
     \/ /\ StopCallFails(p, "function")
        /\ errs' = [errs EXCEPT ![p] = {"function"}]
  /\ UNCHANGED <<ctx, names, net, stopped>>

(* When the runtime API's container is not found, it is the function's error
   that is forgotten, and the one at hand that is kept.                    *)
StopRuntimeAPI(p) ==
  /\ Goto(p, "stopAPI", "removeNetwork")
  /\ \/ /\ Reachable(p) /\ box[p]["api"] # "none"
        /\ Halt(p, "api")
        /\ UNCHANGED <<errs, hurt>>
     \/ /\ Reachable(p) /\ box[p]["api"] = "none"
        /\ errs' = [errs EXCEPT ![p] = {"api"}]
        /\ UNCHANGED <<box, hurt>>
     \/ /\ StopCallFails(p, "api")
        /\ errs' = [errs EXCEPT ![p] = @ \cup {"api"}]
  /\ UNCHANGED <<ctx, names, net, stopped>>

(* Only a clean-up knows the container names.                              *)
Rested(p) == IF names[p] = "own" THEN "failed" ELSE "stopped"

Removable(p) == ctx[p] = "live" /\ \A c \in Containers : ~ Running(p, c)

(* Mutation: a network that cannot be removed is left behind silently.     *)
RemoveNetworkUnchecked(p) ==
  /\ Goto(p, "removeNetwork", Rested(p))
  /\ net' \in {net, net \ {p}}
  /\ stopped' = [stopped EXCEPT ![p] = IF errs[p] = {} THEN "ok" ELSE "error"]
  /\ UNCHANGED <<ctx, box, local, hurt>>

(* Docker removes a network that exists and has no running container.      *)
RemoveNetwork(p) ==
  /\ Goto(p, "removeNetwork", Rested(p))
  /\ \/ /\ Removable(p) /\ p \in net
        /\ net' = net \ {p}
        /\ stopped' = [stopped EXCEPT ![p] = IF errs[p] = {} THEN "ok" ELSE "error"]
        /\ UNCHANGED hurt
     \/ /\ stopped' = [stopped EXCEPT ![p] = "error"]
        /\ \/ ctx[p] = "live" /\ ~ (Removable(p) /\ p \in net) /\ UNCHANGED <<net, hurt>>
           \/ Removable(p) /\ net' = net \ {p} /\ hurt' = hurt \cup {p}
           \/ UNCHANGED net /\ hurt' = hurt \cup {p}
  /\ UNCHANGED <<ctx, box, local>>

(* Backend.StopInstance makes a FunctionPod of the uuid alone: its container
   names are empty.  It may be tried again.                                *)
StopInstance(p) ==
  /\ pc[p] \in {"up", "stopped"}
  /\ pc' = [pc EXCEPT ![p] = "stopFunction"]
  /\ ctx' = [ctx EXCEPT ![p] = "live"]
  /\ names' = [names EXCEPT ![p] = "empty"]
  /\ hurt' = hurt \ {p}
  /\ UNCHANGED <<docker, errs, stopped>>

-----------------------------------------------------------------------------
Expire(p) ==
  /\ pc[p] \notin Resting
  /\ ctx' = [ctx EXCEPT ![p] = "expired"]
  /\ UNCHANGED <<pc, docker, local, results>>

(* A container's process ends by itself.                                   *)
ContainerExits(p) ==
  /\ \E c \in Containers : Running(p, c) /\ Halt(p, c)
  /\ UNCHANGED <<pc, ctx, net, local, results>>

PodStep(p) ==
  \/ CreateNetwork(p) \/ CreateRuntimeAPI(p) \/ StartRuntimeAPI(p)
  \/ CreateFunction(p) \/ StartFunction(p)
  \/ StopFunction(p) \/ StopRuntimeAPI(p) \/ RemoveNetwork(p)
  \/ Expire(p) \/ ContainerExits(p)

Next == \E p \in Pods : AddInstance(p) \/ StopInstance(p) \/ PodStep(p)

Spec == Init /\ [][Next]_podVars

-----------------------------------------------------------------------------
Halts(p) == \A c \in Containers : ~ Running(p, c)

(* AddInstance succeeds only with a whole pod: the network is there and both
   containers were started (they may have ended by themselves).            *)
StartedWhole ==
  \A p \in Pods :
    pc[p] = "up" => p \in net /\ \A c \in Containers : box[p][c] \in {"running", "exited"}

(* When AddInstance fails at any of its five calls, even at one that took
   effect all the same, no container of the pod runs on and no network is
   left, provided the calls of the clean-up themselves go through.         *)
FailureCleansUp ==
  \A p \in Pods : (pc[p] = "failed" /\ p \notin hurt) => p \notin net /\ Halts(p)

(* A Stop that returns no error has stopped both containers and removed the
   network, although it overwrites the one error when it means the other.  *)
StopTellsTheTruth ==
  \A p \in Pods :
    (stopped[p] = "ok" /\ pc[p] \in {"failed", "stopped"}) => p \notin net /\ Halts(p)

(* backend.go, StopInstance: "Killing function instance".  With no Docker
   call failing for another reason than what it is asked to do, no container
   of the instance runs afterwards.                                        *)
StopInstanceStops ==
  \A p \in Pods : (pc[p] = "stopped" /\ p \notin hurt) => Halts(p)

=============================================================================
