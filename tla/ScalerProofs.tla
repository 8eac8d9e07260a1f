---------------------------- MODULE ScalerProofs ----------------------------
(***************************************************************************)
(* Theorems about Scaler and the pods it starts, for every finite set of    *)
(* pods, every Min and any number of rounds.                               *)
(***************************************************************************)
EXTENDS Scaler, FiniteSetTheorems, TLAPS

-----------------------------------------------------------------------------
(* What is known of a pod by where it stands.                              *)
Creating == {"createNetwork", "createAPI", "startAPI", "createFunction", "startFunction"}

Started == {"running", "exited"}

Built(p) ==
  /\ pc[p] = "none" => p \notin net /\ Halts(p)
  /\ pc[p] \in Creating \cup {"none"} => names[p] = "own"
  /\ pc[p] \in (Creating \ {"createNetwork"}) \cup {"up"} => p \in net
  /\ pc[p] \in {"createFunction", "startFunction", "up"} => box[p]["api"] \in Started
  /\ pc[p] = "up" => box[p]["function"] \in Started

(* A clean-up, which has the container names, stops one after the other.   *)
CleanedUp(p) ==
  /\ pc[p] = "failed" => names[p] = "own"
  /\ names[p] = "own" /\ p \notin hurt =>
       /\ pc[p] \in {"stopAPI", "removeNetwork", "failed"} => ~ Running(p, "function")
       /\ pc[p] \in {"removeNetwork", "failed"} => ~ Running(p, "api")
       /\ pc[p] = "failed" => p \notin net

TruthTold(p) ==
  stopped[p] = "ok" /\ pc[p] \in {"failed", "stopped"} => p \notin net /\ Halts(p)

PodInv(p) == Built(p) /\ CleanedUp(p) /\ TruthTold(p)

PodsInv == TypeOK /\ \A p \in Pods : PodInv(p)

-----------------------------------------------------------------------------
(* A pod that takes no part in a step keeps its invariant.                 *)
Apart(p) ==
  \A q \in Pods \ {p} :
    /\ pc'[q] = pc[q] /\ names'[q] = names[q] /\ box'[q] = box[q] /\ stopped'[q] = stopped[q]
    /\ q \in net' <=> q \in net
    /\ q \in hurt' <=> q \in hurt

LEMMA Bystander ==
  ASSUME NEW q \in Pods, PodInv(q),
         pc'[q] = pc[q], names'[q] = names[q], box'[q] = box[q], stopped'[q] = stopped[q],
         q \in net' <=> q \in net, q \in hurt' <=> q \in hurt
  PROVE  PodInv(q)'
BY DEF PodInv, Built, CleanedUp, TruthTold, Halts, Running

(* What SetBox does to one container and leaves alone in the others.       *)
LEMMA SetBoxIs ==
  ASSUME TypeOK, NEW p \in Pods, NEW c \in Containers, NEW s \in ContainerStates, SetBox(p, c, s)
  PROVE  /\ box' \in [Pods -> [Containers -> ContainerStates]]
         /\ box'[p][c] = s
         /\ \A d \in Containers \ {c} : box'[p][d] = box[p][d]
         /\ \A q \in Pods \ {p} : box'[q] = box[q]
BY DEF SetBox, TypeOK

(* A container that is halted does not run; others are as they were.       *)
LEMMA HaltIs ==
  ASSUME TypeOK, NEW p \in Pods, NEW c \in Containers, Halt(p, c)
  PROVE  /\ box' \in [Pods -> [Containers -> ContainerStates]]
         /\ box'[p][c] # "running"
         /\ box[p][c] \in Started => box'[p][c] \in Started
         /\ \A d \in Containers \ {c} : box'[p][d] = box[p][d]
         /\ \A q \in Pods \ {p} : box'[q] = box[q]
<1>1. Halted(box[p][c]) \in ContainerStates
  BY DEF Halted, ContainerStates, TypeOK
<1> QED BY <1>1, SetBoxIs DEF Halt, Halted, Started

-----------------------------------------------------------------------------
LEMMA CreateSteps ==
  ASSUME PodsInv, NEW p \in Pods,
         \/ AddInstance(p) \/ CreateNetwork(p) \/ CreateRuntimeAPI(p) \/ StartRuntimeAPI(p)
         \/ CreateFunction(p) \/ StartFunction(p)
  PROVE  TypeOK' /\ PodInv(p)' /\ Apart(p)
<1>0. TypeOK /\ PodInv(p)
  BY DEF PodsInv
<1> USE <1>0
    DEF PodInv, Built, CleanedUp, TruthTold, Halts, Running, Creating, Started, Apart,
        local, results, docker
<1>1. CASE AddInstance(p)
  <2>1. PICK to \in {"createNetwork", "failed"} : Goto(p, "none", to)
    BY <1>1 DEF AddInstance
  <2>2. UNCHANGED <<ctx, names, net, box, errs, stopped, hurt>>
    BY <1>1 DEF AddInstance
  <2>3. pc[p] = "none" /\ names[p] = "own" /\ p \notin net /\ Halts(p)
    BY <2>1 DEF Goto
  <2>4. TypeOK'
    BY <2>1, <2>2 DEF Goto, TypeOK, Resting
  <2>5. pc'[p] = to
    BY <2>1 DEF Goto, TypeOK
  <2>6. PodInv(p)'
    BY <2>2, <2>3, <2>5 DEF Containers
  <2> QED BY <2>1, <2>2, <2>4, <2>6 DEF Goto, TypeOK
<1>2. CASE CreateNetwork(p)
  BY <1>2 DEF CreateNetwork, StartFails, Goto, TypeOK, Resting
<1>3. ASSUME NEW c \in Containers, NEW s \in ContainerStates,
             NEW from \in Creating \ {"createNetwork"}, NEW to \in Creating \cup {"up"},
             to # "createNetwork",
             from = "createAPI" => to = "startAPI",
             from = "startAPI" => c = "api" /\ s = "running" /\ to = "createFunction",
             from = "createFunction" => c = "function" /\ to = "startFunction",
             from = "startFunction" => c = "function" /\ s = "running" /\ to = "up",
             ContainerCall(p, c, s, from, to)
      PROVE  TypeOK' /\ PodInv(p)' /\ Apart(p)
  <2>1. \/ SetBox(p, c, s) /\ (Goto(p, from, to) \/ Goto(p, from, "stopFunction"))
        \/ UNCHANGED box /\ Goto(p, from, "stopFunction")
    BY <1>3 DEF ContainerCall, StartFails
  <2>2. UNCHANGED <<ctx, net, names, errs, stopped, hurt>>
    BY <1>3 DEF ContainerCall
  <2>3. CASE SetBox(p, c, s) /\ (Goto(p, from, to) \/ Goto(p, from, "stopFunction"))
    <3>1. /\ box' \in [Pods -> [Containers -> ContainerStates]]
          /\ box'[p][c] = s
          /\ \A d \in Containers \ {c} : box'[p][d] = box[p][d]
          /\ \A q \in Pods \ {p} : box'[q] = box[q]
      BY <1>3, <2>3, SetBoxIs
    <3>2. /\ pc[p] = from
          /\ \E t \in {to, "stopFunction"} : pc' = [pc EXCEPT ![p] = t]
      BY <2>3 DEF Goto
    <3>3. TypeOK'
      BY <1>3, <2>2, <3>1, <3>2 DEF TypeOK, Resting
    <3>4. PodInv(p)'
      BY <1>3, <2>2, <3>1, <3>2 DEF TypeOK, Containers
    <3> QED BY <2>2, <3>1, <3>2, <3>3, <3>4 DEF TypeOK
  <2>4. CASE UNCHANGED box /\ Goto(p, from, "stopFunction")
    BY <1>3, <2>2, <2>4 DEF Goto, TypeOK, Resting
  <2> QED BY <2>1, <2>3, <2>4
<1>4. CASE CreateRuntimeAPI(p)
  BY <1>3, <1>4 DEF CreateRuntimeAPI, Containers, ContainerStates
<1>5. CASE StartRuntimeAPI(p)
  BY <1>3, <1>5 DEF StartRuntimeAPI, Containers, ContainerStates
<1>6. CASE CreateFunction(p)
  BY <1>3, <1>6 DEF CreateFunction, Containers, ContainerStates
<1>7. CASE StartFunction(p)
  BY <1>3, <1>7 DEF StartFunction, Containers, ContainerStates
<1> QED BY <1>1, <1>2, <1>4, <1>5, <1>6, <1>7

-----------------------------------------------------------------------------
LEMMA StopSteps ==
  ASSUME PodsInv, NEW p \in Pods,
         StopInstance(p) \/ StopFunction(p) \/ StopRuntimeAPI(p) \/ RemoveNetwork(p)
  PROVE  TypeOK' /\ PodInv(p)' /\ Apart(p)
<1>0. TypeOK /\ PodInv(p)
  BY DEF PodsInv
<1> USE <1>0
    DEF PodInv, Built, CleanedUp, TruthTold, Halts, Running, Creating, Started, Apart,
        local, results, docker
<1>1. CASE StopInstance(p)
  BY <1>1 DEF StopInstance, TypeOK, Resting
<1>2. CASE StopFunction(p)
  <2>1. pc[p] = "stopFunction" /\ pc' = [pc EXCEPT ![p] = "stopAPI"]
    BY <1>2 DEF StopFunction, Goto
  <2>2. /\ errs' \in [Pods -> SUBSET Containers]
        /\ UNCHANGED <<ctx, names, net, stopped>>
    BY <1>2 DEF StopFunction, TypeOK, Containers
  <2>3. hurt' = hurt \/ hurt' = hurt \cup {p}
    BY <1>2 DEF StopFunction, StopCallFails
  <2>4. Halt(p, "function") \/ (UNCHANGED box /\ (names[p] = "own" => p \in hurt'))
    BY <1>2 DEF StopFunction, StopCallFails
  <2>5. CASE Halt(p, "function")
    <3>1. /\ box' \in [Pods -> [Containers -> ContainerStates]]
          /\ box'[p]["function"] # "running"
          /\ \A q \in Pods \ {p} : box'[q] = box[q]
      BY <2>5, HaltIs DEF Containers
    <3> QED BY <2>1, <2>2, <2>3, <3>1 DEF TypeOK, Resting
  <2>6. CASE UNCHANGED box /\ (names[p] = "own" => p \in hurt')
    BY <2>1, <2>2, <2>3, <2>6 DEF TypeOK, Resting
  <2> QED BY <2>4, <2>5, <2>6
<1>3. CASE StopRuntimeAPI(p)
  <2>1. pc[p] = "stopAPI" /\ pc' = [pc EXCEPT ![p] = "removeNetwork"]
    BY <1>3 DEF StopRuntimeAPI, Goto
  <2>2. /\ errs' \in [Pods -> SUBSET Containers]
        /\ UNCHANGED <<ctx, names, net, stopped>>
    BY <1>3 DEF StopRuntimeAPI, TypeOK, Containers
  <2>3. hurt' = hurt \/ hurt' = hurt \cup {p}
    BY <1>3 DEF StopRuntimeAPI, StopCallFails
  <2>4. \/ Halt(p, "api")
        \/ UNCHANGED box /\ (names[p] = "own" => box[p]["api"] = "none" \/ p \in hurt')
    BY <1>3 DEF StopRuntimeAPI, StopCallFails
  <2>5. CASE Halt(p, "api")
    <3>1. /\ box' \in [Pods -> [Containers -> ContainerStates]]
          /\ box'[p]["api"] # "running"
          /\ box'[p]["function"] = box[p]["function"]
          /\ \A q \in Pods \ {p} : box'[q] = box[q]
      BY <2>5, HaltIs DEF Containers
    <3> QED BY <2>1, <2>2, <2>3, <3>1 DEF TypeOK, Resting
  <2>6. CASE UNCHANGED box /\ (names[p] = "own" => box[p]["api"] = "none" \/ p \in hurt')
    BY <2>1, <2>2, <2>3, <2>6 DEF TypeOK, Resting
  <2> QED BY <2>4, <2>5, <2>6
<1>4. CASE RemoveNetwork(p)
  <2>1. /\ pc[p] = "removeNetwork"
        /\ pc' = [pc EXCEPT ![p] = IF names[p] = "own" THEN "failed" ELSE "stopped"]
        /\ UNCHANGED <<ctx, box, names, errs>>
    BY <1>4 DEF RemoveNetwork, Goto, Rested
  <2>2. CASE Removable(p) /\ net' = net \ {p} /\ hurt' = hurt
             /\ stopped' \in [Pods -> {"none", "ok", "error"}]
             /\ \A q \in Pods \ {p} : stopped'[q] = stopped[q]
    BY <2>1, <2>2 DEF Removable, TypeOK, Resting, Containers
  <2>3. CASE stopped' = [stopped EXCEPT ![p] = "error"]
             /\ net' \in {net, net \ {p}} /\ hurt' = hurt \cup {p}
    BY <2>1, <2>3 DEF TypeOK, Resting
  <2>4. CASE stopped' = [stopped EXCEPT ![p] = "error"]
             /\ ctx[p] = "live" /\ ~ (Removable(p) /\ p \in net) /\ UNCHANGED <<net, hurt>>
    BY <2>1, <2>4 DEF Removable, TypeOK, Resting, Containers
  <2> QED BY <1>4, <2>2, <2>3, <2>4 DEF RemoveNetwork, TypeOK
<1> QED BY <1>1, <1>2, <1>3, <1>4

LEMMA OtherSteps ==
  ASSUME PodsInv, NEW p \in Pods, Expire(p) \/ ContainerExits(p)
  PROVE  TypeOK' /\ PodInv(p)' /\ Apart(p)
<1>0. TypeOK /\ PodInv(p)
  BY DEF PodsInv
<1> USE <1>0
    DEF PodInv, Built, CleanedUp, TruthTold, Halts, Running, Creating, Started, Apart,
        local, results, docker
<1>1. CASE Expire(p)
  BY <1>1 DEF Expire, TypeOK
<1>2. CASE ContainerExits(p)
  <2>1. PICK c \in Containers : Halt(p, c)
    BY <1>2 DEF ContainerExits
  <2>2. /\ box' \in [Pods -> [Containers -> ContainerStates]]
        /\ box'[p][c] # "running"
        /\ box[p][c] \in {"running", "exited"} => box'[p][c] \in {"running", "exited"}
        /\ \A d \in Containers \ {c} : box'[p][d] = box[p][d]
        /\ \A q \in Pods \ {p} : box'[q] = box[q]
    BY <2>1, HaltIs
  <2>3. UNCHANGED <<pc, ctx, net, names, errs, stopped, hurt>>
    BY <1>2 DEF ContainerExits
  <2> QED BY <2>2, <2>3 DEF TypeOK, Containers
<1> QED BY <1>1, <1>2

LEMMA PodStepInv ==
  ASSUME PodsInv, NEW p \in Pods, AddInstance(p) \/ StopInstance(p) \/ PodStep(p)
  PROVE  PodsInv'
<1>1. TypeOK' /\ PodInv(p)' /\ Apart(p)
  BY CreateSteps, StopSteps, OtherSteps DEF PodStep
<1>2. ASSUME NEW q \in Pods \ {p} PROVE PodInv(q)'
  BY <1>1, Bystander DEF Apart, PodsInv
<1> QED BY <1>1, <1>2 DEF PodsInv

LEMMA PodsStutter == PodsInv /\ UNCHANGED podVars => PodsInv'
BY Bystander DEF PodsInv, podVars, docker, local, results, TypeOK

LEMMA InitPodsInv == Init => PodsInv
BY DEF Init, PodsInv, PodInv, TypeOK, Built, CleanedUp, TruthTold, Creating, Resting,
       Halts, Running, Containers, ContainerStates

LEMMA PodsInvariant == ScalerSpec => []PodsInv
<1>1. ScalerInit => PodsInv
  BY InitPodsInv DEF ScalerInit
<1>2. PodsInv /\ [ScalerNext]_allVars => PodsInv'
  BY PodStepInv, PodsStutter
     DEF ScalerNext, RescaleToConfig, ScaleUp, InstanceAdded, AddInstanceFails, RescaleDone,
         ServerStep, allVars
<1> QED BY <1>1, <1>2, PTL DEF ScalerSpec

(* AddInstance returns a pod only when all of it has been started.         *)
THEOREM StartedWholeTheorem == ScalerSpec => []StartedWhole
<1>1. PodsInv => StartedWhole
  BY DEF PodsInv, PodInv, Built, Creating, Started, StartedWhole, TypeOK, Containers
<1> QED BY <1>1, PodsInvariant, PTL

(* A failing AddInstance leaves no container running and no network, at
   whichever call it fails, when the calls of the clean-up go through.     *)
THEOREM FailureCleansUpTheorem == ScalerSpec => []FailureCleansUp
<1>1. PodsInv => FailureCleansUp
  BY DEF PodsInv, PodInv, CleanedUp, FailureCleansUp, Halts, Containers
<1> QED BY <1>1, PodsInvariant, PTL

(* Stop returns no error only when everything of the pod is stopped.       *)
THEOREM StopTellsTheTruthTheorem == ScalerSpec => []StopTellsTheTruth
<1>1. PodsInv => StopTellsTheTruth
  BY DEF PodsInv, PodInv, TruthTold, StopTellsTheTruth
<1> QED BY <1>1, PodsInvariant, PTL

-----------------------------------------------------------------------------
(* One pod at a time is being created, and only while the scaler waits for
   AddInstance: no container starts to run otherwise.                      *)
OneAtATime ==
  /\ \A p \in Pods : pc[p] \in Creating => p = pod
  /\ at = "waiting" => pod = NoPod

ScalerInv == ScalerTypeOK /\ OneAtATime /\ OvershootExplained

LEMMA PodsCount ==
  ASSUME NEW S \in SUBSET Pods
  PROVE  /\ IsFiniteSet(S) /\ Cardinality(S) \in Nat
         /\ \A T \in SUBSET S : Cardinality(T) <= Cardinality(S)
BY ScalerAssumption, FS_Subset, FS_CardinalityType

(* A pod's own step makes nothing live but the pod that is being created.  *)
LEMMA NothingElseStarts ==
  ASSUME TypeOK, NEW p \in Pods, StopInstance(p) \/ PodStep(p)
  PROVE  /\ \A q \in Pods : pc'[q] \in Creating => pc[q] \in Creating
         /\ \A q \in Live' : q \in Live \/ pc[q] \in Creating
<1>1. \A q \in Pods : pc'[q] \in Creating => pc[q] \in Creating
  BY DEF PodStep, StopInstance, CreateNetwork, CreateRuntimeAPI, StartRuntimeAPI,
         CreateFunction, StartFunction, ContainerCall, StopFunction, StopRuntimeAPI,
         RemoveNetwork, Expire, ContainerExits, StartFails, Goto, Rested, Creating, TypeOK
<1>2. \A q \in Pods : box'[q]["api"] = "running" => box[q]["api"] = "running" \/ pc[q] \in Creating
  <2>1. ASSUME NEW c \in Containers, Halt(p, c)
        PROVE  \A q \in Pods : box'[q]["api"] = "running" => box[q]["api"] = "running"
    BY <2>1 DEF Halt, SetBox, Halted, TypeOK, Containers
  <2>2. ASSUME NEW c \in Containers, NEW s \in ContainerStates, SetBox(p, c, s), pc[p] \in Creating
        PROVE  \A q \in Pods : box'[q]["api"] = "running"
                                 => box[q]["api"] = "running" \/ pc[q] \in Creating
    BY <2>2 DEF SetBox, TypeOK, Containers
  <2>3. ASSUME NEW c \in Containers, NEW s \in ContainerStates, NEW from \in Creating, NEW to,
               ContainerCall(p, c, s, from, to)
        PROVE  \A q \in Pods : box'[q]["api"] = "running"
                                 => box[q]["api"] = "running" \/ pc[q] \in Creating
    BY <2>2, <2>3 DEF ContainerCall, StartFails, Goto
  <2>4. CASE CreateRuntimeAPI(p) \/ StartRuntimeAPI(p) \/ CreateFunction(p) \/ StartFunction(p)
    BY <2>3, <2>4 DEF CreateRuntimeAPI, StartRuntimeAPI, CreateFunction, StartFunction,
                      Containers, ContainerStates, Creating
  <2>5. CASE StopFunction(p) \/ StopRuntimeAPI(p) \/ ContainerExits(p)
    BY <2>1, <2>5 DEF StopFunction, StopRuntimeAPI, StopCallFails, ContainerExits, Containers
  <2>6. CASE StopInstance(p) \/ CreateNetwork(p) \/ RemoveNetwork(p) \/ Expire(p)
    BY <2>6 DEF StopInstance, CreateNetwork, RemoveNetwork, Expire, docker
  <2> QED BY <2>4, <2>5, <2>6 DEF PodStep
<1> QED BY <1>1, <1>2 DEF Live, Running

(* What does not enlarge the pods alive or under way keeps the bound.      *)
LEMMA Bounded ==
  ASSUME ScalerInv, ScalerTypeOK', missed' = missed, toCreate' <= toCreate,
         Live' \cup Current' \subseteq Live \cup Current
  PROVE  OvershootExplained'
<1>1. Live \cup Current \in SUBSET Pods
  BY DEF ScalerInv, ScalerTypeOK, Live, Current
<1>2. /\ Cardinality(Live' \cup Current') <= Cardinality(Live \cup Current)
      /\ Cardinality(Live' \cup Current') \in Nat /\ Cardinality(Live \cup Current) \in Nat
  BY <1>1, PodsCount
<1> QED BY <1>2, ScalerAssumption DEF ScalerInv, ScalerTypeOK, OvershootExplained

LEMMA RescaleInv == ASSUME PodsInv, ScalerInv, RescaleToConfig PROVE ScalerInv'
<1>1. /\ UNCHANGED <<pod, pc, box, counted, stage, podVars>>
      /\ at = "waiting" /\ at' = "scaling" /\ pod = NoPod
      /\ toCreate' = Min - Cardinality(counted) /\ Cardinality(counted) < Min
      /\ rounds < MaxRounds /\ rounds' = rounds + 1
      /\ missed' = Cardinality(Live \ counted)
  BY DEF RescaleToConfig, podVars, docker, registryVars, ScalerInv, OneAtATime
<1>2. Live \in SUBSET Pods /\ counted \in SUBSET Pods /\ Live' = Live /\ Current' = {}
  BY <1>1 DEF Live, Running, ScalerInv, ScalerTypeOK, Current
<1>3. /\ IsFiniteSet(counted) /\ IsFiniteSet(Live \ counted)
      /\ Cardinality(counted) \in Nat /\ Cardinality(Live \ counted) \in Nat
  BY <1>2, PodsCount
<1>4. /\ Cardinality(Live) \in Nat
      /\ Cardinality(Live) <= Cardinality(counted) + Cardinality(Live \ counted)
  <2>1. Cardinality(counted \cup (Live \ counted))
          = Cardinality(counted) + Cardinality(Live \ counted) - Cardinality({})
    <3>1. counted \cap (Live \ counted) = {}
      OBVIOUS
    <3> QED BY <1>3, <3>1, FS_Union
  <2>2. Cardinality({}) = 0
    BY FS_EmptySet
  <2>3. counted \cup (Live \ counted) \in SUBSET Pods
    BY <1>2
  <2>4. Live \in SUBSET (counted \cup (Live \ counted))
    OBVIOUS
  <2>5. Cardinality(Live) <= Cardinality(counted \cup (Live \ counted))
    BY <2>3, <2>4, PodsCount
  <2> QED BY <1>2, <1>3, <2>1, <2>2, <2>5, PodsCount
<1>5. OvershootExplained'
  <2>1. Live' \cup Current' = Live
    BY <1>2
  <2>2. Cardinality(Live' \cup Current') = Cardinality(Live)
    BY <2>1
  <2>3. Cardinality(Live) + toCreate' <= Min + missed'
    BY <1>1, <1>3, <1>4, ScalerAssumption
  <2>4. Cardinality(Live' \cup Current') + toCreate' <= Min' + missed'
    BY <2>2, <2>3
  <2> QED BY <2>4 DEF OvershootExplained
<1>6. TypeOK'
  BY PodsStutter, <1>1 DEF PodsInv
<1>7. ScalerTypeOK'
  BY <1>1, <1>2, <1>3, <1>6, ScalerAssumption DEF ScalerInv, ScalerTypeOK
<1> QED BY <1>1, <1>5, <1>7 DEF ScalerInv, OneAtATime

LEMMA ScaleUpInv == ASSUME PodsInv, ScalerInv, ScaleUp PROVE ScalerInv'
<1>1. PICK p \in Pods : AddInstance(p) /\ pod' = p
  BY DEF ScaleUp
<1>2. /\ at = "scaling" /\ pod = NoPod /\ toCreate > 0 /\ toCreate' = toCreate - 1
      /\ UNCHANGED <<at, rounds, missed, counted, stage>>
  BY DEF ScaleUp, registryVars
<1>3. TypeOK'
  BY <1>1, PodStepInv DEF PodsInv
<1>4. ScalerTypeOK'
  BY <1>1, <1>2, <1>3, ScalerAssumption DEF ScalerInv, ScalerTypeOK
<1>5. Live' = Live /\ Current = {} /\ Current' = {p}
  BY <1>1, <1>2, ScalerAssumption DEF AddInstance, docker, Live, Running, Current
<1>6. Live \in SUBSET Pods
  BY DEF Live
<1>7. Cardinality(Live \cup {p}) <= Cardinality(Live) + 1 /\ Cardinality(Live \cup {p}) \in Nat
      /\ Cardinality(Live) \in Nat
  <2>1. IsFiniteSet(Live)
    BY <1>6, PodsCount
  <2>2. Cardinality(Live \cup {p}) = IF p \in Live THEN Cardinality(Live) ELSE Cardinality(Live) + 1
    BY <2>1, FS_AddElement
  <2> QED BY <1>6, <2>2, PodsCount
<1>8. OvershootExplained'
  <2>1. Live' \cup Current' = Live \cup {p} /\ Live \cup Current = Live
    BY <1>5
  <2>2. Cardinality(Live) + toCreate <= Min + missed /\ toCreate \in Int /\ missed \in Nat
    BY <2>1, ScalerAssumption DEF OvershootExplained, ScalerInv, ScalerTypeOK
  <2>3. Cardinality(Live \cup {p}) + toCreate' <= Min + missed'
    BY <1>2, <1>7, <2>2, ScalerAssumption
  <2>4. Cardinality(Live' \cup Current') + toCreate' <= Min' + missed'
    BY <2>1, <2>3
  <2> QED BY <2>4 DEF OvershootExplained
<1>9. OneAtATime'
  BY <1>1, <1>2, ScalerAssumption DEF AddInstance, Goto, ScalerInv, ScalerTypeOK, TypeOK, OneAtATime
<1> QED BY <1>4, <1>8, <1>9 DEF ScalerInv

(* The rest of the scaler's steps let go of the pod or of what is to create. *)
LEMMA LoopInv ==
  ASSUME PodsInv, ScalerInv, InstanceAdded \/ AddInstanceFails \/ RescaleDone
  PROVE  ScalerInv'
<1>1. UNCHANGED podVars /\ UNCHANGED <<rounds, missed, counted, stage>> /\ pod' = NoPod
  BY DEF InstanceAdded, AddInstanceFails, RescaleDone, registryVars
<1>2. toCreate' \in {0, toCreate} /\ at' \in {"waiting", at} /\ (pod # NoPod => pc[pod] \notin Creating)
  BY DEF InstanceAdded, AddInstanceFails, RescaleDone, Creating
<1>3. TypeOK'
  BY <1>1, PodsStutter DEF PodsInv
<1>4. ScalerTypeOK'
  BY <1>1, <1>2, <1>3, ScalerAssumption DEF ScalerInv, ScalerTypeOK
<1>5. Live' \cup Current' \subseteq Live \cup Current
  BY <1>1 DEF podVars, docker, Live, Running, Current
<1>6. OvershootExplained'
  BY <1>1, <1>2, <1>4, <1>5, Bounded, ScalerAssumption DEF ScalerInv, ScalerTypeOK
<1>7. OneAtATime'
  BY <1>1, <1>2, ScalerAssumption DEF ScalerInv, OneAtATime, podVars
<1> QED BY <1>4, <1>6, <1>7 DEF ScalerInv

LEMMA OthersInv ==
  ASSUME PodsInv, ScalerInv, NEW p \in Pods,
         \/ ServerStep(p)
         \/ (StopInstance(p) \/ PodStep(p)) /\ UNCHANGED <<scalerVars, registryVars>>
  PROVE  ScalerInv'
<1>1. UNCHANGED scalerVars
  BY DEF ServerStep
<1>2. TypeOK'
  BY PodStepInv, PodsStutter DEF PodsInv, ServerStep
<1>3. ScalerTypeOK'
  <2>1. counted' \subseteq Pods /\ stage' \in [Pods -> {"new", "serving", "gone"}]
    BY DEF ServerStep, Reg!Step, Reg!Register, Reg!Serve, Reg!Leave, Reg!Withdraw,
           registryVars, ScalerInv, ScalerTypeOK
  <2> QED BY <1>1, <1>2, <2>1 DEF ScalerInv, ScalerTypeOK, scalerVars
<1>4. /\ \A q \in Pods : pc'[q] \in Creating => pc[q] \in Creating
      /\ \A q \in Live' : q \in Live \/ pc[q] \in Creating
  <2>1. CASE ServerStep(p)
    BY <2>1 DEF ServerStep, podVars, docker, Live, Running
  <2>2. CASE StopInstance(p) \/ PodStep(p)
    BY <2>2, NothingElseStarts DEF PodsInv
  <2> QED BY <2>1, <2>2
<1>5. Live' \cup Current' \subseteq Live \cup Current
  <2>1. Current' = Current
    BY <1>1 DEF scalerVars, Current
  <2>2. ASSUME NEW q \in Live' PROVE q \in Live \cup Current
    <3>1. q \in Pods
      BY DEF Live
    <3> QED BY <1>4, <3>1, ScalerAssumption DEF ScalerInv, OneAtATime, Current
  <2> QED BY <2>1, <2>2
<1>6. OvershootExplained'
  BY <1>1, <1>3, <1>5, Bounded DEF scalerVars, ScalerInv, ScalerTypeOK
<1>7. OneAtATime'
  BY <1>1, <1>4 DEF scalerVars, ScalerInv, OneAtATime
<1> QED BY <1>3, <1>6, <1>7 DEF ScalerInv

LEMMA ScalerInvariant == ScalerSpec => []ScalerInv
<1>1. ScalerInit => ScalerInv
  <2>1. ASSUME ScalerInit PROVE ScalerTypeOK /\ OneAtATime
    BY <2>1, ScalerAssumption, InitPodsInv
       DEF ScalerInit, Reg!Init, Init, ScalerTypeOK, PodsInv, OneAtATime, Creating
  <2>2. ASSUME ScalerInit PROVE Live \cup Current = {}
    BY <2>2 DEF ScalerInit, Init, Live, Running, Current, Containers
  <2> QED BY <2>1, <2>2, FS_EmptySet, ScalerAssumption DEF ScalerInv, ScalerInit, OvershootExplained
<1>2. PodsInv /\ ScalerInv /\ [ScalerNext]_allVars => ScalerInv'
  <2>1. ASSUME PodsInv, ScalerInv, UNCHANGED allVars PROVE ScalerInv'
    <3>1. UNCHANGED podVars /\ UNCHANGED scalerVars /\ UNCHANGED registryVars
      BY <2>1 DEF allVars
    <3>2. TypeOK'
      BY <2>1, <3>1, PodsStutter DEF PodsInv
    <3>3. ScalerTypeOK'
      BY <2>1, <3>1, <3>2 DEF ScalerInv, ScalerTypeOK, scalerVars, registryVars
    <3>4. Live' = Live /\ Current' = Current
      BY <3>1 DEF podVars, docker, scalerVars, Live, Running, Current
    <3>5. OvershootExplained'
      BY <2>1, <3>1, <3>4 DEF ScalerInv, OvershootExplained, scalerVars
    <3> QED BY <2>1, <3>1, <3>3, <3>5 DEF ScalerInv, OneAtATime, podVars, scalerVars
  <2> QED BY <2>1, RescaleInv, ScaleUpInv, LoopInv, OthersInv DEF ScalerNext
<1> QED BY <1>1, <1>2, PodsInvariant, PTL DEF ScalerSpec

(* Every variable of the scaler, of the pods and of the registry keeps its
   type: toCreate stays between nothing and Min.                           *)
THEOREM ScalerTypeOKTheorem == ScalerSpec => []ScalerTypeOK
<1>1. ScalerInv => ScalerTypeOK
  BY DEF ScalerInv
<1> QED BY <1>1, ScalerInvariant, PTL

(* No more pods live or under way than Min and the live pods that the last
   count missed, for every Min and whatever fails.                         *)
THEOREM OvershootExplainedTheorem == ScalerSpec => []OvershootExplained
<1>1. ScalerInv => OvershootExplained
  BY DEF ScalerInv
<1> QED BY <1>1, ScalerInvariant, PTL

-----------------------------------------------------------------------------
(* However wrong the counts are, a call of rescaleToConfig begins no more than
   Min pods, and no pod is begun twice: pods that leak are bounded by the
   calls, not by the failures.                                             *)
Begun == {p \in Pods : pc[p] # "none"}

BegunBounded == Cardinality(Begun) + toCreate <= Min * rounds

LEMMA RescaleBegins == ASSUME ScalerTypeOK, BegunBounded, RescaleToConfig PROVE BegunBounded'
<1>1. UNCHANGED Begun /\ rounds' = rounds + 1 /\ toCreate' = Min - Cardinality(counted)
  BY DEF RescaleToConfig, podVars, Begun
<1>2. Cardinality(counted) \in Nat /\ Cardinality(Begun) \in Nat
  BY PodsCount DEF ScalerTypeOK, Begun
<1>3. Min * (rounds + 1) = Min * rounds + Min /\ Min * rounds \in Nat
  BY ScalerAssumption DEF ScalerTypeOK
<1>4. toCreate \in Nat
  BY ScalerAssumption DEF ScalerTypeOK
<1> DEFINE total == Min * rounds
<1>5. Cardinality(Begun) + toCreate <= total /\ total \in Nat
  BY <1>3 DEF BegunBounded
<1> HIDE DEF total
<1>6. Cardinality(Begun) + (Min - Cardinality(counted)) <= total + Min
  BY <1>2, <1>4, <1>5, ScalerAssumption
<1>7. Min * rounds' = total + Min
  BY <1>1, <1>3 DEF total
<1> QED BY <1>1, <1>6, <1>7 DEF BegunBounded

LEMMA ScaleUpBegins == ASSUME ScalerTypeOK, BegunBounded, ScaleUp PROVE BegunBounded'
<1>1. PICK p \in Pods : AddInstance(p)
  BY DEF ScaleUp
<1>2. toCreate' = toCreate - 1 /\ UNCHANGED rounds
  BY DEF ScaleUp
<1>3. Begun' = Begun \cup {p}
  BY <1>1 DEF AddInstance, Goto, Begun, ScalerTypeOK, TypeOK
<1>4. IsFiniteSet(Begun) /\ Cardinality(Begun) \in Nat
  BY PodsCount DEF Begun
<1>5. Cardinality(Begun') <= Cardinality(Begun) + 1 /\ Cardinality(Begun') \in Nat
  BY <1>3, <1>4, FS_AddElement
<1>6. toCreate \in Int
  BY ScalerAssumption DEF ScalerTypeOK
<1> DEFINE total == Min * rounds
<1>7. total \in Int /\ Cardinality(Begun) + toCreate <= total
  BY ScalerAssumption DEF ScalerTypeOK, BegunBounded
<1> HIDE DEF total
<1>8. Cardinality(Begun') + toCreate' <= total
  BY <1>2, <1>4, <1>5, <1>6, <1>7
<1> QED BY <1>2, <1>8 DEF BegunBounded, total

(* The other steps begin no pod, and lower toCreate if they change it.     *)
LEMMA OthersBegin ==
  ASSUME ScalerTypeOK, BegunBounded, UNCHANGED rounds, toCreate' \in {0, toCreate},
         Begun' = Begun
  PROVE  BegunBounded'
<1>1. Cardinality(Begun) \in Nat /\ toCreate \in Nat
  BY PodsCount, ScalerAssumption DEF Begun, ScalerTypeOK
<1> DEFINE total == Min * rounds
<1>2. total \in Int /\ Cardinality(Begun) + toCreate <= total
  BY ScalerAssumption DEF ScalerTypeOK, BegunBounded
<1> HIDE DEF total
<1>3. Cardinality(Begun) + toCreate' <= total
  BY <1>1, <1>2
<1>4. total' = total /\ Cardinality(Begun') = Cardinality(Begun)
  BY DEF total
<1> QED BY <1>3, <1>4 DEF BegunBounded, total

THEOREM BegunBoundedTheorem == ScalerSpec => []BegunBounded
<1>1. ScalerInit => BegunBounded
  <2> SUFFICES ASSUME ScalerInit PROVE BegunBounded
    OBVIOUS
  <2>1. Begun = {} /\ toCreate = 0 /\ rounds = 0
    BY DEF ScalerInit, Init, Begun
  <2> QED BY <2>1, FS_EmptySet, ScalerAssumption DEF BegunBounded
<1>2. ScalerTypeOK /\ BegunBounded /\ [ScalerNext]_allVars => BegunBounded'
  <2> SUFFICES ASSUME ScalerTypeOK, BegunBounded, [ScalerNext]_allVars PROVE BegunBounded'
    OBVIOUS
  <2>1. CASE UNCHANGED allVars
    BY <2>1, OthersBegin DEF allVars, podVars, scalerVars, Begun
  <2>2. CASE InstanceAdded \/ AddInstanceFails \/ RescaleDone
    BY <2>2, OthersBegin DEF InstanceAdded, AddInstanceFails, RescaleDone, podVars, Begun
  <2>3. ASSUME NEW p \in Pods, ServerStep(p) PROVE BegunBounded'
    BY <2>3, OthersBegin DEF ServerStep, podVars, scalerVars, Begun
  <2>4. ASSUME NEW p \in Pods, StopInstance(p) \/ PodStep(p), UNCHANGED scalerVars
        PROVE  BegunBounded'
    <3>1. pc[p] # "none" \/ UNCHANGED pc
      BY <2>4 DEF StopInstance, PodStep, CreateNetwork, CreateRuntimeAPI, StartRuntimeAPI,
         CreateFunction, StartFunction, ContainerCall, StartFails, StopFunction, StopRuntimeAPI,
         RemoveNetwork, Expire, ContainerExits, Goto
    <3>2. UNCHANGED pc \/ \E to : to # "none" /\ pc' = [pc EXCEPT ![p] = to]
      <4>1. CASE StopInstance(p) \/ Expire(p) \/ ContainerExits(p)
        BY <4>1 DEF StopInstance, Expire, ContainerExits
      <4>2. CASE CreateNetwork(p) \/ CreateRuntimeAPI(p) \/ StartRuntimeAPI(p)
                   \/ CreateFunction(p) \/ StartFunction(p)
        BY <4>2 DEF CreateNetwork, CreateRuntimeAPI, StartRuntimeAPI, CreateFunction,
           StartFunction, ContainerCall, StartFails, Goto
      <4>3. CASE StopFunction(p)
        <5>1. pc' = [pc EXCEPT ![p] = "stopAPI"]
          BY <4>3 DEF StopFunction, Goto
        <5> QED BY <5>1
      <4>4. CASE StopRuntimeAPI(p)
        <5>1. pc' = [pc EXCEPT ![p] = "removeNetwork"]
          BY <4>4 DEF StopRuntimeAPI, Goto
        <5> QED BY <5>1
      <4>5. CASE RemoveNetwork(p)
        <5>1. pc' = [pc EXCEPT ![p] = Rested(p)]
          BY <4>5 DEF RemoveNetwork, Goto
        <5>2. Rested(p) # "none"
          BY DEF Rested
        <5> QED BY <5>1, <5>2
      <4> QED BY <2>4, <4>1, <4>2, <4>3, <4>4, <4>5 DEF PodStep
    <3>3. Begun' = Begun
      BY <3>1, <3>2 DEF Begun, ScalerTypeOK, TypeOK
    <3> QED BY <2>4, <3>3, OthersBegin DEF scalerVars
  <2> QED BY <2>1, <2>2, <2>3, <2>4, RescaleBegins, ScaleUpBegins DEF ScalerNext
<1> QED BY <1>1, <1>2, ScalerTypeOKTheorem, PTL DEF ScalerSpec

=============================================================================
