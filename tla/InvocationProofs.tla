-------------------------- MODULE InvocationProofs --------------------------
(***************************************************************************)
(* Theorems about Invocation, for every set of calls and pods, every       *)
(* choice of faults, every Bound and every number of redeliveries.         *)
(***************************************************************************)
EXTENDS Invocation, FiniteSetTheorems, TLAPS

-----------------------------------------------------------------------------
(* Types.                                                                  *)

(* What a pod's two halves agree on: while the function is between two
   requests to the runtime API, or runs its handler, no handler of the server
   is running; and whoever works on an event has a request as its job.      *)
PodOK ==
  \A i \in Instances :
    /\ fn[i] \in {"idle", "handling"} => srv[i] \in {"none", "down"}
    /\ fn[i] = "handling" => job[i] \in Requests
    /\ srv[i] \in {"fetched", "acked", "recording", "publishing", "publishingError"}
         => job[i] \in Requests

TypeInv == TypeOK /\ PodOK

LEMMA InitTypeInv == Init => TypeInv
BY InvocationAssumption DEF Init, TypeInv, TypeOK, PodOK, Msg, AnswerKinds

LEMMA EventTyped == ASSUME NEW r \in Requests PROVE Event(r) \in Msg
BY DEF Event, Msg

LEMMA AnswerTyped ==
  ASSUME NEW r \in Requests, NEW k \in AnswerKinds, NEW n \in Nat
  PROVE  Answer(k, r, n) \in Msg
BY DEF Answer, Msg

(* The invoker and the contexts of a call.                                 *)
LEMMA InvokerTypeInv ==
  ASSUME TypeInv, NEW r \in Requests,
         \/ Invoke(r) \/ Publish(r) \/ PublishFails(r)
         \/ Return(r) \/ ReturnCancelled(r) \/ Expire(r) \/ Disconnect(r)
  PROVE  TypeInv'
<1> USE DEF TypeInv, TypeOK, PodOK
<1>1. CASE Invoke(r)
  BY <1>1 DEF Invoke, streamVars, podVars, historyVars
<1>2. CASE Publish(r)
  BY <1>2, EventTyped DEF Publish, StoreEvent, podVars
<1>3. CASE PublishFails(r)
  BY <1>3, EventTyped DEF PublishFails, StoreEvent, podVars
<1>4. CASE Return(r)
  BY <1>4 DEF Return, streamVars, podVars, historyVars
<1>5. CASE ReturnCancelled(r)
  BY <1>5 DEF ReturnCancelled, streamVars, podVars, historyVars
<1>6. CASE Expire(r)
  BY <1>6 DEF Expire, streamVars, podVars, historyVars
<1>7. CASE Disconnect(r)
  BY <1>7 DEF Disconnect, streamVars, podVars, historyVars
<1> QED BY <1>1, <1>2, <1>3, <1>4, <1>5, <1>6, <1>7

LEMMA CrashTypeInv == ASSUME TypeInv, GatewayCrash PROVE TypeInv'
BY DEF GatewayCrash, InProgress, Unreturned, streamVars, podVars, TypeInv, TypeOK, PodOK

(* The goroutine that awaits the answer.                                   *)
LEMMA WaiterTypeInv ==
  ASSUME TypeInv, NEW r \in Requests,
         AwaitCreate(r) \/ AwaitFails(r) \/ AwaitReceives(r) \/ AwaitTick(r)
  PROVE  TypeInv'
<1> USE DEF TypeInv, TypeOK, PodOK
<1>1. CASE AwaitCreate(r)
  BY <1>1 DEF AwaitCreate, streamVars, podVars, historyVars
<1>2. CASE AwaitFails(r)
  BY <1>2 DEF AwaitFails, Send, streamVars, podVars, historyVars
<1>3. CASE AwaitReceives(r)
  BY <1>3 DEF AwaitReceives, Send, ResponseSubjects, Deliverable, podVars, historyVars
<1>4. CASE AwaitTick(r)
  BY <1>4 DEF AwaitTick, Send, streamVars, podVars, historyVars
<1> QED BY <1>1, <1>2, <1>3, <1>4

(* What the stream does by itself.                                         *)
LEMMA StreamTypeInv == ASSUME TypeInv, StreamNext PROVE TypeInv'
<1> USE DEF TypeInv, TypeOK, PodOK
<1>1. ASSUME NEW r \in Requests, Redeliver(r) PROVE TypeInv'
  BY <1>1 DEF Redeliver, gatewayVars, podVars, historyVars
<1>2. ASSUME NEW r \in Requests, RedeliverAnswer(r) PROVE TypeInv'
  BY <1>2 DEF RedeliverAnswer, gatewayVars, podVars, historyVars
<1>3. CASE DeliveryLost
  BY <1>3 DEF DeliveryLost, Deliverable, gatewayVars, podVars, historyVars
<1>4. CASE Discard
  BY <1>4 DEF Discard, Msg, gatewayVars, podVars
<1> QED BY <1>1, <1>2, <1>3, <1>4 DEF StreamNext

(* A pod that asks for an event and gets it.                               *)
LEMMA PollTypeInv ==
  ASSUME TypeInv, NEW i \in Instances,
         \/ Poll(i) \/ PollRefused(i) \/ SetIdle(i) \/ NextFails(i)
         \/ Fetch(i) \/ NextTick(i) \/ Ack(i)
  PROVE  TypeInv'
<1> USE DEF TypeInv, TypeOK, PodOK
<1>1. CASE Poll(i)
  BY <1>1 DEF Poll, gatewayVars, streamVars, historyVars
<1>2. CASE PollRefused(i)
  BY <1>2 DEF PollRefused, gatewayVars, streamVars, historyVars
<1>3. CASE SetIdle(i)
  BY <1>3 DEF SetIdle, gatewayVars, streamVars, historyVars
<1>4. CASE NextFails(i)
  BY <1>4 DEF NextFails, gatewayVars, streamVars, historyVars
<1>5. CASE Fetch(i)
  BY <1>5 DEF Fetch, InvokeSubject, Deliverable, gatewayVars, historyVars
<1>6. CASE NextTick(i)
  BY <1>6 DEF NextTick, gatewayVars, streamVars, historyVars
<1>7. CASE Ack(i)
  BY <1>7 DEF Ack, gatewayVars, historyVars
<1> QED BY <1>1, <1>2, <1>3, <1>4, <1>5, <1>6, <1>7

(* A pod that has an event in hand.                                        *)
LEMMA WorkTypeInv ==
  ASSUME TypeInv, NEW i \in Instances,
         \/ Deliver(i) \/ DeliverToNobody(i)
         \/ \E k \in AnswerKinds : HandlerReturns(i, k)
         \/ Record(i) \/ RecordFails(i) \/ PublishAnswer(i) \/ PublishAnswerFails(i)
  PROVE  TypeInv'
<1> USE DEF TypeInv, TypeOK, PodOK
<1>1. CASE Deliver(i)
  BY <1>1 DEF Deliver, gatewayVars, streamVars
<1>2. CASE DeliverToNobody(i)
  BY <1>2 DEF DeliverToNobody, DropJob, gatewayVars, streamVars
<1>3. ASSUME NEW k \in AnswerKinds, HandlerReturns(i, k) PROVE TypeInv'
  BY <1>3 DEF HandlerReturns, DropJob, gatewayVars, streamVars
<1>4. CASE Record(i)
  BY <1>4 DEF Record, gatewayVars, streamVars, historyVars
<1>5. CASE RecordFails(i)
  BY <1>5 DEF RecordFails, Posted, DropJob, gatewayVars, streamVars
<1>6. CASE PublishAnswer(i)
  <2>1. PublishedKind(i) \in AnswerKinds
    BY DEF PublishedKind, AnswerKinds
  <2> QED BY <1>6, <2>1, AnswerTyped DEF PublishAnswer, Posted, gatewayVars, historyVars
<1>7. CASE PublishAnswerFails(i)
  BY <1>7 DEF PublishAnswerFails, Posted, DropJob, gatewayVars, streamVars
<1> QED BY <1>1, <1>2, <1>3, <1>4, <1>5, <1>6, <1>7

(* A pod that dies.                                                        *)
LEMMA DeathTypeInv ==
  ASSUME TypeInv, NEW i \in Instances, FunctionExits(i) \/ ServerCrash(i)
  PROVE  TypeInv'
<1> USE DEF TypeInv, TypeOK, PodOK
<1>1. CASE FunctionExits(i)
  BY <1>1 DEF FunctionExits, DropJob, gatewayVars, streamVars
<1>2. CASE ServerCrash(i)
  BY <1>2 DEF ServerCrash, DropJob, gatewayVars, streamVars
<1> QED BY <1>1, <1>2

LEMMA StepTypeInv == TypeInv /\ [Next]_vars => TypeInv'
<1> SUFFICES ASSUME TypeInv, [Next]_vars PROVE TypeInv'
  OBVIOUS
<1>1. CASE GatewayNext
  BY <1>1, InvokerTypeInv, CrashTypeInv, WaiterTypeInv DEF GatewayNext
<1>2. CASE StreamNext
  BY <1>2, StreamTypeInv
<1>3. CASE PodNext
  BY <1>3, PollTypeInv, WorkTypeInv, DeathTypeInv DEF PodNext
<1>4. CASE UNCHANGED vars
  BY <1>4 DEF vars, gatewayVars, streamVars, podVars, historyVars, TypeInv, TypeOK, PodOK
<1> QED BY <1>1, <1>2, <1>3, <1>4 DEF Next

(* Every variable has its type in every reachable state, and the two halves
   of a pod agree on who is at work (sdk.Serve and the server's handlers).   *)
THEOREM TypeCorrect == Spec => []TypeInv
<1>1. Init => TypeInv
  BY InitTypeInv
<1>2. TypeInv /\ [Next]_vars => TypeInv'
  BY StepTypeInv
<1> QED BY <1>1, <1>2, PTL DEF Spec

(* The type invariant that the runs check.                                 *)
THEOREM TypeOKTheorem == Spec => []TypeOK
<1>1. TypeInv => TypeOK
  BY DEF TypeInv
<1> QED BY <1>1, TypeCorrect, PTL

-----------------------------------------------------------------------------
(* The handler runs once, and once more for every redelivery.              *)

(* An event that may still come to a pod: it is to be published, or it is
   stored and not in flight.                                               *)
ToCome(r) == invoker[r] \in {"new", "publishing"} \/ Event(r) \in Deliverable

Budget(r) ==
  runs[r] + Cardinality(Holding(r)) + (IF ToCome(r) THEN 1 ELSE 0) <= 1 + redeliveries[r]

(* ExecutionsBounded alone is not inductive: a pod may be about to start the
   handler.  Every start is paid for by the publication or by a redelivery;
   the payment is with the event that may still come or with a pod that holds
   it, and an event is not stored before it is published.                  *)
NotYetStored ==
  \A r \in Requests : invoker[r] \in {"new", "publishing"} => Event(r) \notin stream

BudgetInv == TypeInv /\ NotYetStored /\ \A r \in Requests : Budget(r)

LEMMA HoldingFinite ==
  ASSUME NEW r PROVE IsFiniteSet(Holding(r)) /\ Cardinality(Holding(r)) \in Nat
<1>1. Holding(r) \subseteq Instances /\ IsFiniteSet(Instances)
  BY InvocationAssumption DEF Holding
<1> QED BY <1>1, FS_Subset, FS_CardinalityType

LEMMA InitBudgetInv == Init => BudgetInv
<1> SUFFICES ASSUME Init PROVE BudgetInv
  OBVIOUS
<1>1. ASSUME NEW r \in Requests PROVE Budget(r)
  <2>1. Holding(r) = {}
    BY DEF Init, Holding
  <2> QED BY <2>1, FS_EmptySet DEF Init, Budget
<1> QED BY <1>1, InitTypeInv DEF BudgetInv, NotYetStored, Init

(* A step that starts no handler, hands out no event and redelivers none.  *)
LEMMA BudgetKept ==
  ASSUME TypeInv, NEW r \in Requests, Budget(r),
         runs'[r] = runs[r], redeliveries'[r] = redeliveries[r],
         Holding(r)' \subseteq Holding(r), ToCome(r)' => ToCome(r)
  PROVE  Budget(r)'
<1>1. /\ Cardinality(Holding(r)') <= Cardinality(Holding(r))
      /\ Cardinality(Holding(r)') \in Nat /\ Cardinality(Holding(r)) \in Nat
  BY HoldingFinite, FS_Subset, FS_CardinalityType
<1>2. runs[r] \in Nat /\ redeliveries[r] \in Nat
  BY DEF TypeInv, TypeOK
<1> QED BY <1>1, <1>2 DEF Budget

LEMMA GatewayBudget ==
  ASSUME BudgetInv, GatewayNext PROVE NotYetStored' /\ \A r \in Requests : Budget(r)'
<1> USE DEF BudgetInv
<1>1. /\ \A r \in Requests : runs'[r] = runs[r] /\ redeliveries'[r] = redeliveries[r]
      /\ \A r \in Requests : Holding(r)' = Holding(r)
  BY DEF GatewayNext, GatewayCrash, Invoke, Publish, PublishFails, StoreEvent, Return,
         ReturnCancelled, Expire, Disconnect, AwaitCreate, AwaitFails, AwaitReceives,
         AwaitTick, Send, streamVars, podVars, historyVars, Holding
<1>2. ASSUME NEW q \in Requests, Invoke(q) \/ Publish(q) \/ PublishFails(q)
      PROVE  NotYetStored' /\ \A r \in Requests : ToCome(r)' => ToCome(r)
  BY <1>2 DEF Invoke, Publish, PublishFails, StoreEvent, streamVars, TypeInv, TypeOK,
              NotYetStored, ToCome, Deliverable, Event
<1>3. ASSUME NEW q \in Requests, AwaitReceives(q)
      PROVE  NotYetStored' /\ \A r \in Requests : ToCome(r)' => ToCome(r)
  BY <1>3 DEF AwaitReceives, ResponseSubjects, NotYetStored, ToCome, Deliverable
<1>4. ASSUME NEW q \in Requests,
             \/ Return(q) \/ ReturnCancelled(q) \/ Expire(q) \/ Disconnect(q)
             \/ AwaitCreate(q) \/ AwaitFails(q) \/ AwaitTick(q)
      PROVE  NotYetStored' /\ \A r \in Requests : ToCome(r)' => ToCome(r)
  BY <1>4 DEF Return, ReturnCancelled, Expire, Disconnect, AwaitCreate, AwaitFails,
              AwaitTick, Send, streamVars, TypeInv, TypeOK, NotYetStored, ToCome,
              Deliverable
<1>5. ASSUME GatewayCrash
      PROVE  NotYetStored' /\ \A r \in Requests : ToCome(r)' => ToCome(r)
  BY <1>5 DEF GatewayCrash, InProgress, streamVars, TypeInv, TypeOK, NotYetStored, ToCome,
              Deliverable
<1> QED BY <1>1, <1>2, <1>3, <1>4, <1>5, BudgetKept DEF GatewayNext

LEMMA StreamBudget ==
  ASSUME BudgetInv, StreamNext PROVE NotYetStored' /\ \A r \in Requests : Budget(r)'
<1> USE DEF BudgetInv
<1>1. /\ \A r \in Requests : runs'[r] = runs[r] /\ Holding(r)' = Holding(r)
      /\ NotYetStored'
  BY DEF StreamNext, Redeliver, RedeliverAnswer, DeliveryLost, Discard, gatewayVars,
         podVars, historyVars, Holding, NotYetStored
<1>2. ASSUME NEW q \in Requests, Redeliver(q), NEW r \in Requests PROVE Budget(r)'
  <2>1. CASE r = q
    <3>1. ~ ToCome(q) /\ redeliveries'[q] = redeliveries[q] + 1
      BY <1>2 DEF Redeliver, ToCome, NotYetStored, Deliverable, TypeInv, TypeOK
    <3>2. runs[q] \in Nat /\ redeliveries[q] \in Nat /\ Cardinality(Holding(q)) \in Nat
      BY HoldingFinite DEF TypeInv, TypeOK
    <3> QED BY <1>1, <2>1, <3>1, <3>2 DEF Budget
  <2>2. CASE r # q
    BY <1>1, <1>2, <2>2, BudgetKept
       DEF Redeliver, ToCome, Deliverable, Event, gatewayVars, TypeInv, TypeOK
  <2> QED BY <2>1, <2>2
<1>3. ASSUME NEW q \in Requests, RedeliverAnswer(q), NEW r \in Requests PROVE Budget(r)'
  <2>1. ToCome(r)' => ToCome(r)
    BY <1>3 DEF RedeliverAnswer, ResponseSubjects, ToCome, Deliverable, Event, AnswerKinds,
                gatewayVars
  <2> QED BY <1>1, <1>3, <2>1, BudgetKept DEF RedeliverAnswer
<1>4. ASSUME DeliveryLost \/ Discard, NEW r \in Requests PROVE Budget(r)'
  <2>1. ToCome(r)' => ToCome(r)
    BY <1>4 DEF DeliveryLost, Discard, ToCome, Deliverable, gatewayVars
  <2> QED BY <1>1, <1>4, <2>1, BudgetKept DEF DeliveryLost, Discard
<1> QED BY <1>1, <1>2, <1>3, <1>4 DEF StreamNext

LEMMA FetchBudget ==
  ASSUME BudgetInv, NEW i \in Instances, Fetch(i), NEW r \in Requests PROVE Budget(r)'
<1> USE DEF BudgetInv
<1>1. PICK q \in Requests :
        /\ Event(q) \in Deliverable
        /\ inflight' = inflight \cup {Event(q)}
        /\ job' = [job EXCEPT ![i] = q]
  BY DEF Fetch, InvokeSubject
<1>2. CASE r = q
  <2>1. ToCome(q) /\ ~ ToCome(q)'
    BY <1>1 DEF Fetch, ToCome, Deliverable, NotYetStored, gatewayVars
  <2>2. Holding(q)' = Holding(q) \cup {i} /\ i \notin Holding(q)
    BY <1>1 DEF Fetch, Holding, TypeInv, TypeOK
  <2>3. Cardinality(Holding(q)') = Cardinality(Holding(q)) + 1
    BY <2>2, HoldingFinite, FS_AddElement
  <2>4. runs[q] \in Nat /\ redeliveries[q] \in Nat /\ Cardinality(Holding(q)) \in Nat
    BY HoldingFinite DEF TypeInv, TypeOK
  <2> QED BY <1>2, <2>1, <2>3, <2>4 DEF Budget, Fetch, historyVars
<1>3. CASE r # q
  <2>1. Holding(r)' \subseteq Holding(r)
    BY <1>1, <1>3 DEF Fetch, Holding, TypeInv, TypeOK
  <2>2. ToCome(r)' => ToCome(r)
    BY <1>1 DEF Fetch, ToCome, Deliverable, gatewayVars
  <2> QED BY <2>1, <2>2, BudgetKept DEF Fetch, historyVars
<1> QED BY <1>2, <1>3

LEMMA DeliverBudget ==
  ASSUME BudgetInv, NEW i \in Instances, Deliver(i), NEW r \in Requests PROVE Budget(r)'
<1> USE DEF BudgetInv
<1>1. ToCome(r)' = ToCome(r)
  BY DEF Deliver, ToCome, Deliverable, gatewayVars, streamVars
<1>2. CASE r = job[i]
  <2>1. Holding(r)' = Holding(r) \ {i} /\ i \in Holding(r)
    BY <1>2 DEF Deliver, Holding, TypeInv, TypeOK
  <2>2. Cardinality(Holding(r)') = Cardinality(Holding(r)) - 1
    BY <2>1, HoldingFinite, FS_RemoveElement
  <2>3. runs'[r] = runs[r] + 1 /\ redeliveries' = redeliveries
    BY <1>2 DEF Deliver, streamVars, TypeInv, TypeOK
  <2>4. runs[r] \in Nat /\ redeliveries[r] \in Nat /\ Cardinality(Holding(r)) \in Nat
    BY HoldingFinite DEF TypeInv, TypeOK
  <2> QED BY <1>1, <2>2, <2>3, <2>4 DEF Budget
<1>3. CASE r # job[i]
  <2>1. Holding(r)' \subseteq Holding(r) /\ runs'[r] = runs[r]
    BY <1>3 DEF Deliver, Holding, TypeInv, TypeOK
  <2> QED BY <1>1, <2>1, BudgetKept DEF Deliver, streamVars
<1> QED BY <1>2, <1>3

(* The other steps of a pod hand out nothing and start nothing.            *)
LEMMA PodBudget ==
  ASSUME BudgetInv, PodNext PROVE NotYetStored' /\ \A r \in Requests : Budget(r)'
<1> USE DEF BudgetInv
<1>1. PICK i \in Instances :
        \/ Poll(i) \/ PollRefused(i) \/ SetIdle(i) \/ NextFails(i)
        \/ Fetch(i) \/ NextTick(i) \/ Ack(i) \/ Deliver(i) \/ DeliverToNobody(i)
        \/ \E k \in AnswerKinds : HandlerReturns(i, k)
        \/ Record(i) \/ RecordFails(i) \/ PublishAnswer(i) \/ PublishAnswerFails(i)
        \/ FunctionExits(i) \/ ServerCrash(i)
  BY DEF PodNext
<1>2. NotYetStored'
  BY <1>1 DEF Poll, PollRefused, SetIdle, NextFails, Fetch, NextTick, Ack, Deliver,
     DeliverToNobody, HandlerReturns, Record, RecordFails, PublishAnswer,
     PublishAnswerFails, FunctionExits, ServerCrash, gatewayVars, streamVars,
     NotYetStored, Answer, Event, PublishedKind
<1>3. CASE Fetch(i) \/ Deliver(i)
  BY <1>2, <1>3, FetchBudget, DeliverBudget
<1>4. CASE Ack(i)
  <2> SUFFICES ASSUME NEW r \in Requests PROVE Budget(r)'
    BY <1>2
  <2>1. Holding(r)' \subseteq Holding(r)
    BY <1>4 DEF Ack, Holding, TypeInv, TypeOK
  <2>2. ToCome(r)' => ToCome(r)
    BY <1>4 DEF Ack, ToCome, Deliverable, gatewayVars
  <2> QED BY <1>4, <2>1, <2>2, BudgetKept DEF Ack, historyVars
<1>5. CASE \/ Poll(i) \/ PollRefused(i) \/ SetIdle(i) \/ NextFails(i) \/ NextTick(i)
           \/ DeliverToNobody(i) \/ \E k \in AnswerKinds : HandlerReturns(i, k)
           \/ Record(i) \/ RecordFails(i) \/ PublishAnswerFails(i)
           \/ FunctionExits(i) \/ ServerCrash(i)
  <2> SUFFICES ASSUME NEW r \in Requests PROVE Budget(r)'
    BY <1>2
  <2>1. /\ UNCHANGED <<invoker, stream, inflight, redeliveries, runs>>
    BY <1>5 DEF Poll, PollRefused, SetIdle, NextFails, NextTick, DeliverToNobody,
       HandlerReturns, Record, RecordFails, PublishAnswerFails, FunctionExits,
       ServerCrash, gatewayVars, streamVars, historyVars
  <2>2. CASE \/ Poll(i) \/ PollRefused(i) \/ SetIdle(i) \/ NextFails(i) \/ NextTick(i)
             \/ Record(i)
    BY <2>1, <2>2, BudgetKept
       DEF Poll, PollRefused, SetIdle, NextFails, NextTick, Record,
           Holding, ToCome, Deliverable, TypeInv, TypeOK
  <2>3. CASE \/ DeliverToNobody(i) \/ RecordFails(i) \/ PublishAnswerFails(i)
    <3>1. Holding(r)' \subseteq Holding(r)
      BY <2>3 DEF DeliverToNobody, RecordFails, PublishAnswerFails, DropJob, Holding,
                  TypeInv, TypeOK
    <3> QED BY <2>1, <3>1, BudgetKept DEF ToCome, Deliverable
  <2>4. ASSUME NEW k \in AnswerKinds, HandlerReturns(i, k) PROVE Budget(r)'
    <3>1. Holding(r)' \subseteq Holding(r)
      BY <2>4 DEF HandlerReturns, DropJob, Holding, TypeInv, TypeOK, PodOK
    <3> QED BY <2>1, <3>1, BudgetKept DEF ToCome, Deliverable
  <2>5. CASE FunctionExits(i) \/ ServerCrash(i)
    <3>1. Holding(r)' \subseteq Holding(r)
      BY <2>5 DEF FunctionExits, ServerCrash, DropJob, Holding, TypeInv, TypeOK, PodOK
    <3> QED BY <2>1, <3>1, BudgetKept DEF ToCome, Deliverable
  <2> QED BY <1>5, <2>2, <2>3, <2>4, <2>5
<1>6. CASE PublishAnswer(i)
  <2> SUFFICES ASSUME NEW r \in Requests PROVE Budget(r)'
    BY <1>2
  <2>1. Holding(r)' \subseteq Holding(r)
    BY <1>6 DEF PublishAnswer, Holding, TypeInv, TypeOK
  <2>2. ToCome(r)' => ToCome(r)
    BY <1>6 DEF PublishAnswer, ToCome, Deliverable, Event, Answer, PublishedKind, gatewayVars
  <2> QED BY <1>6, <2>1, <2>2, BudgetKept DEF PublishAnswer, historyVars
<1> QED BY <1>1, <1>3, <1>4, <1>5, <1>6

LEMMA StepBudgetInv == BudgetInv /\ [Next]_vars => BudgetInv'
<1> SUFFICES ASSUME BudgetInv, [Next]_vars PROVE BudgetInv'
  OBVIOUS
<1>1. TypeInv'
  BY StepTypeInv DEF BudgetInv
<1>2. CASE UNCHANGED vars
  BY <1>1, <1>2, BudgetKept
     DEF BudgetInv, NotYetStored, ToCome, Deliverable, Holding, vars, gatewayVars,
         streamVars, podVars, historyVars
<1>3. CASE Next
  BY <1>1, <1>3, GatewayBudget, StreamBudget, PodBudget DEF Next, BudgetInv
<1> QED BY <1>2, <1>3

(* However many servers share the durable consumer, and whatever is lost or
   crashes, the handler starts at most once for a call and once more for each
   redelivery of its event (Next and Ack in NextHandler).                  *)
THEOREM ExecutionsBoundedTheorem == Spec => []ExecutionsBounded
<1>1. Init => BudgetInv
  BY InitBudgetInv
<1>2. BudgetInv /\ [Next]_vars => BudgetInv'
  BY StepBudgetInv
<1>3. BudgetInv => ExecutionsBounded
  <2> SUFFICES ASSUME BudgetInv, NEW r \in Requests PROVE runs[r] <= 1 + redeliveries[r]
    BY DEF ExecutionsBounded
  <2>1. Budget(r) /\ runs[r] \in Nat /\ redeliveries[r] \in Nat
    BY DEF BudgetInv, TypeInv, TypeOK
  <2>2. Cardinality(Holding(r)) \in Nat
    BY HoldingFinite
  <2> QED BY <2>1, <2>2 DEF Budget
<1> QED BY <1>1, <1>2, <1>3, PTL DEF Spec

=============================================================================
