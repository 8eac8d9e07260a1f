----------------------- MODULE InvocationAnswerProofs -----------------------
(***************************************************************************)
(* Where answers come from and where events go: AnswerHonest, Conserved,   *)
(* AnsweredLeavesNothing and the refinement of Call, for every value of    *)
(* the constants.                                                          *)
(***************************************************************************)
EXTENDS InvocationProofs, InvocationImplementsCall

-----------------------------------------------------------------------------
(* An answer is one the handler has given.                                 *)

(* AnswerHonest follows the answer back: from the result to what the waiting
   goroutine sent, to a message on the call's own subjects, to a handler of
   the server, to the end of the function's handler.                       *)
HonestInv ==
  /\ TypeInv
  /\ \A m \in stream : m.subject \in AnswerKinds => m.subject \in outcomes[m.req]
  /\ \A i \in Instances :
       /\ srv[i] \in {"recording", "publishing"} => "response" \in outcomes[job[i]]
       /\ srv[i] = "publishingError" => "error" \in outcomes[job[i]]
  /\ \A r \in Requests : reply[r] \in AnswerKinds => reply[r] \in outcomes[r]
  /\ AnswerHonest

LEMMA InitHonestInv == Init => HonestInv
BY InitTypeInv DEF Init, HonestInv, AnswerHonest, AnswerKinds

LEMMA GatewayHonest == ASSUME HonestInv, GatewayNext, TypeInv' PROVE HonestInv'
<1> USE DEF HonestInv, AnswerHonest, TypeInv, TypeOK
<1>1. ASSUME NEW r \in Requests, Invoke(r) \/ Expire(r) \/ Disconnect(r) \/ AwaitCreate(r)
      PROVE  HonestInv'
  BY <1>1 DEF Invoke, Expire, Disconnect, AwaitCreate, streamVars, podVars, historyVars
<1>2. ASSUME NEW r \in Requests, Publish(r) \/ PublishFails(r) PROVE HonestInv'
  <2>1. Event(r).subject \notin AnswerKinds
    BY DEF Event, AnswerKinds
  <2>2. /\ stream' \subseteq stream \cup {Event(r)}
        /\ UNCHANGED <<srv, job, outcomes, reply>>
        /\ \/ result' = result
           \/ result' = [result EXCEPT ![r] = "failed"]
    BY <1>2 DEF Publish, PublishFails, StoreEvent, podVars
  <2> QED BY <2>1, <2>2 DEF AnswerKinds
<1>3. ASSUME NEW r \in Requests, Return(r) \/ ReturnCancelled(r) PROVE HonestInv'
  BY <1>3 DEF Return, ReturnCancelled, streamVars, podVars, historyVars, AnswerKinds
<1>4. ASSUME NEW r \in Requests, AwaitFails(r) \/ AwaitTick(r) PROVE HonestInv'
  BY <1>4 DEF AwaitFails, AwaitTick, Send, streamVars, podVars, historyVars, AnswerKinds
<1>5. ASSUME NEW r \in Requests, AwaitReceives(r) PROVE HonestInv'
  <2>1. PICK m \in ResponseSubjects(r) \cap Deliverable : reply' = [reply EXCEPT ![r] = m.subject]
    BY <1>5 DEF AwaitReceives, Send
  <2>2. m \in stream /\ m.req = r /\ m.subject \in AnswerKinds
    BY <2>1 DEF ResponseSubjects
  <2>3. stream' \subseteq stream /\ UNCHANGED <<srv, job, outcomes, result>>
    BY <1>5 DEF AwaitReceives, podVars, historyVars
  <2> QED BY <2>1, <2>2, <2>3
<1>6. CASE GatewayCrash
  BY <1>6 DEF GatewayCrash, InProgress, streamVars, podVars, AnswerKinds
<1> QED BY <1>1, <1>2, <1>3, <1>4, <1>5, <1>6 DEF GatewayNext

LEMMA StreamHonest == ASSUME HonestInv, StreamNext, TypeInv' PROVE HonestInv'
<1>1. stream' \subseteq stream /\ UNCHANGED <<srv, job, outcomes, reply, result>>
  BY DEF StreamNext, Redeliver, RedeliverAnswer, DeliveryLost, Discard, gatewayVars,
         podVars, historyVars
<1> QED BY <1>1 DEF HonestInv, AnswerHonest

LEMMA PodHonest == ASSUME HonestInv, PodNext, TypeInv' PROVE HonestInv'
<1> USE DEF HonestInv, AnswerHonest
<1>1. PICK i \in Instances :
        \/ Poll(i) \/ PollRefused(i) \/ SetIdle(i) \/ NextFails(i)
        \/ Fetch(i) \/ NextTick(i) \/ Ack(i) \/ Deliver(i) \/ DeliverToNobody(i)
        \/ \E k \in AnswerKinds : HandlerReturns(i, k)
        \/ Record(i) \/ RecordFails(i) \/ PublishAnswer(i) \/ PublishAnswerFails(i)
        \/ FunctionExits(i) \/ ServerCrash(i)
  BY DEF PodNext
<1>2. CASE \/ Poll(i) \/ PollRefused(i) \/ SetIdle(i) \/ NextFails(i) \/ Fetch(i)
           \/ NextTick(i) \/ Ack(i) \/ Deliver(i) \/ Record(i)
  <2>1. stream' \subseteq stream /\ UNCHANGED <<outcomes, reply, result>>
    BY <1>2 DEF Poll, PollRefused, SetIdle, NextFails, Fetch, NextTick, Ack, Deliver, Record,
                gatewayVars, streamVars, historyVars
  <2>2. \A j \in Instances :
          /\ srv'[j] \in {"recording", "publishing"} =>
               srv[j] \in {"recording", "publishing"} /\ job'[j] = job[j]
          /\ srv'[j] = "publishingError" => srv[j] = "publishingError" /\ job'[j] = job[j]
    BY <1>2 DEF Poll, PollRefused, SetIdle, NextFails, Fetch, NextTick, Ack, Deliver, Record,
                TypeInv, TypeOK
  <2> QED BY <2>1, <2>2
<1>3. CASE DeliverToNobody(i) \/ RecordFails(i) \/ PublishAnswerFails(i)
  <2>1. UNCHANGED <<stream, outcomes, reply, result>>
    BY <1>3 DEF DeliverToNobody, RecordFails, PublishAnswerFails, gatewayVars, streamVars
  <2>2. /\ srv' = [srv EXCEPT ![i] = "none"]
        /\ job' = [job EXCEPT ![i] = NoRequest]
    BY <1>3 DEF DeliverToNobody, RecordFails, PublishAnswerFails, DropJob
  <2> QED BY <2>1, <2>2 DEF TypeInv, TypeOK
<1>4. ASSUME NEW k \in AnswerKinds, HandlerReturns(i, k) PROVE HonestInv'
  <2>1. /\ UNCHANGED <<stream, reply, result>>
        /\ outcomes' = [outcomes EXCEPT ![job[i]] = @ \cup {k}]
        /\ job[i] \in Requests
    BY <1>4 DEF HandlerReturns, gatewayVars, streamVars, TypeInv, PodOK
  <2>2. \A r \in Requests : outcomes[r] \subseteq outcomes'[r]
    BY <2>1 DEF TypeInv, TypeOK
  <2>3. \A m \in stream : m.req \in Requests
    BY DEF TypeInv, TypeOK, Msg
  <2>4. ASSUME NEW j \in Instances
        PROVE  /\ srv'[j] \in {"recording", "publishing"} => "response" \in outcomes'[job'[j]]
               /\ srv'[j] = "publishingError" => "error" \in outcomes'[job'[j]]
    <3>1. CASE j = i
      BY <1>4, <2>1, <3>1 DEF HandlerReturns, DropJob, TypeInv, TypeOK, AnswerKinds
    <3>2. CASE j # i
      <4>1. srv'[j] = srv[j] /\ job'[j] = job[j]
        BY <1>4, <3>2 DEF HandlerReturns, DropJob, TypeInv, TypeOK
      <4>2. srv[j] \in {"recording", "publishing", "publishingError"} => job[j] \in Requests
        BY DEF TypeInv, PodOK
      <4> QED BY <2>2, <4>1, <4>2
    <3> QED BY <3>1, <3>2
  <2> QED BY <2>1, <2>2, <2>3, <2>4
<1>5. CASE PublishAnswer(i)
  <2>1. /\ stream' = stream \cup {Answer(PublishedKind(i), job[i], run[i])}
        /\ srv' = [srv EXCEPT ![i] = "none"]
        /\ job' = [job EXCEPT ![i] = NoRequest]
        /\ UNCHANGED <<outcomes, reply, result>>
    BY <1>5 DEF PublishAnswer, gatewayVars, historyVars
  <2>2. PublishedKind(i) \in outcomes[job[i]]
    BY <1>5 DEF PublishAnswer, PublishedKind
  <2> QED BY <2>1, <2>2 DEF Answer, TypeInv, TypeOK
<1>6. CASE FunctionExits(i) \/ ServerCrash(i)
  <2>1. UNCHANGED <<stream, outcomes, reply, result>>
    BY <1>6 DEF FunctionExits, ServerCrash, gatewayVars, streamVars
  <2>2. \A j \in Instances :
          srv'[j] \in {"recording", "publishing", "publishingError"} =>
            srv'[j] = srv[j] /\ job'[j] = job[j]
    BY <1>6 DEF FunctionExits, ServerCrash, DropJob, TypeInv, TypeOK, PodOK
  <2> QED BY <2>1, <2>2
<1> QED BY <1>1, <1>2, <1>3, <1>4, <1>5, <1>6

LEMMA StepHonestInv == HonestInv /\ [Next]_vars => HonestInv'
<1> SUFFICES ASSUME HonestInv, [Next]_vars PROVE HonestInv'
  OBVIOUS
<1>1. TypeInv'
  BY StepTypeInv DEF HonestInv
<1>2. CASE UNCHANGED vars
  BY <1>1, <1>2 DEF vars, gatewayVars, streamVars, podVars, historyVars, HonestInv, AnswerHonest
<1>3. CASE Next
  BY <1>1, <1>3, GatewayHonest, StreamHonest, PodHonest DEF Next
<1> QED BY <1>2, <1>3

LEMMA HonestInvariant == Spec => []HonestInv
<1>1. Init => HonestInv
  BY InitHonestInv
<1>2. HonestInv /\ [Next]_vars => HonestInv'
  BY StepHonestInv
<1> QED BY <1>1, <1>2, PTL DEF Spec

(* Invoke never returns an answer its own call's handler did not give, for any
   number of calls waiting on the stream (responseInput's subjects in Invoke,
   the subjects of ResponseHandler and ErrorHandler).                      *)
THEOREM AnswerHonestTheorem == Spec => []AnswerHonest
<1>1. HonestInv => AnswerHonest
  BY DEF HonestInv
<1> QED BY <1>1, HonestInvariant, PTL

-----------------------------------------------------------------------------
(* Invocation implements Call.                                             *)

(* What the mapping relies on: what is stored or worked on has been called,
   and the invoker has returned exactly when there is a result.            *)
CalledInv ==
  /\ HonestInv
  /\ NotYetStored
  /\ \A i \in Instances : job[i] \in Requests => job[i] \in Called
  /\ \A r \in Requests : invoker[r] \in {"new", "publishing", "selecting"} <=> result[r] = "none"

LEMMA InitCalledInv == Init => CalledInv
BY InitHonestInv, InvocationAssumption DEF Init, CalledInv, NotYetStored

LEMMA StepCalledInv ==
  CalledInv /\ HonestInv' /\ NotYetStored' /\ [Next]_vars => CalledInv'
<1> SUFFICES ASSUME CalledInv, HonestInv', NotYetStored', [Next]_vars PROVE CalledInv'
  OBVIOUS
<1> USE DEF CalledInv, HonestInv, TypeInv, TypeOK, Called
<1>1. CASE UNCHANGED vars
  BY <1>1 DEF vars, gatewayVars, podVars
<1>2. CASE GatewayNext
  <2>1. job' = job
    BY <1>2 DEF GatewayNext, GatewayCrash, Invoke, Publish, PublishFails, Return,
       ReturnCancelled, Expire, Disconnect, AwaitCreate, AwaitFails, AwaitReceives,
       AwaitTick, podVars
  <2>2. ASSUME NEW r \in Requests,
               Invoke(r) \/ Publish(r) \/ PublishFails(r) \/ Return(r) \/ ReturnCancelled(r)
        PROVE  CalledInv'
    BY <2>1, <2>2 DEF Invoke, Publish, PublishFails, Return, ReturnCancelled, AnswerKinds
  <2>3. ASSUME NEW r \in Requests,
               \/ Expire(r) \/ Disconnect(r) \/ AwaitCreate(r) \/ AwaitFails(r)
               \/ AwaitReceives(r) \/ AwaitTick(r)
        PROVE  CalledInv'
    BY <2>1, <2>3 DEF Expire, Disconnect, AwaitCreate, AwaitFails, AwaitReceives, AwaitTick
  <2>4. CASE GatewayCrash
    BY <2>1, <2>4 DEF GatewayCrash, InProgress
  <2> QED BY <1>2, <2>2, <2>3, <2>4 DEF GatewayNext
<1>3. CASE StreamNext
  BY <1>3 DEF StreamNext, Redeliver, RedeliverAnswer, DeliveryLost, Discard, gatewayVars, podVars
<1>4. CASE PodNext
  <2>1. invoker' = invoker /\ result' = result
    BY <1>4 DEF PodNext, Poll, PollRefused, SetIdle, NextFails, Fetch, NextTick, Ack,
       Deliver, DeliverToNobody, HandlerReturns, Record, RecordFails, PublishAnswer,
       PublishAnswerFails, FunctionExits, ServerCrash, gatewayVars
  <2>2. ASSUME NEW i \in Instances, Fetch(i) PROVE CalledInv'
    <3>1. PICK r \in Requests : Event(r) \in stream /\ job' = [job EXCEPT ![i] = r]
      BY <2>2 DEF Fetch, InvokeSubject, Deliverable
    <3>2. r \in Called
      BY <3>1 DEF NotYetStored
    <3> QED BY <2>1, <3>1, <3>2
  <2>3. CASE \A j \in Instances : job'[j] \in Requests => job'[j] = job[j]
    BY <2>1, <2>3
  <2>4. ASSUME NEW i \in Instances, ~ Fetch(i),
               \/ Poll(i) \/ PollRefused(i) \/ SetIdle(i) \/ NextFails(i)
               \/ NextTick(i) \/ Ack(i) \/ Deliver(i) \/ DeliverToNobody(i)
               \/ \E k \in AnswerKinds : HandlerReturns(i, k)
               \/ Record(i) \/ RecordFails(i) \/ PublishAnswer(i) \/ PublishAnswerFails(i)
               \/ FunctionExits(i) \/ ServerCrash(i)
        PROVE  job' = job \/ job' = [job EXCEPT ![i] = NoRequest]
    BY <2>4 DEF Poll, PollRefused, SetIdle, NextFails, NextTick, Ack, Deliver,
       DeliverToNobody, HandlerReturns, Record, RecordFails, PublishAnswer,
       PublishAnswerFails, FunctionExits, ServerCrash, DropJob
  <2> QED BY <1>4, <2>2, <2>3, <2>4, InvocationAssumption DEF PodNext
<1> QED BY <1>1, <1>2, <1>3, <1>4 DEF Next

(* Every step of Invocation is a step of Call or leaves its state alone.   *)
LEMMA StepImplements ==
  CalledInv /\ [Next]_vars => [C!Next]_(C!vars)
<1> SUFFICES ASSUME CalledInv, [Next]_vars PROVE [C!Next]_(C!vars)
  OBVIOUS
<1> USE DEF CalledInv, HonestInv, TypeInv, TypeOK, Called, C!vars
<1>1. CASE UNCHANGED <<invoker, outcomes, result>>
  BY <1>1
<1>2. ASSUME NEW r \in Requests, Invoke(r) PROVE C!Begin(r)
  BY <1>2 DEF Invoke, historyVars, C!Begin
<1>3. ASSUME NEW r \in Requests, Publish(r) PROVE UNCHANGED C!vars
  BY <1>3 DEF Publish
<1>4. ASSUME NEW r \in Requests, PublishFails(r) PROVE C!Return(r, "failed")
  BY <1>4 DEF PublishFails, C!Return, C!InProgress
<1>5. ASSUME NEW r \in Requests, Return(r) PROVE C!Return(r, reply[r])
  BY <1>5 DEF Return, historyVars, C!Return, C!InProgress
<1>6. ASSUME NEW r \in Requests, ReturnCancelled(r) PROVE C!Return(r, "cancelled")
  BY <1>6 DEF ReturnCancelled, historyVars, C!Return, C!InProgress
<1>7. CASE GatewayCrash
  <2>1. C!Crash("crashed")
    BY <1>7 DEF GatewayCrash, InProgress, C!Crash, C!InProgress
  <2> QED BY <2>1 DEF C!Next
<1>8. ASSUME NEW i \in Instances, NEW k \in AnswerKinds, HandlerReturns(i, k)
      PROVE  C!Execute(job[i], k)
  BY <1>8 DEF HandlerReturns, gatewayVars, PodOK, C!Execute
<1>9. CASE GatewayNext
  <2>1. ASSUME NEW r \in Requests,
               \/ Expire(r) \/ Disconnect(r) \/ AwaitCreate(r) \/ AwaitFails(r)
               \/ AwaitReceives(r) \/ AwaitTick(r)
        PROVE  UNCHANGED <<invoker, outcomes, result>>
    BY <2>1 DEF Expire, Disconnect, AwaitCreate, AwaitFails, AwaitReceives, AwaitTick,
                historyVars
  <2>2. ASSUME NEW r \in Requests, Return(r)
        PROVE  reply[r] \in AnswerKinds \cup {"failed", "cancelled", "crashed"}
    BY <2>2 DEF Return
  <2> QED BY <1>1, <1>2, <1>3, <1>4, <1>5, <1>6, <1>7, <1>9, <2>1, <2>2 DEF GatewayNext, C!Next
<1>10. CASE StreamNext
  BY <1>1, <1>10 DEF StreamNext, Redeliver, RedeliverAnswer, DeliveryLost, Discard,
     gatewayVars, historyVars
<1>11. CASE PodNext
  <2>1. ASSUME NEW i \in Instances, NEW k \in AnswerKinds, HandlerReturns(i, k)
        PROVE  C!Next
    <3>1. job[i] \in Requests
      BY <2>1 DEF HandlerReturns, PodOK
    <3> QED BY <1>8, <2>1, <3>1 DEF C!Next
  <2>2. ASSUME NEW i \in Instances,
               \/ Poll(i) \/ PollRefused(i) \/ SetIdle(i) \/ NextFails(i)
               \/ Fetch(i) \/ NextTick(i) \/ Ack(i) \/ Deliver(i) \/ DeliverToNobody(i)
               \/ Record(i) \/ RecordFails(i) \/ PublishAnswer(i) \/ PublishAnswerFails(i)
               \/ FunctionExits(i) \/ ServerCrash(i)
        PROVE  UNCHANGED <<invoker, outcomes, result>>
    BY <2>2 DEF Poll, PollRefused, SetIdle, NextFails, Fetch, NextTick, Ack, Deliver,
       DeliverToNobody, Record, RecordFails, PublishAnswer, PublishAnswerFails,
       FunctionExits, ServerCrash, gatewayVars, historyVars
  <2> QED BY <1>1, <1>11, <2>1, <2>2 DEF PodNext
<1> QED BY <1>1, <1>9, <1>10, <1>11 DEF Next, vars, gatewayVars, historyVars

(* The steps of the gateway's invoker, its goroutines, the stream and the pods
   implement what Call says of Invoke, for any number of calls and pods and
   whatever fails (PublishWaitResponse, NextHandler, sdk.Serve).            *)
THEOREM ImplementsCallTheorem == Spec => ImplementsCall
<1> DEFINE Inv == BudgetInv /\ CalledInv
<1>1. Init => Inv
  BY InitBudgetInv, InitCalledInv
<1>2. Inv /\ [Next]_vars => Inv'
  BY StepBudgetInv, StepHonestInv, StepCalledInv DEF BudgetInv, CalledInv
<1>3. Init => C!Init
  BY DEF Init, C!Init, Called
<1>4. Inv /\ [Next]_vars => [C!Next]_(C!vars)
  BY StepImplements
<1> QED BY <1>1, <1>2, <1>3, <1>4, PTL DEF Spec, ImplementsCall, C!Spec

-----------------------------------------------------------------------------
(* No accepted event disappears.                                           *)

(* Conserved by itself is not inductive: a goroutine that has sent an answer
   sends nothing else, a call returns once, and a server takes an event only
   with empty hands.                                                        *)
Sent ==
  \A r \in Requests :
    /\ reply[r] # "none" \/ result[r] \in AnswerKinds => waiter[r] = "done"
    /\ invoker[r] = "new" => waiter[r] = "none"
    /\ invoker[r] # "done" => result[r] = "none"

EmptyHands ==
  \A i \in Instances :
    /\ srv[i] \in {"idling", "fetching"} => job[i] = NoRequest
    /\ srv[i] = "none" /\ job[i] # NoRequest => fn[i] = "handling"

ConservedInv == TypeInv /\ Sent /\ EmptyHands /\ Conserved

LEMMA InitConservedInv == Init => ConservedInv
BY InitTypeInv DEF Init, ConservedInv, Sent, EmptyHands, Conserved, AnswerKinds

(* What a call's goroutine has, or the call has returned, stays with it.    *)
LEMMA ReturnKeepsTaken ==
  ASSUME TypeOK, Sent, NEW r \in Requests,
         Publish(r) \/ PublishFails(r) \/ Return(r) \/ ReturnCancelled(r),
         NEW q \in Requests, Taken(q)
  PROVE  Taken(q)'
BY DEF TypeOK, Sent, Publish, PublishFails, Return, ReturnCancelled, Taken, AnswerKinds

(* The gateway's steps.                                                    *)
LEMMA GatewayConserved == ASSUME ConservedInv, GatewayNext, TypeInv' PROVE ConservedInv'
<1> USE DEF ConservedInv, TypeInv, TypeOK, Sent
<1>1. UNCHANGED <<srv, fn, job>> /\ lost \subseteq lost'
  BY DEF GatewayNext, GatewayCrash, Invoke, Publish, PublishFails, Return,
     ReturnCancelled, Expire, Disconnect, AwaitCreate, AwaitFails, AwaitReceives,
     AwaitTick, podVars, historyVars
<1>2. EmptyHands' /\ \A r \in Requests : WorkedOn(r)' = WorkedOn(r)
  BY <1>1 DEF EmptyHands, WorkedOn
<1>3. ASSUME NEW r \in Requests, Publish(r) \/ PublishFails(r)
      PROVE  Sent' /\ Conserved'
  <2>1. /\ stream \subseteq stream' /\ UNCHANGED <<waiter, reply>>
        /\ accepted' = accepted \/ (accepted' = accepted \cup {r} /\ Event(r) \in stream')
    BY <1>3 DEF Publish, PublishFails, StoreEvent
  <2>2. Event(r).req = r
    BY DEF Event
  <2>3. Sent'
    BY <1>3, <2>1 DEF Publish, PublishFails, AnswerKinds
  <2>4. \A q \in Requests : Taken(q) => Taken(q)'
    BY <1>3, ReturnKeepsTaken
  <2> QED BY <1>1, <1>2, <2>1, <2>2, <2>3, <2>4 DEF Conserved, Stored
<1>4. ASSUME NEW r \in Requests,
             \/ Invoke(r) \/ Return(r) \/ ReturnCancelled(r)
             \/ Expire(r) \/ Disconnect(r) \/ AwaitCreate(r)
      PROVE  Sent' /\ Conserved'
  <2>1. UNCHANGED <<stream, accepted, reply>>
    BY <1>4 DEF Invoke, Return, ReturnCancelled, Expire, Disconnect, AwaitCreate,
                streamVars, historyVars
  <2>2. Sent'
    BY <1>4, <2>1 DEF Invoke, Return, ReturnCancelled, Expire, Disconnect, AwaitCreate,
                      AnswerKinds
  <2>3. ASSUME NEW q \in Requests, Taken(q) PROVE Taken(q)'
    BY <1>4, <2>3, ReturnKeepsTaken DEF Invoke, Expire, Disconnect, AwaitCreate, Taken
  <2> QED BY <1>1, <1>2, <2>1, <2>2, <2>3 DEF Conserved, Stored
<1>5. ASSUME NEW r \in Requests, AwaitFails(r) \/ AwaitTick(r) PROVE Sent' /\ Conserved'
  <2>1. /\ UNCHANGED <<stream, accepted>> /\ reply[r] = "none"
        /\ waiter' = [waiter EXCEPT ![r] = "done"]
        /\ reply' = [reply EXCEPT ![r] = "failed"]
        /\ UNCHANGED result
    BY <1>5 DEF AwaitFails, AwaitTick, Send, streamVars, historyVars
  <2>2. Sent'
    BY <1>5, <2>1 DEF AwaitFails, AwaitTick
  <2>3. \A q \in Requests : Taken(q) => Taken(q)'
    BY <2>1 DEF Taken, AnswerKinds
  <2> QED BY <1>1, <1>2, <2>1, <2>2, <2>3 DEF Conserved, Stored
<1>6. ASSUME NEW r \in Requests, AwaitReceives(r) PROVE Sent' /\ Conserved'
  <2>1. PICK m \in ResponseSubjects(r) : 
          /\ waiter' = [waiter EXCEPT ![r] = "done"]
          /\ reply' = [reply EXCEPT ![r] = m.subject]
          /\ stream \ {m} \subseteq stream'
    BY <1>6 DEF AwaitReceives, Send
  <2>2. m.req = r /\ m.subject \in AnswerKinds /\ UNCHANGED <<accepted, result>>
    BY <1>6, <2>1 DEF AwaitReceives, ResponseSubjects, historyVars
  <2>3. Sent'
    BY <1>6, <2>1 DEF AwaitReceives
  <2>4. Taken(r)' /\ \A q \in Requests : Taken(q) => Taken(q)'
    BY <2>1, <2>2 DEF Taken
  <2> QED BY <1>1, <1>2, <2>1, <2>2, <2>3, <2>4 DEF Conserved, Stored
<1>7. CASE GatewayCrash
  <2>1. UNCHANGED <<stream, accepted>> /\ lost' = lost \cup Unreturned
    BY <1>7 DEF GatewayCrash, streamVars
  <2>2. Sent'
    BY <1>7 DEF GatewayCrash, InProgress, AnswerKinds
  <2>3. ASSUME NEW q \in Requests, Taken(q) PROVE Taken(q)' \/ q \in lost'
    BY <1>7, <2>1, <2>3 DEF GatewayCrash, InProgress, Taken, Unreturned, AnswerKinds
  <2> QED BY <1>1, <1>2, <2>1, <2>2, <2>3 DEF Conserved, Stored
<1> QED BY <1>2, <1>3, <1>4, <1>5, <1>6, <1>7 DEF GatewayNext

LEMMA StreamConserved == ASSUME ConservedInv, StreamNext, TypeInv' PROVE ConservedInv'
<1>1. /\ UNCHANGED <<invoker, waiter, reply, result, fn, srv, job, accepted>> /\ lost \subseteq lost'
      /\ \A m \in stream : m \in stream' \/ m.req \in lost'
  BY DEF StreamNext, Redeliver, RedeliverAnswer, DeliveryLost, Discard, gatewayVars,
         podVars, historyVars
<1> QED BY <1>1 DEF ConservedInv, Sent, EmptyHands, Conserved, Stored, WorkedOn, Taken

LEMMA PodConserved == ASSUME ConservedInv, PodNext, TypeInv' PROVE ConservedInv'
<1> USE DEF ConservedInv
<1>1. PICK i \in Instances :
        \/ Poll(i) \/ PollRefused(i) \/ SetIdle(i) \/ NextFails(i)
        \/ Fetch(i) \/ NextTick(i) \/ Ack(i) \/ Deliver(i) \/ DeliverToNobody(i)
        \/ \E k \in AnswerKinds : HandlerReturns(i, k)
        \/ Record(i) \/ RecordFails(i) \/ PublishAnswer(i) \/ PublishAnswerFails(i)
        \/ FunctionExits(i) \/ ServerCrash(i)
  BY DEF PodNext
<1>2. UNCHANGED <<invoker, waiter, reply, result, accepted>> /\ Sent'
  BY <1>1 DEF Poll, PollRefused, SetIdle, NextFails, Fetch, NextTick, Ack, Deliver,
     DeliverToNobody, HandlerReturns, Record, RecordFails, PublishAnswer,
     PublishAnswerFails, FunctionExits, ServerCrash, gatewayVars, historyVars, Sent
<1>3. EmptyHands'
  <2> USE DEF EmptyHands, TypeInv, TypeOK
  <2>1. CASE Poll(i) \/ PollRefused(i) \/ SetIdle(i) \/ NextFails(i) \/ NextTick(i) \/ Ack(i)
    BY <2>1 DEF Poll, PollRefused, SetIdle, NextFails, NextTick, Ack
  <2>2. CASE Fetch(i) \/ Deliver(i) \/ Record(i)
    BY <2>2, InvocationAssumption DEF Fetch, Deliver, Record, PodOK
  <2>3. CASE DeliverToNobody(i) \/ RecordFails(i) \/ PublishAnswer(i) \/ PublishAnswerFails(i)
    BY <2>3 DEF DeliverToNobody, RecordFails, PublishAnswer, PublishAnswerFails, Posted, DropJob
  <2>4. ASSUME NEW k \in AnswerKinds, HandlerReturns(i, k) PROVE EmptyHands'
    BY <2>4 DEF HandlerReturns, DropJob
  <2>5. CASE FunctionExits(i) \/ ServerCrash(i)
    BY <2>5 DEF FunctionExits, ServerCrash, DropJob, PodOK
  <2> QED BY <1>1, <2>1, <2>2, <2>3, <2>4, <2>5
<1>4. \A r \in Requests : (Stored(r) => Stored(r)' \/ WorkedOn(r)')
  <2>1. CASE Ack(i)
    <3>1. /\ stream \ {Event(job[i])} \subseteq stream'
          /\ srv'[i] = "acked" /\ job' = job /\ Event(job[i]).req = job[i]
      BY <2>1 DEF Ack, Event, TypeInv, TypeOK
    <3> QED BY <3>1 DEF Stored, WorkedOn
  <2>2. CASE ~ Ack(i)
    <3>1. stream \subseteq stream'
      BY <1>1, <2>2 DEF Poll, PollRefused, SetIdle, NextFails, Fetch, NextTick, Deliver,
         DeliverToNobody, HandlerReturns, Record, RecordFails, PublishAnswer,
         PublishAnswerFails, FunctionExits, ServerCrash, streamVars
    <3> QED BY <3>1 DEF Stored
  <2> QED BY <2>1, <2>2
<1>5. \A r \in Requests : WorkedOn(r) => WorkedOn(r)' \/ Stored(r)' \/ r \in lost'
  <2> SUFFICES ASSUME NEW r \in Requests, NEW j \in Instances, job[j] = r, srv[j] # "fetched"
               PROVE  WorkedOn(r)' \/ Stored(r)' \/ r \in lost'
    BY DEF WorkedOn
  <2>0. r # NoRequest
    BY InvocationAssumption
  <2>1. CASE j # i
    <3>1. job'[j] = job[j] /\ srv'[j] = srv[j]
      BY <1>1, <2>1 DEF Poll, PollRefused, SetIdle, NextFails, Fetch, NextTick, Ack, Deliver,
         DeliverToNobody, HandlerReturns, Record, RecordFails, PublishAnswer, DropJob,
         PublishAnswerFails, FunctionExits, ServerCrash, TypeInv, TypeOK
    <3> QED BY <3>1 DEF WorkedOn
  <2>2. CASE j = i
    <3>1. CASE \/ Poll(i) \/ PollRefused(i) \/ SetIdle(i) \/ NextFails(i) \/ NextTick(i)
               \/ Ack(i) \/ Deliver(i) \/ Record(i)
      <4>1. job'[i] = job[i] /\ srv'[i] # "fetched"
        BY <2>2, <3>1 DEF Poll, PollRefused, SetIdle, NextFails, NextTick, Ack, Deliver,
                          Record, TypeInv, TypeOK
      <4> QED BY <2>2, <4>1 DEF WorkedOn
    <3>2. CASE Fetch(i)
      BY <2>0, <2>2, <3>2 DEF Fetch, EmptyHands
    <3>3. CASE PublishAnswer(i)
      <4>1. Answer(PublishedKind(i), job[i], run[i]) \in stream'
        BY <3>3 DEF PublishAnswer
      <4>2. Answer(PublishedKind(i), job[i], run[i]).req = r
        BY <2>2 DEF Answer
      <4> QED BY <4>1, <4>2 DEF Stored
    <3>4. CASE DeliverToNobody(i) \/ RecordFails(i) \/ PublishAnswerFails(i)
      BY <2>2, <3>4 DEF DeliverToNobody, RecordFails, PublishAnswerFails, DropJob
    <3>5. ASSUME NEW k \in AnswerKinds, HandlerReturns(i, k)
          PROVE  WorkedOn(r)' \/ r \in lost'
      <4>1. CASE srv[i] = "none"
        BY <2>2, <3>5, <4>1 DEF HandlerReturns, WorkedOn, TypeInv, TypeOK
      <4>2. CASE srv[i] = "down"
        BY <2>2, <3>5, <4>2 DEF HandlerReturns, DropJob
      <4> QED BY <3>5, <4>1, <4>2 DEF HandlerReturns
    <3>6. CASE FunctionExits(i) \/ ServerCrash(i)
      <4>1. \/ r \in lost'
            \/ job'[i] = job[i] /\ srv'[i] # "fetched"
        BY <2>2, <3>6 DEF FunctionExits, ServerCrash, DropJob, TypeInv, TypeOK
      <4> QED BY <2>2, <4>1 DEF WorkedOn
    <3> QED BY <1>1, <3>1, <3>2, <3>3, <3>4, <3>5, <3>6
  <2> QED BY <2>1, <2>2
<1>6. lost \subseteq lost'
  BY <1>1 DEF Poll, PollRefused, SetIdle, NextFails, Fetch, NextTick, Ack, Deliver,
     DeliverToNobody, HandlerReturns, Record, RecordFails, PublishAnswer, DropJob,
     PublishAnswerFails, FunctionExits, ServerCrash, historyVars
<1>7. accepted \subseteq Requests
  BY DEF TypeInv, TypeOK
<1> QED BY <1>2, <1>3, <1>4, <1>5, <1>6, <1>7 DEF Conserved, Taken

LEMMA StepConservedInv == ConservedInv /\ [Next]_vars => ConservedInv'
<1> SUFFICES ASSUME ConservedInv, [Next]_vars PROVE ConservedInv'
  OBVIOUS
<1>1. TypeInv'
  BY StepTypeInv DEF ConservedInv
<1>2. CASE UNCHANGED vars
  BY <1>1, <1>2 DEF vars, gatewayVars, streamVars, podVars, historyVars, ConservedInv, Sent,
     EmptyHands, Conserved, Stored, WorkedOn, Taken
<1>3. CASE Next
  BY <1>1, <1>3, GatewayConserved, StreamConserved, PodConserved DEF Next
<1> QED BY <1>2, <1>3

(* An event the stream has accepted never disappears but in the steps that
   drop a message (NextHandler's Ack before its write, ResponseHandler's and
   ErrorHandler's error paths, a pod's death, the stream's limits, the death
   of the gateway with an answer in awaitResponse's channel).               *)
THEOREM ConservedTheorem == Spec => []Conserved
<1>1. Init => ConservedInv
  BY InitConservedInv
<1>2. ConservedInv /\ [Next]_vars => ConservedInv'
  BY StepConservedInv
<1>3. ConservedInv => Conserved
  BY DEF ConservedInv
<1> QED BY <1>1, <1>2, <1>3, PTL DEF Spec

-----------------------------------------------------------------------------
(* One answer to one call.                                                 *)

(* Until it is redelivered, a call is in one place: its event is to be
   published, or can be delivered, or one pod has it; or there is one answer;
   or its goroutine has taken that.                                        *)
NoAnswerStored(r) == \A m \in stream : m.req = r => m.subject = "invoke"

InNoHands(r) == \A i \in Instances : job[i] # r

OnePlace(r) ==
  /\ Event(r) \in Deliverable => InNoHands(r) /\ NoAnswerStored(r) /\ ~ Taken(r)
  /\ \A i \in Instances : job[i] = r => NoAnswerStored(r) /\ ~ Taken(r)
  /\ \A i, j \in Instances : job[i] = r /\ job[j] = r => i = j
  /\ \A m, n \in stream :
       m.req = r /\ n.req = r /\ m.subject # "invoke" /\ n.subject # "invoke" => m = n
  /\ Taken(r) => \A m \in Deliverable : m.req # r

Once(r) ==
  /\ invoker[r] \in {"new", "publishing"} =>
       InNoHands(r) /\ ~ Taken(r) /\ \A m \in stream : m.req # r
  /\ redeliveries[r] = 0 => OnePlace(r)
  /\ \A m \in stream : m.req = r /\ m.subject = "invoke" => m = Event(r)

OnceInv == ConservedInv /\ \A r \in Requests : Once(r)

(* Steps that move nothing of a call to another place.                     *)
LEMMA OnceQuiet ==
  ASSUME NEW r \in Requests, Once(r),
         invoker'[r] \in {"new", "publishing"} => invoker[r] \in {"new", "publishing"},
         redeliveries'[r] = 0 => redeliveries[r] = 0,
         \A m \in stream' : m.req = r => m \in stream,
         \A m \in Deliverable' : m.req = r => m \in Deliverable,
         \A i \in Instances : job'[i] = r => job[i] = r,
         Taken(r)' => Taken(r)
  PROVE  Once(r)'
<1>1. Event(r) \in Deliverable' => Event(r) \in Deliverable
  BY DEF Event
<1>2. NoAnswerStored(r) => NoAnswerStored(r)'
  BY DEF NoAnswerStored
<1>3. InNoHands(r) => InNoHands(r)'
  BY DEF InNoHands
<1>4. OnePlace(r) => OnePlace(r)'
  BY <1>1, <1>2, <1>3 DEF OnePlace
<1>5. (\A m \in stream : m.req = r /\ m.subject = "invoke" => m = Event(r))'
  BY DEF Once, Event
<1> QED BY <1>3, <1>4, <1>5 DEF Once

LEMMA GatewayOnce ==
  ASSUME OnceInv, GatewayNext, NEW r \in Requests PROVE Once(r)'
<1>0. Once(r) /\ Sent /\ TypeOK /\ job' = job /\ UNCHANGED redeliveries
  BY DEF OnceInv, ConservedInv, TypeInv, GatewayNext, GatewayCrash, Invoke, Publish,
     PublishFails, Return, ReturnCancelled, Expire, Disconnect, AwaitCreate, AwaitFails,
     AwaitReceives, AwaitTick, podVars, streamVars
<1> USE <1>0 DEF TypeOK
<1>1. ASSUME NEW s \in Requests,
             Invoke(s) \/ Return(s) \/ ReturnCancelled(s) \/ Expire(s) \/ Disconnect(s) \/ AwaitCreate(s)
      PROVE  Once(r)'
  <2>1. UNCHANGED <<stream, inflight, reply>>
    BY <1>1 DEF Invoke, Return, ReturnCancelled, Expire, Disconnect, AwaitCreate, streamVars
  <2>2. /\ invoker'[r] \in {"new", "publishing"} => invoker[r] \in {"new", "publishing"}
        /\ Taken(r)' => Taken(r)
    BY <1>1 DEF Invoke, Return, ReturnCancelled, Expire, Disconnect, AwaitCreate, Taken, AnswerKinds
  <2> QED BY <2>1, <2>2, OnceQuiet DEF Deliverable
<1>2. ASSUME NEW s \in Requests, Publish(s) \/ PublishFails(s) PROVE Once(r)'
  <2>1. /\ stream' = stream \/ stream' = stream \cup {Event(s)}
        /\ UNCHANGED inflight
        /\ invoker[s] = "publishing" /\ invoker'[s] \in {"selecting", "done"}
        /\ \A t \in Requests \ {s} : invoker'[t] = invoker[t]
        /\ Taken(r)' => Taken(r)
    BY <1>2 DEF Publish, PublishFails, StoreEvent, Taken, AnswerKinds
  <2>2. Event(s).req = s /\ Event(s).subject = "invoke"
    BY DEF Event
  <2>3. CASE r # s \/ stream' = stream
    BY <2>1, <2>2, <2>3, OnceQuiet DEF Deliverable
  <2>4. CASE r = s /\ stream' = stream \cup {Event(s)}
    <3>1. InNoHands(r)' /\ ~ Taken(r)' /\ \A m \in stream' : m.req = r => m = Event(r)
      BY <2>1, <2>4 DEF Once, InNoHands
    <3>2. OnePlace(r)'
      BY <2>2, <2>4, <3>1 DEF OnePlace, NoAnswerStored, InNoHands
    <3> QED BY <2>1, <2>4, <3>1, <3>2 DEF Once
  <2> QED BY <2>1, <2>3, <2>4
<1>3. ASSUME NEW s \in Requests, AwaitFails(s) \/ AwaitTick(s) PROVE Once(r)'
  <2>1. /\ UNCHANGED <<stream, inflight, invoker, result>> /\ reply[s] = "none"
        /\ reply' = [reply EXCEPT ![s] = "failed"]
    BY <1>3 DEF AwaitFails, AwaitTick, Send, streamVars, Sent
  <2>2. Taken(r)' => Taken(r)
    BY <2>1 DEF Taken, AnswerKinds
  <2> QED BY <2>1, <2>2, OnceQuiet DEF Deliverable
<1>4. ASSUME NEW s \in Requests, AwaitReceives(s) PROVE Once(r)'
  <2>1. PICK m \in ResponseSubjects(s) \cap Deliverable :
          /\ reply' = [reply EXCEPT ![s] = m.subject]
          /\ \/ stream' = stream \ {m} /\ UNCHANGED inflight
             \/ inflight' = inflight \cup {m} /\ UNCHANGED stream
    BY <1>4 DEF AwaitReceives, Send
  <2>2. /\ m \in stream /\ m \in Deliverable /\ m.req = s
        /\ m.subject \in AnswerKinds /\ m.subject # "invoke" /\ reply[s] = "none"
        /\ UNCHANGED <<invoker, result>>
    BY <1>4, <2>1 DEF AwaitReceives, ResponseSubjects, Sent, AnswerKinds
  <2>3. stream' \subseteq stream /\ Deliverable' \subseteq Deliverable \ {m}
    BY <2>1 DEF Deliverable
  <2>4. CASE r # s
    <3>1. Taken(r)' => Taken(r)
      BY <2>1, <2>2, <2>4 DEF Taken
    <3> QED BY <2>1, <2>2, <2>3, <2>4, <3>1, OnceQuiet
  <2>5. CASE r = s
    <3>1. invoker'[r] \notin {"new", "publishing"}
      BY <2>2, <2>5 DEF Once
    <3>2. ASSUME redeliveries'[r] = 0 PROVE OnePlace(r)'
      <4>1. OnePlace(r) /\ ~ NoAnswerStored(r)
        BY <2>2, <2>5, <3>2 DEF Once, NoAnswerStored
      <4>2. InNoHands(r) /\ Event(r) \notin Deliverable
        BY <4>1 DEF OnePlace, InNoHands
      <4>3. \A n \in Deliverable' : n.req # r
        BY <2>2, <2>3, <2>5, <4>1, <4>2 DEF OnePlace, Once, Deliverable
      <4> QED BY <2>2, <2>3, <4>1, <4>2, <4>3 DEF OnePlace, InNoHands, Event
    <3> QED BY <2>3, <3>1, <3>2 DEF Once, Event
  <2> QED BY <2>4, <2>5
<1>5. CASE GatewayCrash
  <2>1. /\ UNCHANGED <<stream, inflight>>
        /\ invoker'[r] \in {"new", "publishing"} => invoker[r] \in {"new", "publishing"}
        /\ Taken(r)' => Taken(r)
    BY <1>5 DEF GatewayCrash, streamVars, Taken, AnswerKinds
  <2> QED BY <2>1, OnceQuiet DEF Deliverable
<1> QED BY <1>1, <1>2, <1>3, <1>4, <1>5 DEF GatewayNext

LEMMA StreamOnce ==
  ASSUME OnceInv, StreamNext, NEW r \in Requests PROVE Once(r)'
<1>0. /\ Once(r) /\ Sent /\ TypeOK
      /\ UNCHANGED <<job, invoker, waiter, reply, result>> /\ stream' \subseteq stream
      /\ Taken(r)' = Taken(r)
  BY DEF OnceInv, ConservedInv, TypeInv, StreamNext, Redeliver, RedeliverAnswer, DeliveryLost,
         Discard, podVars, gatewayVars, Taken
<1>1. ASSUME NEW s \in Requests, Redeliver(s) PROVE Once(r)'
  <2>1. /\ Deliverable' \subseteq Deliverable \cup {Event(s)} /\ Event(s).req = s
        /\ redeliveries' = [redeliveries EXCEPT ![s] = @ + 1]
    BY <1>1 DEF Redeliver, Deliverable, Event
  <2>2. CASE r # s
    BY <1>0, <2>1, <2>2, OnceQuiet DEF TypeOK
  <2>3. CASE r = s
    <3>1. redeliveries'[r] # 0
      BY <1>0, <2>1, <2>3 DEF TypeOK
    <3> QED BY <1>0, <3>1 DEF Once, InNoHands, Event
  <2> QED BY <2>2, <2>3
<1>2. ASSUME NEW s \in Requests, RedeliverAnswer(s) PROVE Once(r)'
  <2>1. PICK m \in ResponseSubjects(s) : inflight' = inflight \ {m}
    BY <1>2 DEF RedeliverAnswer
  <2>2. /\ m \in stream /\ m.req = s /\ m.subject # "invoke" /\ ~ Taken(s)
        /\ Deliverable' \subseteq Deliverable \cup {m} /\ UNCHANGED <<redeliveries, stream>>
    BY <1>0, <1>2, <2>1 DEF RedeliverAnswer, ResponseSubjects, Deliverable, Sent, Taken, AnswerKinds
  <2>3. CASE r # s
    BY <1>0, <2>2, <2>3, OnceQuiet
  <2>4. CASE r = s
    <3>1. Event(r) \in Deliverable' => Event(r) \in Deliverable
      BY <2>2 DEF Event
    <3>2. OnePlace(r) => OnePlace(r)'
      BY <1>0, <2>2, <2>4, <3>1 DEF OnePlace, InNoHands, NoAnswerStored
    <3> QED BY <1>0, <2>2, <3>2 DEF Once, InNoHands, Event
  <2> QED BY <2>3, <2>4
<1>3. CASE DeliveryLost \/ Discard
  <2>1. Deliverable' \subseteq Deliverable /\ UNCHANGED redeliveries
    BY <1>3 DEF DeliveryLost, Discard, Deliverable
  <2> QED BY <1>0, <2>1, OnceQuiet
<1> QED BY <1>1, <1>2, <1>3 DEF StreamNext

LEMMA PodOnce ==
  ASSUME OnceInv, PodNext, NEW r \in Requests PROVE Once(r)'
<1>0. /\ Once(r) /\ TypeInv /\ r # NoRequest
      /\ UNCHANGED <<invoker, reply, result, redeliveries>> /\ Taken(r)' = Taken(r)
  BY InvocationAssumption DEF OnceInv, ConservedInv, PodNext, Poll, PollRefused, SetIdle,
     NextFails, Fetch, NextTick, Ack, Deliver, DeliverToNobody, HandlerReturns, Record,
     RecordFails, PublishAnswer, PublishAnswerFails, FunctionExits, ServerCrash, gatewayVars,
     streamVars, Taken
<1> USE <1>0 DEF TypeInv, TypeOK
<1>1. ASSUME NEW i \in Instances, Fetch(i) PROVE Once(r)'
  <2>1. PICK s \in Requests : /\ Event(s) \in Deliverable
                              /\ inflight' = inflight \cup {Event(s)}
                              /\ job' = [job EXCEPT ![i] = s]
    BY <1>1 DEF Fetch, InvokeSubject
  <2>2. UNCHANGED stream /\ Deliverable' \subseteq Deliverable \ {Event(s)} /\ Event(s) \in stream
    BY <1>1, <2>1 DEF Fetch, Deliverable
  <2>3. CASE r # s
    BY <2>1, <2>2, <2>3, OnceQuiet
  <2>4. CASE r = s
    <3>1. invoker[r] \notin {"new", "publishing"}
      BY <2>2, <2>4 DEF Once, Event
    <3>2. OnePlace(r) => OnePlace(r)'
      BY <2>1, <2>2, <2>4 DEF OnePlace, InNoHands, NoAnswerStored, Event
    <3> QED BY <2>2, <3>1, <3>2 DEF Once, Event
  <2> QED BY <2>3, <2>4
<1>2. ASSUME NEW i \in Instances, PublishAnswer(i) PROVE Once(r)'
  <2> DEFINE a == Answer(PublishedKind(i), job[i], run[i])
  <2>1. /\ stream' = stream \cup {a} /\ job' = [job EXCEPT ![i] = NoRequest]
        /\ UNCHANGED inflight /\ a.req = job[i] /\ a.subject # "invoke"
    BY <1>2 DEF PublishAnswer, Answer, PublishedKind
  <2>2. Deliverable' \subseteq Deliverable \cup {a}
    BY <2>1 DEF Deliverable
  <2> HIDE DEF a
  <2>3. CASE r # job[i]
    BY <2>1, <2>2, <2>3, OnceQuiet
  <2>4. CASE r = job[i]
    <3>1. invoker[r] \notin {"new", "publishing"}
      BY <2>4 DEF Once, InNoHands
    <3>2. Event(r) \in Deliverable' => Event(r) \in Deliverable
      BY <2>1, <2>2 DEF Event
    <3>3. ASSUME OnePlace(r) PROVE OnePlace(r)'
      <4>1. /\ InNoHands(r)' /\ NoAnswerStored(r) /\ ~ Taken(r)'
            /\ Event(r) \notin Deliverable'
        BY <2>1, <2>4, <3>2, <3>3 DEF OnePlace, InNoHands, Taken
      <4> QED BY <2>1, <4>1 DEF OnePlace, InNoHands, NoAnswerStored
    <3>4. (\A m \in stream : m.req = r /\ m.subject = "invoke" => m = Event(r))'
      BY <2>1 DEF Once, Event
    <3> QED BY <3>1, <3>3, <3>4 DEF Once
  <2> QED BY <2>3, <2>4
<1>3. ASSUME NEW i \in Instances,
             \/ Poll(i) \/ PollRefused(i) \/ SetIdle(i) \/ NextFails(i)
             \/ NextTick(i) \/ Ack(i) \/ Deliver(i) \/ DeliverToNobody(i)
             \/ \E k \in AnswerKinds : HandlerReturns(i, k)
             \/ Record(i) \/ RecordFails(i) \/ PublishAnswerFails(i)
             \/ FunctionExits(i) \/ ServerCrash(i)
      PROVE  Once(r)'
  <2>1. job' = job \/ job' = [job EXCEPT ![i] = NoRequest]
    BY <1>3 DEF Poll, PollRefused, SetIdle, NextFails, NextTick, Ack, Deliver, DeliverToNobody,
       HandlerReturns, Record, RecordFails, PublishAnswerFails, FunctionExits, ServerCrash, DropJob
  <2>2. stream' \subseteq stream /\ Deliverable' \subseteq Deliverable
    BY <1>3 DEF Poll, PollRefused, SetIdle, NextFails, NextTick, Ack, Deliver, DeliverToNobody,
       HandlerReturns, Record, RecordFails, PublishAnswerFails, FunctionExits, ServerCrash,
       streamVars, Deliverable
  <2> QED BY <2>1, <2>2, OnceQuiet
<1> QED BY <1>1, <1>2, <1>3 DEF PodNext

(* A call that has been answered, its event never having been redelivered, has
   nothing left in the queue that could be delivered: whichever server took
   the event, whichever of the goroutines gave up, no second answer comes.  *)
THEOREM AnsweredLeavesNothingTheorem == Spec => []AnsweredLeavesNothing
<1>1. Init => OnceInv
  BY InitConservedInv, InvocationAssumption
     DEF Init, OnceInv, Once, OnePlace, InNoHands, NoAnswerStored, Deliverable, Taken, AnswerKinds
<1>2. OnceInv /\ [Next]_vars => OnceInv'
  <2>1. ASSUME OnceInv, NEW r \in Requests, UNCHANGED vars PROVE Once(r)'
    BY <2>1, OnceQuiet DEF OnceInv, vars, gatewayVars, streamVars, podVars, Deliverable, Taken
  <2> QED BY <2>1, StepConservedInv, GatewayOnce, StreamOnce, PodOnce DEF OnceInv, Next
<1>3. OnceInv => AnsweredLeavesNothing
  BY DEF OnceInv, Once, OnePlace, AnsweredLeavesNothing, Taken
<1> QED BY <1>1, <1>2, <1>3, PTL DEF Spec

=============================================================================
