------------------------ MODULE InvocationLossProofs ------------------------
(***************************************************************************)
(* What a call may cost, and what it may not: HealthyLosesNothing,         *)
(* NobodyStranded and AnswersBounded, for every value of the constants, and *)
(* what becomes of the calls of a function whose pods are not bound.       *)
(***************************************************************************)
EXTENDS InvocationAnswerProofs

-----------------------------------------------------------------------------
(* What is dropped while no pod fails.                                     *)

(* A pod that neither dies nor loses its connections drops nothing: it is
   there, and so is its function.                                          *)
Whole == \A i \in Instances : fn[i] # "exited" /\ srv[i] # "down"

(* What the gateway drops.  A call that is over without an answer, although
   its goroutine took one, was cancelled or died with the gateway; so was one
   whose answer a crash has dropped, and that was an answer its handler gave. *)
Settled ==
  \A r \in Requests :
    invoker[r] = "done" /\ ~ CallerGone(r) =>
      /\ waiter[r] = "done"
      /\ reply[r] \in AnswerKinds => result[r] = reply[r]

OnlyUnreturnable == \A r \in lost : CallerGone(r) /\ outcomes[r] # {}

HealthyInv == Whole /\ Settled /\ OnlyUnreturnable

LEMMA GoneStaysGone ==
  ASSUME TypeOK, Sent, GatewayNext, NEW r \in Requests, CallerGone(r) PROVE CallerGone(r)'
BY DEF GatewayNext, GatewayCrash, Invoke, Publish, PublishFails, Return, ReturnCancelled,
   Expire, Disconnect, AwaitCreate, AwaitFails, AwaitReceives, AwaitTick, CallerGone,
   InProgress, Sent, TypeOK

LEMMA GatewaySettled ==
  ASSUME TypeOK, Sent, Settled, GatewayNext PROVE Settled'
<1> USE DEF TypeOK, Sent, Settled
<1>0. \A r \in Requests : CallerGone(r) => CallerGone(r)'
  BY GoneStaysGone
<1>1. ASSUME NEW r \in Requests,
             \/ Invoke(r) \/ Publish(r) \/ Expire(r) \/ Disconnect(r) \/ AwaitCreate(r)
             \/ AwaitFails(r) \/ AwaitTick(r)
      PROVE  Settled'
  BY <1>0, <1>1 DEF Invoke, Publish, Expire, Disconnect, AwaitCreate, AwaitFails, AwaitTick,
                    Send, AnswerKinds
<1>2. ASSUME NEW r \in Requests, PublishFails(r) \/ ReturnCancelled(r) PROVE Settled'
  <2>1. CallerGone(r)' /\ UNCHANGED <<waiter, reply>>
    BY <1>2 DEF PublishFails, ReturnCancelled, CallerGone
  <2>2. \A q \in Requests \ {r} : invoker'[q] = invoker[q] /\ result'[q] = result[q]
    BY <1>2 DEF PublishFails, ReturnCancelled
  <2> QED BY <1>0, <2>1, <2>2
<1>3. ASSUME NEW r \in Requests, Return(r) PROVE Settled'
  BY <1>0, <1>3 DEF Return
<1>4. ASSUME NEW r \in Requests, AwaitReceives(r) PROVE Settled'
  BY <1>0, <1>4 DEF AwaitReceives, Send
<1>5. CASE GatewayCrash
  <2>1. ASSUME NEW r \in Requests, invoker'[r] = "done", ~ CallerGone(r)'
        PROVE  waiter'[r] = "done" /\ reply'[r] \notin AnswerKinds
    <3>1. ~ InProgress(r) /\ invoker[r] = "done" /\ ~ CallerGone(r)
      BY <1>0, <1>5, <2>1 DEF GatewayCrash, CallerGone
    <3> QED BY <1>5, <3>1 DEF GatewayCrash, AnswerKinds
  <2> QED BY <2>1
<1> QED BY <1>1, <1>2, <1>3, <1>4, <1>5 DEF GatewayNext

LEMMA GatewayHealthy ==
  ASSUME ConservedInv, HonestInv, HealthyInv, GatewayNext PROVE HealthyInv'
<1> USE DEF ConservedInv, HonestInv, HealthyInv, TypeInv
<1>1. Whole' /\ UNCHANGED outcomes
  BY DEF GatewayNext, GatewayCrash, Invoke, Publish, PublishFails, Return, ReturnCancelled,
     Expire, Disconnect, AwaitCreate, AwaitFails, AwaitReceives, AwaitTick, podVars,
     historyVars, Whole
<1>2. \A r \in lost : CallerGone(r)' /\ outcomes'[r] # {}
  BY <1>1, GoneStaysGone DEF OnlyUnreturnable, TypeOK
<1>3. CASE lost' = lost
  BY <1>1, <1>2, <1>3, GatewaySettled DEF OnlyUnreturnable
<1>4. CASE GatewayCrash
  <2>1. ASSUME NEW r \in Unreturned PROVE CallerGone(r)' /\ outcomes'[r] # {}
    <3>1. r \in Requests /\ reply[r] \in outcomes[r] /\ invoker[r] # "new"
      BY <2>1 DEF Unreturned, Sent, AnswerKinds
    <3>2. CASE InProgress(r)
      BY <1>1, <1>4, <3>1, <3>2 DEF GatewayCrash, CallerGone
    <3>3. CASE ~ InProgress(r)
      <4>1. CallerGone(r)
        BY <2>1, <3>1, <3>3 DEF InProgress, Settled, Unreturned, TypeOK
      <4> QED BY <1>1, <3>1, <4>1, GoneStaysGone
    <3> QED BY <3>2, <3>3
  <2> QED BY <1>1, <1>2, <1>4, <2>1, GatewaySettled DEF GatewayCrash, OnlyUnreturnable
<1> QED BY <1>3, <1>4 DEF GatewayNext, Invoke, Publish, PublishFails, Return, ReturnCancelled,
     Expire, Disconnect, AwaitCreate, AwaitFails, AwaitReceives, AwaitTick, historyVars

LEMMA StreamHealthy == ASSUME Healthy, HealthyInv, StreamNext PROVE HealthyInv'
<1>1. UNCHANGED <<gatewayVars, fn, srv, lost, outcomes>>
  BY DEF Healthy, StreamNext, Redeliver, RedeliverAnswer, DeliveryLost, Discard, podVars,
     historyVars
<1> QED BY <1>1 DEF HealthyInv, Whole, Settled, OnlyUnreturnable, CallerGone, gatewayVars

LEMMA PodWhole ==
  ASSUME TypeInv, Healthy, Whole, PodNext PROVE Whole' /\ UNCHANGED lost
<1> USE DEF Healthy, Whole, TypeInv, TypeOK, NatsFails
<1>1. PICK i \in Instances :
        \/ Poll(i) \/ PollRefused(i) \/ SetIdle(i) \/ NextFails(i)
        \/ Fetch(i) \/ NextTick(i) \/ Ack(i) \/ Deliver(i) \/ DeliverToNobody(i)
        \/ \E k \in AnswerKinds : HandlerReturns(i, k)
        \/ Record(i) \/ RecordFails(i) \/ PublishAnswer(i) \/ PublishAnswerFails(i)
        \/ FunctionExits(i) \/ ServerCrash(i)
  BY DEF PodNext
<1>2. CASE \/ Poll(i) \/ SetIdle(i) \/ Fetch(i) \/ NextTick(i) \/ Ack(i) \/ Deliver(i)
           \/ Record(i)
  BY <1>2 DEF Poll, SetIdle, Fetch, NextTick, Ack, Deliver, Record, historyVars
<1>3. ASSUME NEW k \in AnswerKinds, HandlerReturns(i, k) PROVE Whole' /\ UNCHANGED lost
  BY <1>3 DEF HandlerReturns
<1>4. CASE PublishAnswer(i)
  BY <1>4 DEF PublishAnswer, Posted, historyVars
<1>5. CASE \/ PollRefused(i) \/ NextFails(i) \/ DeliverToNobody(i) \/ RecordFails(i)
           \/ PublishAnswerFails(i) \/ FunctionExits(i) \/ ServerCrash(i)
  BY <1>5 DEF PollRefused, NextFails, DeliverToNobody, RecordFails, PublishAnswerFails,
              FunctionExits, ServerCrash
<1> QED BY <1>1, <1>2, <1>3, <1>4, <1>5

LEMMA PodHealthy ==
  ASSUME TypeInv, Healthy, HealthyInv, PodNext PROVE HealthyInv'
<1>1. Whole' /\ UNCHANGED <<gatewayVars, lost>>
  <2>1. UNCHANGED gatewayVars
    BY DEF PodNext, Poll, PollRefused, SetIdle, NextFails, Fetch, NextTick, Ack, Deliver,
       DeliverToNobody, HandlerReturns, Record, RecordFails, PublishAnswer,
       PublishAnswerFails, FunctionExits, ServerCrash
  <2> QED BY <2>1, PodWhole DEF HealthyInv
<1>2. \A r \in Requests : outcomes[r] \subseteq outcomes'[r]
  BY DEF PodNext, Poll, PollRefused, SetIdle, NextFails, Fetch, NextTick, Ack, Deliver,
     DeliverToNobody, HandlerReturns, Record, RecordFails, PublishAnswer,
     PublishAnswerFails, FunctionExits, ServerCrash, historyVars, TypeInv, TypeOK
<1>3. OnlyUnreturnable'
  BY <1>1, <1>2 DEF HealthyInv, OnlyUnreturnable, CallerGone, gatewayVars, TypeInv, TypeOK
<1> QED BY <1>1, <1>3 DEF HealthyInv, Settled, CallerGone, gatewayVars

(* While pods live, are bound and keep their connections, and the stream has
   room, no event is dropped: neither lost acknowledgements and deliveries,
   timeouts and NATS errors of the gateway, nor clients that disconnect and
   crashes of the gateway drop one.  An answer is dropped only in the memory
   of the gateway, once nobody waits for it (Next, Ack and the answers'
   publication, which no context of the call bounds; awaitResponse's channel). *)
THEOREM HealthyLosesNothingTheorem == Spec => []HealthyLosesNothing
<1> DEFINE Base == ConservedInv /\ HonestInv
           Unharmed == Healthy => HealthyInv
<1>1. Init => Base /\ Unharmed
  BY InitConservedInv, InitHonestInv
     DEF Init, HealthyInv, Whole, Settled, OnlyUnreturnable
<1>2. Base /\ Unharmed /\ [Next]_vars => (Base /\ Unharmed)'
  <2> SUFFICES ASSUME Base, Unharmed, [Next]_vars PROVE Base' /\ Unharmed'
    OBVIOUS
  <2>1. Base'
    BY StepConservedInv, StepHonestInv
  <2>2. ASSUME Healthy PROVE HealthyInv'
    <3>1. CASE UNCHANGED vars
      BY <2>2, <3>1 DEF vars, gatewayVars, podVars, historyVars, HealthyInv, Whole, Settled,
                        OnlyUnreturnable, CallerGone
    <3> QED BY <2>2, <3>1, GatewayHealthy, StreamHealthy, PodHealthy DEF Next, ConservedInv
  <2> QED BY <2>1, <2>2 DEF Healthy
<1>3. Base /\ Unharmed => HealthyLosesNothing
  <2> SUFFICES ASSUME Base, Unharmed, Healthy, NEW r \in accepted, ~ Stored(r), ~ WorkedOn(r)
               PROVE  Held(r) \/ (CallerGone(r) /\ outcomes[r] # {})
    BY DEF HealthyLosesNothing
  <2>1. r \in Requests /\ (Taken(r) \/ r \in lost)
    BY DEF ConservedInv, Conserved, TypeInv, TypeOK
  <2>2. CASE r \in lost
    BY <2>2 DEF HealthyInv, OnlyUnreturnable
  <2>3. CASE result[r] \in AnswerKinds
    BY <2>3 DEF Held
  <2>4. CASE reply[r] \in AnswerKinds /\ result[r] \notin AnswerKinds
    <3>1. reply[r] \in outcomes[r] /\ invoker[r] # "new"
      BY <2>1, <2>4 DEF HonestInv, ConservedInv, Sent, AnswerKinds
    <3>2. InProgress(r) \/ CallerGone(r)
      BY <2>1, <2>4, <3>1 DEF InProgress, HealthyInv, Settled, ConservedInv, TypeInv, TypeOK
    <3> QED BY <2>4, <3>1, <3>2 DEF Held
  <2> QED BY <2>1, <2>2, <2>3, <2>4 DEF Taken
<1> HIDE DEF Base, Unharmed
<1> QED BY <1>1, <1>2, <1>3, PTL DEF Spec

-----------------------------------------------------------------------------
(* Whoever waits has somebody to wait for.                                 *)

(* NobodyStranded is inductive once it is known that a goroutine which has
   sent something is done, and that there is none before the call.         *)
LEMMA StepStranded ==
  ConservedInv /\ NobodyStranded /\ [Next]_vars => NobodyStranded'
<1> SUFFICES ASSUME ConservedInv, NobodyStranded, [Next]_vars PROVE NobodyStranded'
  OBVIOUS
<1> USE DEF ConservedInv, TypeInv, TypeOK, Sent, NobodyStranded, InProgress
<1>1. CASE UNCHANGED <<invoker, waiter, ctx, reply>>
  BY <1>1
<1>2. ASSUME NEW r \in Requests,
             Invoke(r) \/ Publish(r) \/ PublishFails(r) \/ Return(r) \/ ReturnCancelled(r)
      PROVE  NobodyStranded'
  BY <1>2 DEF Invoke, Publish, PublishFails, Return, ReturnCancelled
<1>3. ASSUME NEW r \in Requests, Expire(r) \/ Disconnect(r) \/ AwaitCreate(r)
      PROVE  NobodyStranded'
  BY <1>3 DEF Expire, Disconnect, AwaitCreate
<1>4. ASSUME NEW r \in Requests, AwaitFails(r) \/ AwaitTick(r) PROVE NobodyStranded'
  BY <1>4 DEF AwaitFails, AwaitTick, Send
<1>5. ASSUME NEW r \in Requests, AwaitReceives(r) PROVE NobodyStranded'
  <2>1. PICK m \in ResponseSubjects(r) :
          /\ reply' = [reply EXCEPT ![r] = m.subject]
          /\ waiter' = [waiter EXCEPT ![r] = "done"]
          /\ UNCHANGED <<invoker, ctx>>
    BY <1>5 DEF AwaitReceives, Send
  <2>2. m.subject # "none"
    BY <2>1 DEF ResponseSubjects, AnswerKinds
  <2> QED BY <2>1, <2>2
<1>6. CASE GatewayCrash
  BY <1>6 DEF GatewayCrash
<1>7. CASE StreamNext \/ PodNext
  <2>1. UNCHANGED gatewayVars
    BY <1>7 DEF StreamNext, Redeliver, RedeliverAnswer, DeliveryLost, Discard, PodNext, Poll,
       PollRefused, SetIdle, NextFails, Fetch, NextTick, Ack, Deliver, DeliverToNobody,
       HandlerReturns, Record, RecordFails, PublishAnswer, PublishAnswerFails, FunctionExits,
       ServerCrash
  <2> QED BY <1>1, <2>1 DEF gatewayVars
<1> QED BY <1>1, <1>2, <1>3, <1>4, <1>5, <1>6, <1>7 DEF Next, GatewayNext, vars, gatewayVars

(* PublishWaitResponse's select waits for a goroutine that is there or has
   sent; a goroutine that outlives its call has a cancelled context, so that
   it ends with its fetch (the buffered channel and the derived context of
   awaitResponse).                                                         *)
THEOREM NobodyStrandedTheorem == Spec => []NobodyStranded
<1>1. Init => ConservedInv /\ NobodyStranded
  BY InitConservedInv DEF Init, NobodyStranded, InProgress
<1>2. ConservedInv /\ NobodyStranded /\ [Next]_vars => (ConservedInv /\ NobodyStranded)'
  BY StepConservedInv, StepStranded
<1> QED BY <1>1, <1>2, PTL DEF Spec

-----------------------------------------------------------------------------
(* Not more answers than runs.                                             *)

(* A pod that has started the handler and not yet dropped or published what
   came of it works on a run.                                              *)
Working(i) ==
  fn[i] = "handling" \/ srv[i] \in {"recording", "publishing", "publishingError"}

StoredAnswers == {m \in stream : m.subject \in AnswerKinds}

(* AnswersBounded by itself is not inductive: two pods may be about to answer
   the same call.  But the runs of a call are numbered, each of them is with
   one pod or has left one answer, and no number is given twice.           *)
RunsNumbered ==
  \A i \in Instances :
    Working(i) =>
      /\ run[i] \in 1 .. runs[job[i]]
      /\ \A j \in Instances : Working(j) /\ job[j] = job[i] /\ run[j] = run[i] => j = i
      /\ \A m \in StoredAnswers : m.req = job[i] => m.run # run[i]

AnswersNumbered ==
  /\ \A m \in StoredAnswers : m.run \in 1 .. runs[m.req]
  /\ \A m, n \in StoredAnswers : m.req = n.req /\ m.run = n.run => m = n

Numbered == RunsNumbered /\ AnswersNumbered

LEMMA WorkingHasJob ==
  ASSUME TypeInv, NEW i \in Instances, Working(i) PROVE job[i] \in Requests
BY DEF TypeInv, PodOK, Working

(* Steps that start no run and store no answer.                            *)
LEMMA NumberedKept ==
  ASSUME Numbered, StoredAnswers' \subseteq StoredAnswers, UNCHANGED runs,
         \A i \in Instances : Working(i)' => Working(i) /\ job'[i] = job[i] /\ run'[i] = run[i]
  PROVE  Numbered'
BY DEF Numbered, RunsNumbered, AnswersNumbered

LEMMA GatewayNumbered == ASSUME Numbered, GatewayNext PROVE Numbered'
<1>1. UNCHANGED <<fn, srv, job, run, runs>>
  BY DEF GatewayNext, GatewayCrash, Invoke, Publish, PublishFails, Return, ReturnCancelled,
     Expire, Disconnect, AwaitCreate, AwaitFails, AwaitReceives, AwaitTick, podVars, historyVars
<1>2. stream' \subseteq stream \cup {Event(r) : r \in Requests}
  BY DEF GatewayNext, GatewayCrash, Invoke, Publish, PublishFails, StoreEvent, Return,
     ReturnCancelled, Expire, Disconnect, AwaitCreate, AwaitFails, AwaitReceives, AwaitTick,
     streamVars
<1>3. StoredAnswers' \subseteq StoredAnswers
  BY <1>2 DEF StoredAnswers, Event, AnswerKinds
<1> QED BY <1>1, <1>3, NumberedKept DEF Working

LEMMA StreamNumbered == ASSUME Numbered, StreamNext PROVE Numbered'
<1>1. UNCHANGED <<fn, srv, job, run, runs>> /\ stream' \subseteq stream
  BY DEF StreamNext, Redeliver, RedeliverAnswer, DeliveryLost, Discard, podVars, historyVars
<1>2. StoredAnswers' \subseteq StoredAnswers
  BY <1>1 DEF StoredAnswers
<1> QED BY <1>1, <1>2, NumberedKept DEF Working

(* A run that starts has a number no run of the call has had.              *)
LEMMA DeliverNumbered ==
  ASSUME TypeInv, Numbered, NEW i \in Instances, Deliver(i) PROVE Numbered'
<1> DEFINE r == job[i]
<1>1. /\ r \in Requests /\ runs[r] \in Nat
      /\ runs' = [runs EXCEPT ![r] = @ + 1]
      /\ run' = [run EXCEPT ![i] = runs[r] + 1]
      /\ UNCHANGED <<stream, job>>
  BY DEF Deliver, streamVars, TypeInv, TypeOK, PodOK
<1>2. \A j \in Instances \ {i} : Working(j)' => Working(j) /\ run'[j] = run[j]
  BY <1>1 DEF Deliver, Working, TypeInv, TypeOK
<1>3. \A q \in Requests : runs'[q] \in Nat /\ runs[q] \in Nat /\ runs[q] <= runs'[q]
  BY <1>1 DEF TypeInv, TypeOK
<1>4. UNCHANGED StoredAnswers /\ \A m \in StoredAnswers : m.req \in Requests
  BY <1>1 DEF StoredAnswers, TypeInv, TypeOK, Msg
<1>5. AnswersNumbered'
  BY <1>3, <1>4 DEF Numbered, AnswersNumbered
<1>6. run'[i] = runs[r] + 1 /\ runs'[r] = runs[r] + 1
  BY <1>1 DEF TypeInv, TypeOK
<1>7. \A m \in StoredAnswers : m.req = r => m.run # runs[r] + 1
  BY <1>1 DEF Numbered, AnswersNumbered
<1>8. \A j \in Instances \ {i} : Working(j) /\ job[j] = r => run[j] # runs[r] + 1
  BY <1>1 DEF Numbered, RunsNumbered
<1>9. RunsNumbered'
  <2> SUFFICES ASSUME NEW j \in Instances, Working(j)'
               PROVE  /\ run'[j] \in 1 .. runs'[job'[j]]
                      /\ \A l \in Instances :
                           Working(l)' /\ job'[l] = job'[j] /\ run'[l] = run'[j] => l = j
                      /\ \A m \in StoredAnswers' : m.req = job'[j] => m.run # run'[j]
    BY DEF RunsNumbered
  <2>1. CASE j = i
    <3>1. run'[j] \in 1 .. runs'[job'[j]]
      BY <1>1, <1>6, <2>1
    <3>2. \A l \in Instances \ {i} : Working(l)' /\ job'[l] = r => run'[l] # run'[i]
      BY <1>1, <1>2, <1>6, <1>8
    <3> QED BY <1>1, <1>4, <1>6, <1>7, <2>1, <3>1, <3>2
  <2>2. CASE j # i
    <3>1. Working(j) /\ run'[j] = run[j] /\ job'[j] = job[j] /\ job[j] \in Requests
      BY <1>1, <1>2, <2>2, WorkingHasJob
    <3>2. run[j] \in 1 .. runs'[job[j]]
      BY <1>3, <3>1 DEF Numbered, RunsNumbered
    <3>3. ASSUME NEW l \in Instances, Working(l)', job'[l] = job'[j], run'[l] = run'[j]
          PROVE  l = j
      <4>1. CASE l = i
        BY <1>1, <1>6, <1>8, <2>2, <3>1, <3>3, <4>1
      <4>2. CASE l # i
        BY <1>1, <1>2, <3>1, <3>3, <4>2 DEF Numbered, RunsNumbered
      <4> QED BY <4>1, <4>2
    <3> QED BY <1>4, <3>1, <3>2, <3>3 DEF Numbered, RunsNumbered
  <2> QED BY <2>1, <2>2
<1> QED BY <1>5, <1>9 DEF Numbered

(* A run whose answer is published is over.                                *)
LEMMA PublishNumbered ==
  ASSUME TypeInv, Numbered, NEW i \in Instances, PublishAnswer(i) PROVE Numbered'
<1> DEFINE a == Answer(PublishedKind(i), job[i], run[i])
<1>1. /\ stream' = stream \cup {a}
      /\ job' = [job EXCEPT ![i] = NoRequest] /\ run' = [run EXCEPT ![i] = 0]
      /\ UNCHANGED runs
  BY DEF PublishAnswer, historyVars
<1>2. a.req = job[i] /\ a.run = run[i]
  BY DEF Answer
<1>3. StoredAnswers' \subseteq StoredAnswers \cup {a}
  BY <1>1 DEF StoredAnswers
<1> HIDE DEF a
<1>4. Working(i) /\ ~ Working(i)'
  BY DEF PublishAnswer, Posted, Working, TypeInv, TypeOK, PodOK
<1>5. \A j \in Instances \ {i} : Working(j)' => Working(j) /\ job'[j] = job[j] /\ run'[j] = run[j]
  BY <1>1 DEF PublishAnswer, Posted, Working, TypeInv, TypeOK
<1>6. AnswersNumbered'
  BY <1>1, <1>2, <1>3, <1>4 DEF Numbered, RunsNumbered, AnswersNumbered
<1>7. RunsNumbered'
  <2> SUFFICES ASSUME NEW j \in Instances, Working(j)'
               PROVE  /\ run'[j] \in 1 .. runs'[job'[j]]
                      /\ \A l \in Instances :
                           Working(l)' /\ job'[l] = job'[j] /\ run'[l] = run'[j] => l = j
                      /\ \A m \in StoredAnswers' : m.req = job'[j] => m.run # run'[j]
    BY DEF RunsNumbered
  <2>1. j # i /\ Working(j) /\ job'[j] = job[j] /\ run'[j] = run[j]
    BY <1>4, <1>5
  <2>2. a.req = job[j] => a.run # run[j]
    BY <1>2, <1>4, <2>1 DEF Numbered, RunsNumbered
  <2> QED BY <1>1, <1>3, <1>4, <1>5, <2>1, <2>2 DEF Numbered, RunsNumbered
<1> QED BY <1>6, <1>7 DEF Numbered

LEMMA PodNumbered == ASSUME TypeInv, Numbered, PodNext PROVE Numbered'
<1>1. PICK i \in Instances :
        \/ Poll(i) \/ PollRefused(i) \/ SetIdle(i) \/ NextFails(i)
        \/ Fetch(i) \/ NextTick(i) \/ Ack(i) \/ Deliver(i) \/ DeliverToNobody(i)
        \/ \E k \in AnswerKinds : HandlerReturns(i, k)
        \/ Record(i) \/ RecordFails(i) \/ PublishAnswer(i) \/ PublishAnswerFails(i)
        \/ FunctionExits(i) \/ ServerCrash(i)
  BY DEF PodNext
<1>2. CASE Deliver(i) \/ PublishAnswer(i)
  BY <1>2, DeliverNumbered, PublishNumbered
<1>3. CASE ~ Deliver(i) /\ ~ PublishAnswer(i)
  <2>1. stream' \subseteq stream /\ UNCHANGED runs
    BY <1>1, <1>3 DEF Poll, PollRefused, SetIdle, NextFails, Fetch, NextTick, Ack,
       DeliverToNobody, HandlerReturns, Record, RecordFails, PublishAnswerFails, FunctionExits,
       ServerCrash, streamVars, historyVars
  <2>2. StoredAnswers' \subseteq StoredAnswers
    BY <2>1 DEF StoredAnswers
  <2>3. \A j \in Instances : Working(j)' => Working(j) /\ job'[j] = job[j] /\ run'[j] = run[j]
    <3> USE DEF Working, TypeInv, TypeOK, PodOK
    <3>1. CASE \/ Poll(i) \/ PollRefused(i) \/ SetIdle(i) \/ NextFails(i) \/ Fetch(i)
               \/ NextTick(i) \/ Ack(i) \/ Record(i)
      BY <3>1 DEF Poll, PollRefused, SetIdle, NextFails, Fetch, NextTick, Ack, Record
    <3>2. CASE DeliverToNobody(i) \/ RecordFails(i) \/ PublishAnswerFails(i)
      BY <3>2 DEF DeliverToNobody, RecordFails, PublishAnswerFails, Posted, DropJob
    <3>3. ASSUME NEW k \in AnswerKinds, HandlerReturns(i, k)
          PROVE  \A j \in Instances : Working(j)' => Working(j) /\ job'[j] = job[j] /\ run'[j] = run[j]
      BY <3>3 DEF HandlerReturns, DropJob
    <3>4. CASE FunctionExits(i)
      BY <3>4 DEF FunctionExits, DropJob
    <3>5. CASE ServerCrash(i)
      BY <3>5 DEF ServerCrash, DropJob
    <3> QED BY <1>1, <1>3, <3>1, <3>2, <3>3, <3>4, <3>5
  <2> QED BY <2>1, <2>2, <2>3, NumberedKept
<1> QED BY <1>2, <1>3

LEMMA StepNumbered == TypeInv /\ Numbered /\ [Next]_vars => Numbered'
<1> SUFFICES ASSUME TypeInv, Numbered, [Next]_vars PROVE Numbered'
  OBVIOUS
<1>1. CASE UNCHANGED vars
  BY <1>1, NumberedKept DEF vars, streamVars, podVars, historyVars, StoredAnswers, Working
<1> QED BY <1>1, GatewayNumbered, StreamNumbered, PodNumbered DEF Next

(* Answers with different numbers: there are not more than numbers.        *)
LEMMA AnswersCounted ==
  ASSUME TypeInv, Numbered, NEW r \in Requests
  PROVE  Cardinality(Answers(r)) \in Nat /\ Cardinality(Answers(r)) <= runs[r]
<1> DEFINE number == [m \in Answers(r) |-> m.run]
<1>1. runs[r] \in Nat
  BY DEF TypeInv, TypeOK
<1>2. IsFiniteSet(1 .. runs[r]) /\ Cardinality(1 .. runs[r]) = runs[r]
  BY <1>1, FS_Interval
<1>3. \A m \in Answers(r) : m \in StoredAnswers /\ m.req = r
  BY DEF Answers, StoredAnswers
<1>4. number \in [Answers(r) -> 1 .. runs[r]]
  BY <1>3 DEF Numbered, AnswersNumbered
<1>5. \A m, n \in Answers(r) : number[m] = number[n] => m = n
  BY <1>3 DEF Numbered, AnswersNumbered
<1> HIDE DEF number
<1>6. number \in Injection(Answers(r), 1 .. runs[r])
  BY <1>4, <1>5 DEF Injection, IsInjective
<1> QED BY <1>2, <1>6, FS_Injection, FS_CardinalityType

(* However many pods serve a function and whatever is lost, redelivered or
   crashes, the answers to a call that nobody has taken are not more than the
   times its event was handed out (PublishAnswer in ResponseHandler and
   ErrorHandler).                                                          *)
THEOREM AnswersBoundedTheorem == Spec => []AnswersBounded
<1>1. Init => TypeInv /\ Numbered
  BY InitTypeInv DEF Init, Numbered, RunsNumbered, AnswersNumbered, StoredAnswers, Working
<1>2. TypeInv /\ Numbered /\ [Next]_vars => (TypeInv /\ Numbered)'
  BY StepTypeInv, StepNumbered
<1>3. TypeInv /\ Numbered /\ ExecutionsBounded => AnswersBounded
  <2> SUFFICES ASSUME TypeInv, Numbered, ExecutionsBounded, NEW r \in Requests
               PROVE  Cardinality(Answers(r)) <= 1 + redeliveries[r]
    BY DEF AnswersBounded
  <2>1. /\ Cardinality(Answers(r)) \in Nat /\ Cardinality(Answers(r)) <= runs[r]
        /\ runs[r] <= 1 + redeliveries[r]
    BY AnswersCounted DEF ExecutionsBounded
  <2>2. runs[r] \in Nat /\ redeliveries[r] \in Nat
    BY DEF TypeInv, TypeOK
  <2> QED BY <2>1, <2>2
<1> QED BY <1>1, <1>2, <1>3, ExecutionsBoundedTheorem, PTL DEF Spec

-----------------------------------------------------------------------------
(* An answered call that was not redelivered ran once.                     *)

Handling(i) == fn[i] = "handling"

(* AnsweredRanOnce needs to know of a call that ran once that it has ended at
   most once, and not yet while a pod is still at it.                      *)
OneEnd ==
  \A r \in Requests :
    /\ runs[r] = 0 => outcomes[r] = {}
    /\ runs[r] = 1 =>
         /\ \E k \in AnswerKinds : outcomes[r] \subseteq {k}
         /\ \A i \in Instances : Handling(i) /\ job[i] = r => outcomes[r] = {}

LEMMA OneEndKept ==
  ASSUME OneEnd, UNCHANGED <<runs, outcomes>>,
         \A i \in Instances : Handling(i)' => Handling(i) /\ job'[i] = job[i]
  PROVE  OneEnd'
BY DEF OneEnd

LEMMA DeliverOneEnd ==
  ASSUME TypeInv, OneEnd, NEW i \in Instances, Deliver(i) PROVE OneEnd'
<1> DEFINE r == job[i]
<1>1. /\ r \in Requests /\ runs[r] \in Nat
      /\ runs' = [runs EXCEPT ![r] = @ + 1] /\ UNCHANGED <<job, outcomes>>
      /\ \A j \in Instances \ {i} : Handling(j)' <=> Handling(j)
  BY DEF Deliver, streamVars, Handling, TypeInv, TypeOK, PodOK
<1> HIDE DEF r
<1>2. ASSUME NEW q \in Requests
      PROVE  /\ runs'[q] = 0 => outcomes'[q] = {}
             /\ runs'[q] = 1 =>
                  /\ \E k \in AnswerKinds : outcomes'[q] \subseteq {k}
                  /\ \A j \in Instances : Handling(j)' /\ job'[j] = q => outcomes'[q] = {}
  <2>1. CASE q = r
    <3>1. runs'[q] = runs[r] + 1
      BY <1>1, <2>1 DEF TypeInv, TypeOK
    <3>2. runs'[q] = 1 => outcomes[r] = {}
      BY <1>1, <3>1 DEF OneEnd
    <3> QED BY <1>1, <2>1, <3>1, <3>2 DEF AnswerKinds
  <2>2. CASE q # r
    <3>1. runs'[q] = runs[q] /\ job[i] # q
      BY <1>1, <2>2 DEF TypeInv, TypeOK, r
    <3> QED BY <1>1, <3>1 DEF OneEnd
  <2> QED BY <2>1, <2>2
<1> QED BY <1>2 DEF OneEnd

(* The pod at whose handler a call's only run ends is the only one at it.  *)
LEMMA HandlerOneEnd ==
  ASSUME TypeInv, Numbered, OneEnd, NEW i \in Instances, NEW k \in AnswerKinds,
         HandlerReturns(i, k)
  PROVE  OneEnd'
<1> DEFINE r == job[i]
<1>1. /\ r \in Requests /\ runs[r] \in Nat /\ runs[r] # 0
      /\ outcomes' = [outcomes EXCEPT ![r] = @ \cup {k}] /\ UNCHANGED runs
      /\ ~ Handling(i)'
      /\ \A j \in Instances \ {i} : (Handling(j)' <=> Handling(j)) /\ job'[j] = job[j]
  <2>1. Handling(i) /\ Working(i) /\ r \in Requests
    BY WorkingHasJob DEF HandlerReturns, Working, Handling
  <2>2. runs[r] \in Nat /\ run[i] \in 1 .. runs[r]
    BY <2>1 DEF Numbered, RunsNumbered, TypeInv, TypeOK
  <2>3. ~ Handling(i)'
    BY DEF HandlerReturns, Handling, TypeInv, TypeOK
  <2> QED BY <2>1, <2>2, <2>3 DEF HandlerReturns, DropJob, Handling, TypeInv, TypeOK
<1>2. runs[r] = 1 => outcomes[r] = {} /\ \A j \in Instances \ {i} : ~ (Handling(j) /\ job[j] = r)
  <2> SUFFICES ASSUME runs[r] = 1
               PROVE  outcomes[r] = {} /\ \A j \in Instances \ {i} : ~ (Handling(j) /\ job[j] = r)
    OBVIOUS
  <2>1. Handling(i)
    BY DEF HandlerReturns, Handling
  <2>2. \A j \in Instances : Handling(j) /\ job[j] = r => run[j] = 1
    BY DEF Numbered, RunsNumbered, Working, Handling
  <2>3. \A j \in Instances : Handling(j) /\ job[j] = r => j = i
    BY <2>1, <2>2 DEF Numbered, RunsNumbered, Working, Handling
  <2> QED BY <1>1, <2>1, <2>3 DEF OneEnd
<1> HIDE DEF r
<1>3. ASSUME NEW q \in Requests
      PROVE  /\ runs'[q] = 0 => outcomes'[q] = {}
             /\ runs'[q] = 1 =>
                  /\ \E l \in AnswerKinds : outcomes'[q] \subseteq {l}
                  /\ \A j \in Instances : Handling(j)' /\ job'[j] = q => outcomes'[q] = {}
  <2>1. CASE q = r
    <3>1. outcomes'[q] = outcomes[r] \cup {k}
      BY <1>1, <2>1 DEF TypeInv, TypeOK
    <3> QED BY <1>1, <1>2, <2>1, <3>1
  <2>2. CASE q # r
    <3>1. outcomes'[q] = outcomes[q]
      BY <1>1, <2>2 DEF TypeInv, TypeOK
    <3> QED BY <1>1, <3>1 DEF OneEnd
  <2> QED BY <2>1, <2>2
<1> QED BY <1>3 DEF OneEnd

LEMMA StepOneEnd == TypeInv /\ Numbered /\ OneEnd /\ [Next]_vars => OneEnd'
<1> SUFFICES ASSUME TypeInv, Numbered, OneEnd, [Next]_vars PROVE OneEnd'
  OBVIOUS
<1>1. CASE GatewayNext \/ StreamNext \/ UNCHANGED vars
  <2>1. UNCHANGED <<fn, job, runs, outcomes>>
    BY <1>1 DEF GatewayNext, GatewayCrash, Invoke, Publish, PublishFails, StoreEvent, Return,
       ReturnCancelled, Expire, Disconnect, AwaitCreate, AwaitFails, AwaitReceives, AwaitTick,
       StreamNext, Redeliver, RedeliverAnswer, DeliveryLost, Discard, vars, podVars, historyVars
  <2> QED BY <2>1, OneEndKept DEF Handling
<1>2. ASSUME NEW i \in Instances, Deliver(i) \/ \E k \in AnswerKinds : HandlerReturns(i, k)
      PROVE  OneEnd'
  BY <1>2, DeliverOneEnd, HandlerOneEnd
<1>3. ASSUME NEW i \in Instances,
             \/ Poll(i) \/ PollRefused(i) \/ SetIdle(i) \/ NextFails(i) \/ Fetch(i)
             \/ NextTick(i) \/ Ack(i) \/ Record(i) \/ DeliverToNobody(i) \/ RecordFails(i)
             \/ PublishAnswer(i) \/ PublishAnswerFails(i) \/ FunctionExits(i) \/ ServerCrash(i)
      PROVE  OneEnd'
  <2> USE DEF Handling, TypeInv, TypeOK, PodOK
  <2>1. UNCHANGED <<runs, outcomes>>
    BY <1>3 DEF Poll, PollRefused, SetIdle, NextFails, Fetch, NextTick, Ack, Record,
       DeliverToNobody, RecordFails, PublishAnswer, PublishAnswerFails, FunctionExits,
       ServerCrash, historyVars
  <2>2. CASE \/ Poll(i) \/ PollRefused(i) \/ SetIdle(i) \/ NextFails(i) \/ Fetch(i)
             \/ NextTick(i) \/ Ack(i) \/ Record(i)
    BY <2>1, <2>2, OneEndKept DEF Poll, PollRefused, SetIdle, NextFails, Fetch, NextTick, Ack,
       Record
  <2>3. CASE DeliverToNobody(i) \/ RecordFails(i) \/ PublishAnswer(i) \/ PublishAnswerFails(i)
    BY <2>1, <2>3, OneEndKept DEF DeliverToNobody, RecordFails, PublishAnswer,
       PublishAnswerFails, Posted, DropJob
  <2>4. CASE FunctionExits(i)
    BY <2>1, <2>4, OneEndKept DEF FunctionExits, DropJob
  <2>5. CASE ServerCrash(i)
    BY <2>1, <2>5, OneEndKept DEF ServerCrash, DropJob
  <2> QED BY <1>3, <2>2, <2>3, <2>4, <2>5
<1> QED BY <1>1, <1>2, <1>3 DEF Next, PodNext

(* Exactly once: a call that is answered, and whose event JetStream has offered
   once, ran its handler once, and the answer is how that run ended, whatever
   fails and however many pods and calls there are (Next's acknowledgement,
   the subjects with the request's id, the durable consumer).              *)
THEOREM AnsweredRanOnceTheorem == Spec => []AnsweredRanOnce
<1> DEFINE Ends == TypeInv /\ Numbered /\ OneEnd
<1>1. Init => Ends
  BY InitTypeInv DEF Init, Numbered, RunsNumbered, AnswersNumbered, StoredAnswers, Working,
                     OneEnd, AnswerKinds
<1>2. Ends /\ [Next]_vars => Ends'
  BY StepTypeInv, StepNumbered, StepOneEnd
<1>3. Ends /\ ExecutionsBounded /\ AnswerHonest => AnsweredRanOnce
  <2> SUFFICES ASSUME Ends, ExecutionsBounded, AnswerHonest, NEW r \in Requests,
                      result[r] \in AnswerKinds, redeliveries[r] = 0
               PROVE  runs[r] = 1 /\ outcomes[r] = {result[r]}
    BY DEF AnsweredRanOnce
  <2>1. result[r] \in outcomes[r] /\ runs[r] \in Nat /\ runs[r] <= 1
    BY DEF AnswerHonest, ExecutionsBounded, TypeInv, TypeOK
  <2>2. runs[r] = 1
    BY <2>1 DEF OneEnd
  <2> QED BY <2>1, <2>2 DEF OneEnd
<1> HIDE DEF Ends
<1> QED BY <1>1, <1>2, <1>3, ExecutionsBoundedTheorem, AnswerHonestTheorem, PTL DEF Spec

-----------------------------------------------------------------------------
(* Pods that are not bound.                                                *)

(* The server of a pod that is not bound gets no further than to the first
   call through its functionInstance.                                      *)
UnboundServesNobody ==
  \A i \in Instances \ Bound :
    /\ srv[i] \in {"none", "idling", "down"} /\ fn[i] \in {"idle", "polling", "exited"}
    /\ job[i] = NoRequest

(* With no pod bound there are no outcomes, and no call has an answer.     *)
UnboundAnswersNothing ==
  Bound = {} => \A r \in Requests : outcomes[r] = {} /\ result[r] \notin AnswerKinds

LEMMA StepUnbound ==
  TypeInv /\ UnboundServesNobody /\ [Next]_vars => UnboundServesNobody'
<1> SUFFICES ASSUME TypeInv, UnboundServesNobody, [Next]_vars PROVE UnboundServesNobody'
  OBVIOUS
<1> USE DEF TypeInv, TypeOK, UnboundServesNobody
<1>1. CASE UNCHANGED <<srv, fn, job>>
  BY <1>1
<1>2. CASE GatewayNext \/ StreamNext
  <2>1. UNCHANGED podVars
    BY <1>2 DEF GatewayNext, GatewayCrash, Invoke, Publish, PublishFails, Return,
       ReturnCancelled, Expire, Disconnect, AwaitCreate, AwaitFails, AwaitReceives, AwaitTick,
       StreamNext, Redeliver, RedeliverAnswer, DeliveryLost, Discard
  <2> QED BY <1>1, <2>1 DEF podVars
<1>3. ASSUME NEW i \in Instances,
             \/ Poll(i) \/ PollRefused(i) \/ SetIdle(i) \/ NextFails(i) \/ Fetch(i)
             \/ NextTick(i) \/ Ack(i) \/ Deliver(i) \/ Record(i)
      PROVE  UnboundServesNobody'
  BY <1>3 DEF Poll, PollRefused, SetIdle, NextFails, Fetch, NextTick, Ack, Deliver, Record
<1>4. ASSUME NEW i \in Instances,
             \/ DeliverToNobody(i) \/ \E k \in AnswerKinds : HandlerReturns(i, k)
             \/ RecordFails(i) \/ PublishAnswer(i) \/ PublishAnswerFails(i)
      PROVE  UnboundServesNobody'
  BY <1>4 DEF DeliverToNobody, HandlerReturns, RecordFails, PublishAnswer, PublishAnswerFails,
              Posted, DropJob
<1>5. ASSUME NEW i \in Instances, FunctionExits(i) \/ ServerCrash(i)
      PROVE  UnboundServesNobody'
  BY <1>5 DEF FunctionExits, ServerCrash, DropJob
<1> QED BY <1>1, <1>2, <1>3, <1>4, <1>5 DEF Next, PodNext, vars, podVars

(* NextHandler of a server whose Init has not kept the function instance panics
   in SetBusy: its pod never takes an event from the queue.                *)
THEOREM UnboundServesNobodyTheorem == Spec => []UnboundServesNobody
<1>1. Init => UnboundServesNobody
  BY DEF Init, UnboundServesNobody
<1>2. TypeInv /\ UnboundServesNobody /\ [Next]_vars => UnboundServesNobody'
  BY StepUnbound
<1> QED BY <1>1, <1>2, TypeCorrect, PTL DEF Spec

(* So if no pod's server has kept it, which is how Server.Init is written, no
   handler ever runs and no call of Invoke returns an answer.              *)
THEOREM UnboundAnswersNothingTheorem == Spec => []UnboundAnswersNothing
<1> DEFINE Nothing == Bound = {} => \A r \in Requests : outcomes[r] = {}
<1>1. Init => Nothing
  BY DEF Init
<1>2. UnboundServesNobody /\ Nothing /\ [Next]_vars => Nothing'
  <2> SUFFICES ASSUME UnboundServesNobody, Nothing, [Next]_vars, Bound = {} PROVE Nothing'
    OBVIOUS
  <2>1. \A i \in Instances : fn[i] # "handling"
    BY DEF UnboundServesNobody
  <2>2. UNCHANGED outcomes
    BY <2>1 DEF Next, vars, historyVars, GatewayNext, GatewayCrash, Invoke, Publish,
       PublishFails, Return, ReturnCancelled, Expire, Disconnect, AwaitCreate, AwaitFails,
       AwaitReceives, AwaitTick, StreamNext, Redeliver, RedeliverAnswer, DeliveryLost, Discard,
       PodNext, Poll, PollRefused, SetIdle, NextFails, Fetch, NextTick, Ack, Deliver,
       DeliverToNobody, HandlerReturns, Record, RecordFails, PublishAnswer,
       PublishAnswerFails, FunctionExits, ServerCrash
  <2> QED BY <2>2
<1>3. Nothing /\ AnswerHonest => UnboundAnswersNothing
  BY DEF AnswerHonest, UnboundAnswersNothing
<1> HIDE DEF Nothing
<1> QED BY <1>1, <1>2, <1>3, UnboundServesNobodyTheorem, AnswerHonestTheorem, PTL DEF Spec

-----------------------------------------------------------------------------
(* A call returns once.                                                    *)

(* What Call says is enough to know that what a call has returned stays what
   it is: neither an answer that comes late nor a gateway that crashes takes
   it back (the two arms of the select in PublishWaitResponse).            *)
ReturnedOnce ==
  [][\A r \in Requests : result[r] # "none" => result'[r] = result[r]]_vars

THEOREM ReturnedOnceTheorem == Spec => ReturnedOnce
<1> DEFINE Stays == \A r \in Requests : result[r] # "none" => result'[r] = result[r]
<1>1. result \in [Requests -> AnswerKinds \cup {"none", "failed", "cancelled", "crashed"}]
        /\ [C!Next]_(C!vars) => [Stays]_vars
  BY DEF C!Next, C!vars, C!Begin, C!Execute, C!Return, C!Crash, C!InProgress
<1>2. TypeOK => result \in [Requests -> AnswerKinds \cup {"none", "failed", "cancelled", "crashed"}]
  BY DEF TypeOK
<1> QED BY <1>1, <1>2, TypeOKTheorem, ImplementsCallTheorem, PTL
        DEF ImplementsCall, C!Spec, ReturnedOnce

=============================================================================
