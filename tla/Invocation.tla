----------------------------- MODULE Invocation -----------------------------
(***************************************************************************)
(* One invocation of a function, end to end: the gateway's Invoker         *)
(* publishes the event to the function's JetStream work queue and waits    *)
(* for the answer; the runtime API server of some instance takes the event *)
(* from the queue on behalf of its function; the function runs the handler *)
(* and posts the outcome, which the server publishes to the response or    *)
(* the error subject of the request.                                       *)
(*                                                                         *)
(* Every Invoke call has an id of its own (uuid.NewString), so a request   *)
(* is invoked once.  An instance is a "pod": a runtime API server and the  *)
(* function container it serves.                                           *)
(***************************************************************************)
EXTENDS Naturals, FiniteSets

CONSTANTS
  Requests,         (* the calls of Invoker.Invoke                           *)
  Instances,        (* the function's pods                                   *)
  Bound,            (* the pods whose server holds its functionInstance      *)
  Mortal,           (* the pods whose containers may die or lose connections *)
  Faults,           (* which of FaultKinds may happen                        *)
  MaxRedeliveries,  (* bound: how often one event may be redelivered         *)
  NoRequest         (* "no request", not one of Requests                     *)

(* What may fail: a NATS operation of the gateway or of a mortal pod, or the
   delivery of an answer ("nats"); the delivery of an event ("delivery"); an
   acknowledgement; a client's connection; the gateway's process; the room of
   the stream.                                                             *)
FaultKinds == {"nats", "delivery", "ack", "client", "gateway", "limits"}

ASSUME InvocationAssumption ==
  /\ IsFiniteSet(Instances)
  /\ Bound \subseteq Instances
  /\ Mortal \subseteq Instances
  /\ Faults \subseteq FaultKinds
  /\ MaxRedeliveries \in Nat
  /\ NoRequest \notin Requests

VARIABLES
  invoker,       (* [Requests -> ...] where PublishWaitResponse stands        *)
  waiter,        (* [Requests -> ...] where its awaitResponse goroutine stands *)
  ctx,           (* [Requests -> ...] the contexts of the call               *)
  reply,         (* [Requests -> ...] what the goroutine sent to replChan    *)
  result,        (* [Requests -> ...] what Invoke returned                   *)
  stream,        (* the messages the work queue stores                       *)
  inflight,      (* those delivered to a consumer and not yet acknowledged   *)
  redeliveries,  (* [Requests -> Nat] AckWait expiries of the event          *)
  fn,            (* [Instances -> ...] the function's main loop              *)
  srv,           (* [Instances -> ...] the handler its server is running     *)
  job,           (* [Instances -> Requests or NoRequest] the event in hand   *)
  run,           (* [Instances -> Nat] which run of that event this is       *)
  accepted,      (* history: requests whose event the stream stored          *)
  runs,          (* history: [Requests -> Nat] how often the handler ran     *)
  outcomes,      (* history: [Requests -> SUBSET AnswerKinds] how it ended   *)
  lost           (* history: requests one of whose messages was given up     *)

gatewayVars == <<invoker, waiter, ctx, reply, result>>
streamVars  == <<stream, inflight, redeliveries>>
podVars     == <<fn, srv, job, run>>
historyVars == <<accepted, runs, outcomes, lost>>
vars == <<gatewayVars, streamVars, podVars, historyVars>>

AnswerKinds == {"response", "error"}

(***************************************************************************)
(* A message is named by its subject, the request it belongs to and, for   *)
(* an answer, the run of the handler that produced it.                     *)
(***************************************************************************)
Msg == [subject : {"invoke"} \cup AnswerKinds, req : Requests, run : Nat]

Event(r) == [subject |-> "invoke", req |-> r, run |-> 0]

Answer(k, r, n) == [subject |-> k, req |-> r, run |-> n]

(***************************************************************************)
(* The consumers' filters.  All servers of a function share one durable    *)
(* consumer on the invoke subject; a call's ephemeral consumer filters on  *)
(* the response and the error subject that carry its own request id.       *)
(***************************************************************************)
InvokeSubject(r) == {Event(r)}

AnySubject(r) == {m \in stream : m.subject \in AnswerKinds}  (* mutation *)

ResponseSubjects(r) == {m \in stream : m.subject \in AnswerKinds /\ m.req = r}

Deliverable == stream \ inflight

TypeOK ==
  /\ invoker \in [Requests -> {"new", "publishing", "selecting", "done"}]
  /\ waiter \in [Requests -> {"none", "creating", "fetching", "done"}]
  /\ ctx \in [Requests -> {"live", "expired", "cancelled"}]
  /\ reply \in [Requests -> AnswerKinds \cup {"none", "failed"}]
  /\ result \in [Requests -> AnswerKinds \cup {"none", "failed", "cancelled", "crashed"}]
  /\ stream \subseteq Msg
  /\ inflight \subseteq stream
  /\ redeliveries \in [Requests -> Nat]
  /\ fn \in [Instances -> {"idle", "polling", "handling", "posting", "exited"}]
  /\ srv \in [Instances -> {"none", "idling", "fetching", "fetched", "acked",
                            "recording", "publishing", "publishingError", "down"}]
  /\ job \in [Instances -> Requests \cup {NoRequest}]
  /\ run \in [Instances -> Nat]
  /\ accepted \subseteq Requests
  /\ runs \in [Requests -> Nat]
  /\ outcomes \in [Requests -> SUBSET AnswerKinds]
  /\ lost \subseteq Requests

Init ==
  /\ invoker = [r \in Requests |-> "new"]
  /\ waiter = [r \in Requests |-> "none"]
  /\ ctx = [r \in Requests |-> "live"]
  /\ reply = [r \in Requests |-> "none"]
  /\ result = [r \in Requests |-> "none"]
  /\ stream = {}
  /\ inflight = {}
  /\ redeliveries = [r \in Requests |-> 0]
  /\ fn = [i \in Instances |-> "idle"]
  /\ srv = [i \in Instances |-> "none"]
  /\ job = [i \in Instances |-> NoRequest]
  /\ run = [i \in Instances |-> 0]
  /\ accepted = {}
  /\ runs = [r \in Requests |-> 0]
  /\ outcomes = [r \in Requests |-> {}]
  /\ lost = {}

-----------------------------------------------------------------------------
(* The gateway: Invoker.Invoke and PubSuber.PublishWaitResponse.           *)

(* Invoke builds the event and PublishWaitResponse starts the awaitResponse
   goroutine, whose context carries the function's timeout.                *)
Invoke(r) ==
  /\ invoker[r] = "new"
  /\ invoker' = [invoker EXCEPT ![r] = "publishing"]
  /\ waiter' = [waiter EXCEPT ![r] = "creating"]
  /\ UNCHANGED <<ctx, reply, result, streamVars, podVars, historyVars>>

StoreEvent(r) ==
  /\ stream' = stream \cup {Event(r)}
  /\ accepted' = accepted \cup {r}

(* Publish returns without an error: the stream has stored the event.      *)
Publish(r) ==
  /\ invoker[r] = "publishing"
  /\ invoker' = [invoker EXCEPT ![r] = "selecting"]
  /\ StoreEvent(r)
  /\ UNCHANGED <<waiter, ctx, reply, result, inflight, redeliveries, podVars,
                 runs, outcomes, lost>>

(* Mutation: a failed publish is tried again, without a message id.        *)
PublishRetries(r) ==
  /\ invoker[r] = "publishing"
  /\ "nats" \in Faults
  /\ StoreEvent(r)
  /\ UNCHANGED <<gatewayVars, inflight, redeliveries, podVars, runs, outcomes, lost>>

(* Publish returns an error: either the event was not stored, or only the
   stream's confirmation was lost.  The HTTP handler returns, which ends the
   request's context; the awaitResponse goroutine is left running.         *)
PublishFails(r) ==
  /\ invoker[r] = "publishing"
  /\ "nats" \in Faults \/ ctx[r] = "cancelled"
  /\ invoker' = [invoker EXCEPT ![r] = "done"]
  /\ result' = [result EXCEPT ![r] = "failed"]
  /\ ctx' = [ctx EXCEPT ![r] = "cancelled"]
  /\ \/ StoreEvent(r)
     \/ UNCHANGED <<stream, accepted>>
  /\ UNCHANGED <<waiter, reply, inflight, redeliveries, podVars, runs,
                 outcomes, lost>>

(* The select takes what the goroutine sent.                               *)
Return(r) ==
  /\ invoker[r] = "selecting"
  /\ reply[r] # "none"
  /\ invoker' = [invoker EXCEPT ![r] = "done"]
  /\ result' = [result EXCEPT ![r] = reply[r]]
  /\ UNCHANGED <<waiter, ctx, reply, streamVars, podVars, historyVars>>

(* The select takes ctx.Done(): the client has closed its connection.      *)
ReturnCancelled(r) ==
  /\ invoker[r] = "selecting"
  /\ ctx[r] = "cancelled"
  /\ invoker' = [invoker EXCEPT ![r] = "done"]
  /\ result' = [result EXCEPT ![r] = "cancelled"]
  /\ UNCHANGED <<waiter, ctx, reply, streamVars, podVars, historyVars>>

(* The function's timeout elapses on the context awaitResponse derived.    *)
Expire(r) ==
  /\ waiter[r] \in {"creating", "fetching"}
  /\ ctx[r] = "live"
  /\ ctx' = [ctx EXCEPT ![r] = "expired"]
  /\ UNCHANGED <<invoker, waiter, reply, result, streamVars, podVars, historyVars>>

(* The client of the gateway disconnects, which cancels both contexts.     *)
Disconnect(r) ==
  /\ "client" \in Faults
  /\ invoker[r] \in {"publishing", "selecting"}
  /\ ctx[r] # "cancelled"
  /\ ctx' = [ctx EXCEPT ![r] = "cancelled"]
  /\ UNCHANGED <<invoker, waiter, reply, result, streamVars, podVars, historyVars>>

InProgress(r) == invoker[r] \in {"publishing", "selecting"}

(* The answers that only the gateway's memory holds: acknowledged, sent to
   replChan and not returned.                                              *)
Unreturned == {r \in Requests : reply[r] \in AnswerKinds /\ result[r] \notin AnswerKinds}

(* The gateway's process dies: the calls in progress, their goroutines, the
   channels between them and the answers in these are gone.  It may be started
   again: new requests can still be invoked.                               *)
GatewayCrash ==
  /\ "gateway" \in Faults
  /\ \E r \in Requests : InProgress(r)
  /\ result' = [r \in Requests |-> IF InProgress(r) THEN "crashed" ELSE result[r]]
  /\ invoker' = [r \in Requests |-> IF InProgress(r) THEN "done" ELSE invoker[r]]
  /\ waiter' = [r \in Requests |-> IF waiter[r] = "none" THEN "none" ELSE "done"]
  /\ reply' = [r \in Requests |-> "none"]
  /\ lost' = lost \cup Unreturned
  /\ UNCHANGED <<ctx, streamVars, podVars, accepted, runs, outcomes>>

-----------------------------------------------------------------------------
(* The gateway: the awaitResponse goroutine, running PubSuber.Next.        *)

Send(r, v) ==
  /\ waiter' = [waiter EXCEPT ![r] = "done"]
  /\ reply' = [reply EXCEPT ![r] = v]

(* CreateOrUpdateConsumer succeeds; the stream keeps answers published
   before this, so the goroutine does not race the publisher.              *)
AwaitCreate(r) ==
  /\ waiter[r] = "creating"
  /\ waiter' = [waiter EXCEPT ![r] = "fetching"]
  /\ UNCHANGED <<invoker, ctx, reply, result, streamVars, podVars, historyVars>>

(* Mutation: awaitResponse returns its error and nothing is sent.          *)
AwaitFailsSilently(r) ==
  /\ \/ "nats" \in Faults /\ waiter[r] \in {"creating", "fetching"}
     \/ waiter[r] = "creating" /\ ctx[r] # "live"
  /\ waiter' = [waiter EXCEPT ![r] = "done"]
  /\ UNCHANGED <<invoker, ctx, reply, result, streamVars, podVars, historyVars>>

(* Creating the consumer (under the call's context) or fetching fails.     *)
AwaitFails(r) ==
  /\ \/ "nats" \in Faults /\ waiter[r] \in {"creating", "fetching"}
     \/ waiter[r] = "creating" /\ ctx[r] # "live"
  /\ Send(r, "failed")
  /\ UNCHANGED <<invoker, ctx, result, streamVars, podVars, historyVars>>

(* Mutation: the context is looked at after the answer was acknowledged.    *)
AwaitReceivesLate(r) ==
  /\ waiter[r] = "fetching"
  /\ \E m \in ResponseSubjects(r) \cap Deliverable :
       /\ Send(r, IF ctx[r] = "live" THEN m.subject ELSE "failed")
       /\ stream' = stream \ {m}
  /\ UNCHANGED <<invoker, ctx, result, inflight, redeliveries, podVars, historyVars>>

(* Next returns an answer, whatever the state of its context; the answer is
   acknowledged and sent to replChan.  The acknowledgement may be lost.    *)
AwaitReceives(r) ==
  /\ waiter[r] = "fetching"
  /\ \E m \in ResponseSubjects(r) \cap Deliverable :
       /\ Send(r, m.subject)
       /\ \/ stream' = stream \ {m} /\ UNCHANGED inflight
          \/ "ack" \in Faults /\ inflight' = inflight \cup {m} /\ UNCHANGED stream
  /\ UNCHANGED <<invoker, ctx, result, redeliveries, podVars, historyVars>>

(* Mutation: the loop of Next goes on without looking at the context.      *)
AwaitNeverLooks(r) ==
  /\ waiter[r] = "fetching"
  /\ ctx[r] # "live"
  /\ UNCHANGED vars

(* A fetch of nextTimeout ends without a message: only now is the context
   looked at.  While it is live the loop fetches again, which changes
   nothing.                                                                *)
AwaitTick(r) ==
  /\ waiter[r] = "fetching"
  /\ ctx[r] # "live"
  /\ Send(r, "failed")
  /\ UNCHANGED <<invoker, ctx, result, streamVars, podVars, historyVars>>

-----------------------------------------------------------------------------
(* JetStream, between the calls.                                           *)

(* AckWait elapses on an event: the consumer offers it again.              *)
Redeliver(r) ==
  /\ Event(r) \in inflight
  /\ redeliveries[r] < MaxRedeliveries
  /\ inflight' = inflight \ {Event(r)}
  /\ redeliveries' = [redeliveries EXCEPT ![r] = @ + 1]
  /\ UNCHANGED <<gatewayVars, stream, podVars, historyVars>>

(* The same for an answer, as long as its consumer is being pulled from.   *)
RedeliverAnswer(r) ==
  /\ waiter[r] = "fetching"
  /\ \E m \in ResponseSubjects(r) \cap inflight : inflight' = inflight \ {m}
  /\ UNCHANGED <<gatewayVars, stream, redeliveries, podVars, historyVars>>

(* A message is delivered to a pull request the client has just given up.  *)
DeliveryLost ==
  /\ \E m \in Deliverable :
       /\ \/ /\ m.subject = "invoke" /\ "delivery" \in Faults
             /\ \E i \in Instances : srv[i] = "fetching"
          \/ /\ m.subject # "invoke" /\ "nats" \in Faults
             /\ waiter[m.req] = "fetching"
       /\ inflight' = inflight \cup {m}
  /\ UNCHANGED <<gatewayVars, stream, redeliveries, podVars, historyVars>>

(* The stream's limits (MaxAge, MaxMsgs, MaxBytes) discard a message.      *)
Discard ==
  /\ "limits" \in Faults
  /\ \E m \in stream :
       /\ stream' = stream \ {m}
       /\ inflight' = inflight \ {m}
       /\ lost' = lost \cup {m.req}
  /\ UNCHANGED <<gatewayVars, redeliveries, podVars, accepted, runs, outcomes>>

-----------------------------------------------------------------------------
(* The pod: the function's loop (sdk.Serve) and the runtime API's handlers. *)

(* fetchNextEvent sends GET .../next; NextHandler starts.                  *)
Poll(i) ==
  /\ fn[i] = "idle"
  /\ srv[i] = "none"
  /\ fn' = [fn EXCEPT ![i] = "polling"]
  /\ srv' = [srv EXCEPT ![i] = "idling"]
  /\ UNCHANGED <<gatewayVars, streamVars, job, run, historyVars>>

(* The runtime API is gone: the request fails and Serve returns.           *)
PollRefused(i) ==
  /\ fn[i] = "idle"
  /\ srv[i] = "down"
  /\ fn' = [fn EXCEPT ![i] = "exited"]
  /\ UNCHANGED <<gatewayVars, streamVars, srv, job, run, historyVars>>

(* NextHandler marks the instance idle and creates the durable consumer.
   Through an unbound functionInstance the first of these panics.          *)
SetIdle(i) ==
  /\ srv[i] = "idling"
  /\ i \in Bound
  /\ srv' = [srv EXCEPT ![i] = "fetching"]
  /\ UNCHANGED <<gatewayVars, streamVars, fn, job, run, historyVars>>

(* A pod whose connection to NATS is lost, like one that dies, is a mortal one. *)
NatsFails(i) == "nats" \in Faults /\ i \in Mortal

(* NextHandler answers 500, from an error or a recovered panic; the SDK takes
   any status but 200 as fatal and Serve returns.                          *)
NextFails(i) ==
  /\ \/ srv[i] = "idling" /\ i \notin Bound
     \/ srv[i] \in {"idling", "fetching"} /\ NatsFails(i)
  /\ srv' = [srv EXCEPT ![i] = "none"]
  /\ fn' = [fn EXCEPT ![i] = "exited"]
  /\ UNCHANGED <<gatewayVars, streamVars, job, run, historyVars>>

(* Mutation: every server has a consumer of its own (durableName "").       *)
FetchOwnConsumer(i) ==
  /\ srv[i] = "fetching"
  /\ \E r \in Requests :
       /\ InvokeSubject(r) \cap stream # {}
       /\ job' = [job EXCEPT ![i] = r]
  /\ srv' = [srv EXCEPT ![i] = "fetched"]
  /\ UNCHANGED <<gatewayVars, streamVars, fn, run, historyVars>>

(* Mutation: the consumer's acknowledgement policy is AckNone.             *)
FetchAckNone(i) ==
  /\ srv[i] = "fetching"
  /\ \E r \in Requests :
       /\ Event(r) \in Deliverable
       /\ stream' = stream \ {Event(r)}
       /\ job' = [job EXCEPT ![i] = r]
  /\ srv' = [srv EXCEPT ![i] = "fetched"]
  /\ UNCHANGED <<gatewayVars, inflight, redeliveries, fn, run, historyVars>>

(* Next returns an event.  The function need not be there any more.        *)
Fetch(i) ==
  /\ srv[i] = "fetching"
  /\ \E r \in Requests :
       /\ \E m \in InvokeSubject(r) \cap Deliverable : inflight' = inflight \cup {m}
       /\ job' = [job EXCEPT ![i] = r]
  /\ srv' = [srv EXCEPT ![i] = "fetched"]
  /\ UNCHANGED <<gatewayVars, stream, redeliveries, fn, run, historyVars>>

(* Mutation: the loop of Next goes on without looking at the context.      *)
NextNeverLooks(i) ==
  /\ srv[i] = "fetching"
  /\ fn[i] = "exited"
  /\ UNCHANGED vars

(* A fetch times out after the function has closed its connection.         *)
NextTick(i) ==
  /\ srv[i] = "fetching"
  /\ fn[i] = "exited"
  /\ srv' = [srv EXCEPT ![i] = "none"]
  /\ UNCHANGED <<gatewayVars, streamVars, fn, job, run, historyVars>>

(* Mutation: the consumer keeps a delivery of a message that is gone.      *)
AckKeepsDelivery(i) ==
  /\ srv[i] = "fetched"
  /\ srv' = [srv EXCEPT ![i] = "acked"]
  /\ stream' = stream \ {Event(job[i])}
  /\ UNCHANGED <<gatewayVars, inflight, redeliveries, fn, job, run, historyVars>>

(* msg.Ack(): the work queue drops the event, unless the ack is lost.      *)
Ack(i) ==
  /\ srv[i] = "fetched"
  /\ srv' = [srv EXCEPT ![i] = "acked"]
  /\ \/ /\ stream' = stream \ {Event(job[i])}
        /\ inflight' = inflight \ {Event(job[i])}
     \/ "ack" \in Faults /\ UNCHANGED <<stream, inflight>>
  /\ UNCHANGED <<gatewayVars, redeliveries, fn, job, run, historyVars>>

(* NextHandler writes the event; the function starts its handler.          *)
Deliver(i) ==
  /\ srv[i] = "acked"
  /\ fn[i] = "polling"
  /\ srv' = [srv EXCEPT ![i] = "none"]
  /\ fn' = [fn EXCEPT ![i] = "handling"]
  /\ runs' = [runs EXCEPT ![job[i]] = @ + 1]
  /\ run' = [run EXCEPT ![i] = runs[job[i]] + 1]
  /\ UNCHANGED <<gatewayVars, streamVars, job, accepted, outcomes, lost>>

DropJob(i) ==
  /\ job' = [job EXCEPT ![i] = NoRequest]
  /\ run' = [run EXCEPT ![i] = 0]
  /\ lost' = lost \cup {job[i]}

(* The function is gone: the acknowledged event is written to nobody.      *)
DeliverToNobody(i) ==
  /\ srv[i] = "acked"
  /\ fn[i] = "exited"
  /\ srv' = [srv EXCEPT ![i] = "none"]
  /\ DropJob(i)
  /\ UNCHANGED <<gatewayVars, streamVars, fn, accepted, runs, outcomes>>

(* Mutation: the SDK calls the handler again when it has failed.           *)
HandlerRetried(i, k) ==
  /\ fn[i] = "handling" /\ srv[i] = "none"
  /\ outcomes' = [outcomes EXCEPT ![job[i]] = @ \cup {k}]
  /\ fn' = [fn EXCEPT ![i] = IF k = "error" THEN @ ELSE "posting"]
  /\ srv' = [srv EXCEPT ![i] = IF k = "error" THEN @ ELSE "recording"]
  /\ UNCHANGED <<gatewayVars, streamVars, job, run, accepted, runs, lost>>

(* The handler returns a result (k = "response"), or an error or a panic
   (k = "error"), and postResponse sends it to the server.                 *)
HandlerReturns(i, k) ==
  /\ fn[i] = "handling"
  /\ outcomes' = [outcomes EXCEPT ![job[i]] = @ \cup {k}]
  /\ \/ /\ srv[i] = "none"
        /\ fn' = [fn EXCEPT ![i] = "posting"]
        /\ srv' = [srv EXCEPT ![i] = IF k = "error" THEN "publishingError" ELSE "recording"]
        /\ UNCHANGED <<job, run, lost>>
     \/ /\ srv[i] = "down"
        /\ fn' = [fn EXCEPT ![i] = "exited"]
        /\ DropJob(i)
        /\ UNCHANGED srv
  /\ UNCHANGED <<gatewayVars, streamVars, accepted, runs>>

(* postResponse does not look at the status: the function polls again,
   whatever became of its answer.                                          *)
Posted(i) == fn' = [fn EXCEPT ![i] = IF @ = "posting" THEN "idle" ELSE @]

(* ResponseHandler stores the time of the execution first.                 *)
Record(i) ==
  /\ srv[i] = "recording"
  /\ srv' = [srv EXCEPT ![i] = "publishing"]
  /\ UNCHANGED <<gatewayVars, streamVars, fn, job, run, historyVars>>

(* ResponseHandler fails before it publishes: the answer is dropped.       *)
RecordFails(i) ==
  /\ srv[i] = "recording"
  /\ NatsFails(i) \/ fn[i] = "exited"
  /\ srv' = [srv EXCEPT ![i] = "none"]
  /\ Posted(i)
  /\ DropJob(i)
  /\ UNCHANGED <<gatewayVars, streamVars, accepted, runs, outcomes>>

AlwaysResponse(i) == "response"  (* mutation: ErrorHandler uses the response subject *)

PublishedKind(i) == IF srv[i] = "publishingError" THEN "error" ELSE "response"

(* Mutation: the stream does not listen on the error subject.              *)
PublishErrorUnheard(i) ==
  /\ srv[i] \in {"publishing", "publishingError"}
  /\ stream' = IF PublishedKind(i) = "error" THEN stream
               ELSE stream \cup {Answer("response", job[i], run[i])}
  /\ srv' = [srv EXCEPT ![i] = "none"]
  /\ Posted(i)
  /\ job' = [job EXCEPT ![i] = NoRequest]
  /\ run' = [run EXCEPT ![i] = 0]
  /\ UNCHANGED <<gatewayVars, inflight, redeliveries, historyVars>>

(* Mutation: publishing is tried again after a lost confirmation.          *)
PublishAnswerRetries(i) ==
  /\ srv[i] \in {"publishing", "publishingError"}
  /\ stream' = stream \cup {Answer(PublishedKind(i), job[i], run[i])}
  /\ UNCHANGED <<gatewayVars, inflight, redeliveries, podVars, historyVars>>

(* Mutation: ErrorHandler does not return where it has published the error. *)
PublishFallsThrough(i) ==
  /\ srv[i] \in {"publishing", "publishingError"}
  /\ stream' = stream \cup {Answer(k, job[i], run[i]) : k \in {"response", PublishedKind(i)}}
  /\ srv' = [srv EXCEPT ![i] = "none"]
  /\ Posted(i)
  /\ job' = [job EXCEPT ![i] = NoRequest]
  /\ run' = [run EXCEPT ![i] = 0]
  /\ UNCHANGED <<gatewayVars, inflight, redeliveries, historyVars>>

(* ResponseHandler or ErrorHandler publishes the answer.                   *)
PublishAnswer(i) ==
  /\ srv[i] \in {"publishing", "publishingError"}
  /\ stream' = stream \cup {Answer(PublishedKind(i), job[i], run[i])}
  /\ srv' = [srv EXCEPT ![i] = "none"]
  /\ Posted(i)
  /\ job' = [job EXCEPT ![i] = NoRequest]
  /\ run' = [run EXCEPT ![i] = 0]
  /\ UNCHANGED <<gatewayVars, inflight, redeliveries, historyVars>>

(* Publishing fails and the answer is not stored.  (An answer that is stored
   although Publish fails is PublishAnswer: both handlers end alike.)      *)
PublishAnswerFails(i) ==
  /\ srv[i] \in {"publishing", "publishingError"}
  /\ NatsFails(i) \/ fn[i] = "exited"
  /\ srv' = [srv EXCEPT ![i] = "none"]
  /\ Posted(i)
  /\ DropJob(i)
  /\ UNCHANGED <<gatewayVars, streamVars, accepted, runs, outcomes>>

(* The function's process ends: it dies, its connection breaks, or a POST
   takes longer than ResponseTimeout.  The server's handler, if one is
   running, goes on; an event the function was working on is gone.         *)
FunctionExits(i) ==
  /\ i \in Mortal
  /\ fn[i] # "exited"
  /\ fn' = [fn EXCEPT ![i] = "exited"]
  /\ IF fn[i] = "handling" THEN DropJob(i) ELSE UNCHANGED <<job, run, lost>>
  /\ UNCHANGED <<gatewayVars, streamVars, srv, accepted, runs, outcomes>>

(* The runtime API's container dies with the handler it is running.  An event
   it has not acknowledged stays in the stream.                            *)
ServerCrash(i) ==
  /\ i \in Mortal
  /\ srv[i] # "down"
  /\ srv' = [srv EXCEPT ![i] = "down"]
  /\ fn' = [fn EXCEPT ![i] = IF @ \in {"polling", "posting"} THEN "exited" ELSE @]
  /\ \/ /\ srv[i] \in {"acked", "recording", "publishing", "publishingError"}
        /\ DropJob(i)
     \/ /\ srv[i] = "fetched"
        /\ job' = [job EXCEPT ![i] = NoRequest]
        /\ UNCHANGED <<run, lost>>
     \/ /\ srv[i] \in {"none", "idling", "fetching"}
        /\ UNCHANGED <<job, run, lost>>
  /\ UNCHANGED <<gatewayVars, streamVars, accepted, runs, outcomes>>

-----------------------------------------------------------------------------
GatewayNext ==
  \/ \E r \in Requests :
       \/ Invoke(r) \/ Publish(r) \/ PublishFails(r)
       \/ Return(r) \/ ReturnCancelled(r) \/ Expire(r) \/ Disconnect(r)
       \/ AwaitCreate(r) \/ AwaitFails(r) \/ AwaitReceives(r) \/ AwaitTick(r)
  \/ GatewayCrash

StreamNext ==
  \/ \E r \in Requests : Redeliver(r) \/ RedeliverAnswer(r)
  \/ DeliveryLost
  \/ Discard

PodNext ==
  \E i \in Instances :
    \/ Poll(i) \/ PollRefused(i) \/ SetIdle(i) \/ NextFails(i)
    \/ Fetch(i) \/ NextTick(i) \/ Ack(i) \/ Deliver(i) \/ DeliverToNobody(i)
    \/ \E k \in AnswerKinds : HandlerReturns(i, k)
    \/ Record(i) \/ RecordFails(i) \/ PublishAnswer(i) \/ PublishAnswerFails(i)
    \/ FunctionExits(i) \/ ServerCrash(i)

Next == GatewayNext \/ StreamNext \/ PodNext

Spec == Init /\ [][Next]_vars

(***************************************************************************)
(* Fairness.  Goroutines of a live gateway are scheduled, NATS calls       *)
(* return (the client library times them out), timers fire and a fetch     *)
(* ends after nextTimeout.  A live pod keeps going and function handlers   *)
(* terminate; AckWait elapses.  Callers and faults are never obliged to    *)
(* act.                                                                    *)
(***************************************************************************)
GatewayFairness ==
  \A r \in Requests :
    /\ WF_vars(Publish(r))
    /\ WF_vars(AwaitCreate(r))
    /\ WF_vars(AwaitReceives(r))
    /\ WF_vars(AwaitTick(r))
    /\ WF_vars(Expire(r))
    /\ WF_vars(Return(r))

PodFairness ==
  \A i \in Instances :
    /\ WF_vars(Poll(i))
    /\ WF_vars(SetIdle(i))
    /\ WF_vars(Fetch(i))
    /\ WF_vars(NextTick(i))
    /\ WF_vars(Ack(i))
    /\ WF_vars(Deliver(i) \/ DeliverToNobody(i))
    /\ WF_vars(\E k \in AnswerKinds : HandlerReturns(i, k))
    /\ WF_vars(Record(i))
    /\ WF_vars(PublishAnswer(i))

StreamFairness == \A r \in Requests : WF_vars(Redeliver(r))

FairSpec == Spec /\ GatewayFairness /\ PodFairness /\ StreamFairness

-----------------------------------------------------------------------------
(* What holds of every behaviour, whatever fails.                          *)

(* The pods that hold an event of r they have not handed over yet.         *)
Holding(r) == {i \in Instances : srv[i] \in {"fetched", "acked"} /\ job[i] = r}

(* The handler of the function runs for one call at most once, plus once for
   every time the work queue took the event for unacknowledged: neither a
   lost acknowledgement nor two servers sharing the durable consumer run it
   more often.                                                             *)
ExecutionsBounded == \A r \in Requests : runs[r] <= 1 + redeliveries[r]

(* Invoke returns data, or ErrFunctionErrored, only when the handler really
   ended that way in a run for this very call: never with the answer of
   another call that waits on the same stream, never with one kind of answer
   for the other.                                                          *)
AnswerHonest ==
  \A r \in Requests : result[r] \in AnswerKinds => result[r] \in outcomes[r]

(* An event the stream has accepted is accounted for at every moment: it, or
   an answer to it, is stored; or a pod that acknowledged it works on it; or
   the call's goroutine has an answer that its process still holds, or Invoke
   has returned one; or one of the steps that drop a message (those that add
   to "lost") has dropped one of this call.                                *)
Stored(r) == \E m \in stream : m.req = r

WorkedOn(r) == \E i \in Instances : job[i] = r /\ srv[i] # "fetched"

Taken(r) == reply[r] \in AnswerKinds \/ result[r] \in AnswerKinds

Conserved ==
  \A r \in accepted :
    Stored(r) \/ WorkedOn(r) \/ Taken(r) \/ r \in lost

(* A call that was answered and whose event was never redelivered leaves
   nothing in the queue that could still be delivered: no second answer and
   no event to run again, at most messages whose acknowledgement was lost. *)
AnsweredLeavesNothing ==
  \A r \in Requests :
    (result[r] \in AnswerKinds /\ redeliveries[r] = 0) =>
      ~ \E m \in Deliverable : m.req = r

(* Exactly once: the handler of an answered call whose event was never
   redelivered has run once, and the answer is how that one run ended.     *)
AnsweredRanOnce ==
  \A r \in Requests :
    (result[r] \in AnswerKinds /\ redeliveries[r] = 0) =>
      runs[r] = 1 /\ outcomes[r] = {result[r]}

(* As long as no pod dies or loses its connections and the stream has room, no
   event is dropped: its handler runs to an end, whatever becomes of the
   gateway, its NATS operations and its client.  Only the answer can be, and
   only one nobody can be given any more: it was taken from the stream by the
   goroutine of a call that has been cancelled or that died with the gateway. *)
Healthy == Bound = Instances /\ Mortal = {} /\ "limits" \notin Faults

Held(r) == result[r] \in AnswerKinds \/ (InProgress(r) /\ reply[r] \in AnswerKinds)

CallerGone(r) == ctx[r] = "cancelled" \/ result[r] = "crashed"

HealthyLosesNothing ==
  Healthy =>
    \A r \in accepted :
      Stored(r) \/ WorkedOn(r) \/ Held(r) \/ (CallerGone(r) /\ outcomes[r] # {})

(* Answers that nobody takes stay in the work queue and count against its
   limits.  There are not more of them than the handler has run, and that is
   at most one and one for each redelivery: no answer is stored twice.     *)
Answers(r) == {m \in stream : m.req = r /\ m.subject \in AnswerKinds}

AnswersBounded == \A r \in Requests : Cardinality(Answers(r)) <= 1 + redeliveries[r]

(* Whoever waits has somebody to wait for: a call whose goroutine is gone has
   what that has sent, whether it found an answer or failed.  And a goroutine
   that nobody waits for any more has been told: it ends with its next fetch. *)
NobodyStranded ==
  \A r \in Requests :
    /\ InProgress(r) => reply[r] # "none" \/ waiter[r] \in {"creating", "fetching"}
    /\ invoker[r] = "done" /\ waiter[r] \in {"creating", "fetching"} => ctx[r] = "cancelled"

(* An event the stream accepted is handled to an end, unless one of its
   messages is dropped: a pod that dies before it acknowledged the event, or
   while it was not holding it, does not lose it.                          *)
ServedUnlessLost ==
  \A r \in Requests : r \in accepted ~> (outcomes[r] # {} \/ r \in lost)

(* The handlers of a server that serves a dead function come to an end: the
   fetch a NextHandler was in does not outlive the connection for ever.    *)
AbandonedHandlerEnds ==
  \A i \in Instances : fn[i] = "exited" ~> srv[i] \in {"none", "down"}

-----------------------------------------------------------------------------
(* What the source says and the code does not do.                          *)

(* core/interfaces.go, of PublishWaitResponseInput.Timeout: "Give up waiting
   after this duration".  Once the timeout has elapsed, no answer is taken. *)
GiveUpAfterTimeout ==
  [][\A r \in Requests :
       ctx[r] = "expired" => reply'[r] \in {reply[r], "failed"}]_vars

(* runtimeapi/server.go says of a function that asks for its next event that
   it is "connected, waiting for events": with no fault anywhere it is not
   turned away.                                                            *)
NobodyTurnedAway == \A i \in Instances : fn[i] # "exited"

=============================================================================
