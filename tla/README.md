# Verification of fid

fid is a small function-as-a-service system: a gateway takes HTTP calls, NATS
JetStream carries the calls to function containers and the answers back, NATS
key-value buckets hold what functions and instances there are, and Docker runs
the containers. This directory holds TLA+ models of it, the TLC runs that check
them, and TLAPS proofs. All paths are relative to the repository.

Contents: 1 the system, 2 the models, 3 the runs, 4 bounds, 5 fairness,
6 the proofs, 7 where code and texts disagree, 8 what is not modelled,
9 the plan.

## 1. The system

| Component | Source | State it keeps | Operations |
|---|---|---|---|
| Invoker, PubSuber | `internal/invocation/invoker.go`, `internal/pubsub/nats/pubsuber.go` | per call: the select, the awaitResponse goroutine, two contexts, one channel | Invoke, Publish, PublishWaitResponse, awaitResponse, Next, CreateOrUpdateFunctionStream, Subscribe |
| Gateway | `internal/gateway/server.go`, `internal/middlewares` | per request: the function it was resolved to | InvokeHandler, the function middleware |
| Runtime API server | `internal/runtimeapi/server.go`, `function_instance.go` | its function instance; per request a handler | Init, NextHandler, ResponseHandler, ErrorHandler, InitErrorHandler, Shutdown |
| Function SDK | `pkg/sdk/function.go` | the loop of Serve | fetchNextEvent, the handler, postResponse |
| JetStream (external) | as configured in `pubsuber.go` | a work-queue stream per function, one durable consumer per function, one ephemeral consumer per call | store, deliver, acknowledge, redeliver, discard |
| Instances repository | `internal/backends/docker/instances_repo.go` over `internal/kv/nats/bucket.go` | up to three records per instance: presence, idle, last executed | Add, SetBusy, SetLastExecuted, Get, List, Count, CountIdle, Delete |
| Functions repository | `internal/backends/docker/functions_repo.go` | one template per function | Upsert, Get, List, Delete |
| Function pods | `internal/backends/docker/pod.go`, `backend.go` | a network and two containers | Start, Stop, AddInstance, StopInstance |
| Services in Docker | `internal/backends/docker/backend.go` | the gateway's, info server's and scalers' containers | Register, Deregister, StartGateway, StartInfoServer |
| Start command | `internal/cli/start.go`, `internal/fidfile` | none that outlives it | Run |
| Scaler | `internal/scaler` | the function it read at Init | Init, Run (waits); rescaleToConfig and scaleUp have no caller |
| HTTP server | `internal/httpserver` | the listener; handlers in flight | RunServer, the recovery and error middleware |
| Info server, wiring, flags, demo | the rest | none of interest | |

How they interact. The gateway's handler calls `Invoker.Invoke`, which publishes
an event on the function's stream and waits, in a goroutine of its own, for a
message on the response or error subject of that call. A runtime API server and
a function container form a pod. The function polls its server; the server pulls
from the durable consumer that all servers of the function share, acknowledges
the event, and writes it to the function; the function posts the outcome and the
server publishes it. The server also writes the instance's records. The start
command creates the buckets and streams, starts the services and writes the
templates; gateway, scalers and runtime APIs read them.

What is hard, and what makes each part correct:

- **A call.** Steps of the caller, its goroutine, the stream and every pod
  interleave; acknowledgements are fire-and-forget; the event is acknowledged
  before it is handed over; the timeout races the answer. Correct means: a
  handler does not run more often than the queue explains; an answer belongs to
  the call that gets it and to a handler that ended that way; no accepted event
  disappears except in the steps known to drop one; every Invoke returns; nothing
  of an answered call is left to be run.
- **Instance records.** An instance is several keys, and only an operation on one
  key is atomic. Correct means: one of several Adds wins; what is read existed; a
  Delete leaves nothing; an existing instance is found.
- **A pod.** Five Docker calls, any of which may fail with or without effect, and
  a clean-up under the same context. Correct means: success is a whole pod;
  a failure leaves no running container; Stop's answer is true.
- **An instance's life.** The server registers it, its handlers write to its records,
  and Shutdown deletes them while handlers may still run: nobody waits for them. Any
  bucket operation may fail, the process may be killed. Correct means: a server that
  serves is counted; one that has shut down is not; what is left over has a reason.
- **Scaling.** What the scaler counts are records, which appear after a pod has
  started and vanish before it has ended. Correct means: pods exceed the minimum only
  by what the count could not see.
- **A start run.** Killed anywhere, run again, run twice, with another Fidfile.
  Correct means: no callable function without a stream; a finished run has
  brought the system to what its Fidfile says; nothing declared is taken away; the
  gateway, which reads what the runs leave, takes the calls it should.

`PROJECT.json` lists the hazards line by line, with the properties aimed at each
and the reason where there is none.

## 2. The models

| Module | Models |
|---|---|
| `Invocation` | a call end to end: gateway, stream, pods |
| `Call` | the abstract specification: what Invoke promises |
| `InvocationImplementsCall` | the refinement mapping from `Invocation` to `Call` |
| `InvocationProofs`, `InvocationAnswerProofs`, `InvocationLossProofs` | theorems about `Invocation` |
| `InstancesRepo` | the instance records and their concurrent users |
| `InstancesRepoProofs` | theorems about `InstancesRepo` |
| `RuntimeAPI` | runtime API servers from Init to Shutdown, over `InstancesRepo` |
| `Registry` | the abstract specification: which instances are counted |
| `RuntimeAPIProofs` | theorems about `RuntimeAPI`, with the refinement of `Registry` |
| `FunctionPod` | AddInstance and StopInstance, Docker call by Docker call |
| `Scaler` | rescaleToConfig over `FunctionPod`'s pods and `Registry`'s counts |
| `ScalerProofs` | theorems about `Scaler` and `FunctionPod` |
| `Starter` | start runs, and what they leave in NATS and Docker |
| `Gateway` | the gateway's requests beside the runs of `Starter` |
| `StarterProofs`, `GatewayProofs` | theorems about them |
| `MC*` | small constants for TLC, and symmetry |

Definitions commented "Mutation:" are no part of a model. Each one is a definition
with a plausible bug, and `PROJECT.json` says which definition it stands in for
and which property fails then: they show that the properties are able to fail.

### Invocation

- `invoker`, `waiter`, `ctx`, `reply`, `result`: per call, where
  PublishWaitResponse and its awaitResponse goroutine stand, whether the contexts
  are live, what the goroutine sent and what Invoke returned. A call is named by
  its request id (`uuid.NewString`), so it is made once. One variable stands for
  both contexts: "expired" is the derived one timing out, "cancelled" the request's
  own, which ends both.
- `stream`, `inflight`, `redeliveries`: the work queue, the messages some consumer
  was given and has not acknowledged, and how often AckWait has expired on an event.
- `fn`, `srv`, `job`, `run`: per pod, the SDK's loop, the server's handler and the
  event in hand. An instance that is dead stays dead: nothing restarts it.
- `accepted`, `runs`, `outcomes`, `lost` are history, written and never read by the
  code's steps (`run`, the number of a run, only tells two answers apart).

Each action is a call that returns, a goroutine's step between two blocking calls,
or a fault. A NATS call that fails is two outcomes where the code cannot tell them
apart: it had its effect or not. The error paths drop what the code drops and record
it in `lost`; `DropJob` is the list of these places: an acknowledged event
written to a dead connection, a function or server that dies while working on an
event, ResponseHandler failing before it publishes, and a publication that fails.
`Discard` is the stream's own limits. `GatewayCrash` drops the answers that only the dead
process had: a goroutine has acknowledged them and sent them to `replChan`, and no Invoke
will return them (`Unreturned`).

`Faults` says which kinds of fault a run has: "nats" (an operation of the gateway, or of a
pod in `Mortal`, fails, or the delivery of an answer is lost), "delivery" (the delivery of an
event is lost), "ack" (an acknowledgement is), "client" (it disconnects), "gateway" (it
crashes), "limits" (of the stream). A pod outside `Mortal` does not die and reaches NATS.

`Bound` is the set of pods whose server holds its function instance. In the code at
hand `Server.Init` never stores it, so what runs is `Bound = {}`: the run `unbound`
shows where that leads (section 7). With `Bound = {}` nothing past the first poll
happens, so the other runs give it all pods, which examines all the rest of the
handlers' code as it is written. Theorems hold for every `Bound`.

### Call

Three variables: the calls made, how the function ended for each, what each
returned. A call returns once, with an answer only if the function has ended that way
for this call, or with a failure of the system. `InvocationImplementsCall` maps
`called` to the calls that have left "new", `executed` to `outcomes`, `returned` to
`result`.

### InstancesRepo

`records` is the bucket: a set of [id, field] keys; values do not matter to any
property. Clients run Add, Get, List or Delete, one bucket operation a step; SetBusy
and SetLastExecuted are single bucket operations, so anybody may do them at any moment.
`Bucket.All` lists keys and then gets each; the listing is one step (a consumer on
the bucket as it is when the lister is created: an assumption on JetStream, whose lister hands
the keys out one by one). `Fail` is an error of any bucket
operation without effect, or the death of the client; with its effect, a Create or a Purge that
returns an error is the step and then `Fail`, and the Put that ends Add is `AddIdleUnheard`.
`Counted` and `CountedIdle` are what Count and
CountIdle read, each in one listing. The function's name and the layout of keys are
left out: a name with a dot, which parseKey would take apart wrongly, cannot get this far,
since the stream of such a function is refused.

### RuntimeAPI and Registry

`RuntimeAPI` instantiates `InstancesRepo` with the servers as its clients. `life` is the
process: Init, serving, and the way out in the order the code gives it: RunServer's
goroutine closes the listener with a context that is already cancelled, so it returns at
once; Shutdown deletes the instance; the NATS client's Shutdown closes the connection.
`request` is the function's one request, in its handler or between two handlers; its steps
go on after the listener is closed, until the process ends. `Bound` is as in `Invocation`:
an unbound server answers the first request with 500 and panics in Shutdown.
`ended`, `cut` and `late` are history: how a process ended, whose Add or Delete was cut
short, and which server was told to stop with a record still to be written.

pal, the library that runs the process, is outside `src/`. What is assumed of it is what the code
relies on: it calls Shutdown after Run has returned, the clients' last; a panic in
Shutdown ends the process. Nothing restarts a container.

`Registry` is what is left of this for somebody who counts: an instance is registered before
its server serves, withdrawn after the server has left for good, and by nobody else.
`Stage` and `Counted` are the refinement mapping.

### FunctionPod and Scaler

`FunctionPod` is about the pods of one function. `pc` walks through the calls of Start, of the deferred Stop, and of StopInstance.
Every Docker call succeeds, fails, or fails after having had its effect; once the
context has expired it fails without effect. Docker's own rules that matter are in
the actions: stopping a stopped container is fine, stopping a missing one is
NotFound, a network with running containers is not removed. AddInstance may also fail before
it asks anything of Docker, when the pod cannot be given its dependencies.

`Scaler` extends it by the loop of rescaleToConfig: `toCreate` is fixed by the count at its
start, pods are created one after the other, and the first error ends it. The
function's definition is read once, so `Min` is a constant. What is counted is
`Registry`'s `counted`: a pod's server takes a step of `Registry` only while its
container runs, which is all `Scaler` needs to know of `RuntimeAPI`. Nothing calls
rescaleToConfig at this commit; `MaxRounds` calls of it stand for the loop Run would be. A
count that fails, and one that shows enough or too many, change nothing.

### Starter

A run is a sequence of calls and may end before any of them (`Fail`: an error or a
kill). What survives a run: buckets, streams, templates, containers. `Files` are the
Fidfiles; a run reads one of them, so an edit between two runs is a different choice.
Several runs may be in progress. `-init-only` is `initOnly`. `alone` is
history: no other run has been in progress since this one began.

### Gateway

It extends `Starter` by one request: looked up in the functions bucket (`Resolve`,
`NotFound`), then answered, which for a resolved one includes that `Invoker.Invoke` stores
its event. Requests do not touch each other before that point, so one is enough; what
follows is `Invocation`.

## 3. The runs

| Run | Question | Result |
|---|---|---|
| `two_calls` | two calls, two pods, lost acks, gateway crashes, redelivery: do calls mix, is anything lost that need not be, does `Invocation` implement `Call`? | holds |
| `faults` | one call, two mortal pods, every fault, two redeliveries: is every loss accounted for, is anybody left waiting, do answers pile up? | holds |
| `liveness` | does Invoke return, is an accepted event served, do abandoned handlers end? | holds |
| `timeout` | is an answer refused once the timeout has elapsed? | violated |
| `unbound` | is a function that polls served when nothing fails? | violated |
| `instances` | concurrent Add, Get, List, Delete with failures: one winner, snapshots, clean deletes | holds |
| `instances_get` | is an existing instance always found? | violated |
| `servers` | servers start, serve, stop, fail and die: what records do they leave, and do they keep `Registry`? | holds |
| `pods` | every failure of every Docker call, in a scaler's loop: whole on success, clean on failure, not too many? | holds |
| `pod_stop` | does StopInstance stop the instance? | violated |
| `start` | reruns, crashes, overlaps, edited Fidfiles, with requests at the gateway: are streams and templates right? | holds |
| `start_rerun` | does a successful run mean that the services were started? | violated |

What the properties say beyond their names:

- `ExecutionsBounded`: runs of the handler for a call are at most one plus the
  redeliveries of its event. No other step of any process adds a run.
- `AnswerHonest`: the returned kind of answer is one this call's handler ended with.
- `Conserved`: at every moment an accepted event, or its answer, is somewhere, or one
  of the steps that drop messages has dropped one of this call's.
- `AnsweredLeavesNothing`: an answered call whose event was never redelivered leaves
  nothing deliverable. With a redelivery a second answer does stay in the queue, until
  the limits discard it: nobody ever consumes it (a hazard the run confirms).
- `AnsweredRanOnce`: exactly once, where that can be had: an answered call whose event was
  never redelivered ran its handler once, and the answer is how that run ended.
- `HealthyLosesNothing`: while the pods live and reach NATS and the stream is within its limits,
  no event is lost: not by lost acknowledgements or deliveries, timeouts, failing operations
  of the gateway or its crashes. An answer is lost only when nobody can be given it any more:
  its call's goroutine took it from the stream, and the client has left or the gateway has died
  before Invoke returned it.
- `AnswersBounded`: the answers to a call that lie in the stream are at most one plus the
  redeliveries of its event: what a dead caller leaves behind grows with nothing else.
- `NobodyStranded`: an Invoke that waits has a goroutine that has still to send, or
  something already sent; a goroutine whose Invoke has returned has a context that has ended.
- `ServedUnlessLost`, `InvokeReturns`, `AbandonedHandlerEnds`: under the fairness below.
- `OneWinner`: at most one Add has created the instance since its presence was last
  purged. `ReadsAreSnapshots`: a successful Get or List saw exactly the keys of its
  listing. `DeleteLeavesNothing`: unless something was put meanwhile.
- `StartedWhole`, `FailureCleansUp`, `StopTellsTheTruth`: of AddInstance, its clean-up
  (when the clean-up's own calls do not fail) and Stop's return value.
- `OvershootExplained`: pods alive or under way, plus those the loop has still to begin,
  are at most `Min` plus the live pods that the last creating count did not see
  (`missed`). A caller that waits for its pods to register before it counts again would have
  `missed = 0`, and so never more than `Min`; nothing in the code waits for that.
- `LeftoversExplained`: what still counts of a server whose process has ended by itself was
  left by a panic (an unbound server) or by a bucket operation of its Add or Delete that
  failed; counted idle, it may also be a late handler's record. An Init that fails before it
  registers leaves nothing. `CleanExitIsNotCounted`: after a Delete that succeeded the
  instance is not counted again; the ghosts that `late` handlers leave are idle and last
  executed records, never a presence. `GhostsExplained`: there are no other ghosts.
- `ShutdownFindsItsInstance`: Delete first lists the instance's records and fails if
  there are none; a server that has registered always finds some, and reads each of those
  it has listed, whatever a late handler writes meanwhile.
- `StoppedIsUncounted` (liveness): a server told to stop ceases to count although its
  NextHandler may wait for ever, unless it is unbound, killed or cannot delete.
- `ImplementsRegistry`: the refinement above; in particular nobody serves uncounted.
- `AcceptedHasStream`: a resolved request finds a stream, although the function may be
  deregistered meanwhile: Deregister leaves the stream. `GatewayFollowsFidfile`: after a
  clean run that was alone, functions of the Fidfile are taken and others get
  404, whatever was in the bucket before.
- `TemplateHasStream`: for any overlap of runs. `FinishedMeansDeclared`,
  `ScalerFindsItsFunction`, `DeclaredStaysAvailable`: for a run nobody overlaps,
  whatever earlier, possibly broken runs have left.
- `OnlyFailuresAbandon`: a container that is created and that no run is about to start
  was left by a run that failed at it, and stays as it is for ever. Overlapping runs
  alone never do this to each other: who finds the name taken relies on a run that is
  still to start the container. (That nobody repairs it is the run `start_rerun`.)

## 4. Bounds, and why they are enough

- Calls meet each other only on the stream, in pairs: one takes what is another's, or
  a pod holds one call's event while it takes another's. Two calls and two pods show
  every such pair, with `MaxRedeliveries = 1` (`two_calls`). To keep that run small the
  pods do not die there and clients stay; acknowledgements are lost and the gateway crashes;
  `faults` has one call and every fault, with two redeliveries, so that three consumers in a row may
  get the event while earlier ones still work on it or are dead.
- `MaxRedeliveries` is the only cap on a counter in `Invocation`. JetStream itself has
  no cap at this configuration; a behaviour with more redeliveries repeats the steps.
  The proofs have no such bound: they hold for every value.
- `InstancesRepo`: keys of different instances never meet except in List, which reads
  the keys independently of each other, so one instance with three records exercises
  every guard; two clients and the anonymous writers give every pair of operations.
- `RuntimeAPI`: two servers, one bound and one not. Servers share no record, so two show
  all there is to see between them.
  No counter is cut: a function may ask any number of times.
- `Scaler`: two pods, `Min = 1`, two calls of rescaleToConfig, so that the second may
  count before the first one's pod has registered, after it has failed or after it has
  left. The pods are symmetric. The theorem is for any `Min`, pods and rounds.
- `Starter`: two runs overlap; three Fidfiles let a function be added, removed,
  and redefined; two functions, so one is declared while the other is not.
  `start_rerun` needs one terminal and one file.

## 5. Fairness

Safety runs assume none. `liveness` uses `FairSpec`:

- `GatewayFairness`: weak fairness of each step of a call that does not wait for
  others. Goroutines are scheduled; NATS calls return because the client library bounds
  them; the timeout is a timer (`Expire`); a fetch ends after `nextTimeout`
  (`AwaitTick`). A delivered answer is received (`AwaitReceives`).
- `PodFairness`: the same for the SDK's loop and the handlers of the server, for pods
  that live. It includes that a function's handler terminates.
- `StreamFairness`: AckWait expires on an event that is not acknowledged, up to
  `MaxRedeliveries`. `liveness` has one pod that may die and one that does not, and every
  fault but "delivery", so that one redelivery is enough for an event to reach a live pod:
  failing publications, consumers and fetches of the gateway, lost deliveries of answers,
  disconnecting clients, crashes, and the NATS errors of the pod that may die.

Callers, clients that disconnect, crashes and every other fault are never obliged to
happen. `InvokeReturns` needs only the gateway's part; `ServedUnlessLost` needs the
pods' and the stream's.

`servers` uses `RuntimeAPI`'s `FairSpec`: weak fairness of `Stopping`, the steps of a server's
main goroutine after it was told to stop. None of them waits for a handler: that is the
hazard, and here it is what makes the property hold. Handlers, functions and signals are
not obliged to do anything.

## 6. The proofs

All theorems are of the specifications without fairness and hold for every value of
the constants that satisfies the named assumption of the module (`IsFiniteSet` of the
pods, "none" values being none of the set they extend, `Bound` being instances, numbers
being natural; nothing else). TLC evaluates these assumptions in the runs.

**`InvocationProofs`.** `TypeCorrect`: the type invariant and `PodOK`, which says that
a function between two requests has no handler running for it and that whoever
works on an event has one. `ExecutionsBoundedTheorem`: `ExecutionsBounded` is not
inductive, since a pod may be just about to start the handler. `BudgetInv` counts
what may still become a run: runs so far, plus pods that hold the event, plus one if
the event is still to be published or delivered, never exceed one plus the
redeliveries. Fetch moves one from the queue to a pod, Deliver from a pod to the runs, and only
Redeliver puts one back, which it pays for. `NotYetStored` keeps Publish from adding one.

**`InvocationAnswerProofs`.** `AnswerHonestTheorem`: `HonestInv` follows an answer
backwards, from the result to what the goroutine sent, to a message on the call's own
subjects, to the handler of the server that publishes it, to the end of the
function's handler. `ImplementsCallTheorem`: with `HonestInv` and `CalledInv` (what
is worked on has been called; an invoker has returned exactly when it has a result)
every step is one of `Call` or a stuttering step: Invoke is Begin, HandlerReturns is
Execute, PublishFails, Return and ReturnCancelled are Return, GatewayCrash is Crash.
`AnsweredLeavesNothingTheorem`: `OnePlace` says that a call whose event was never redelivered is
in one place: to be published, stored, in one pod's hands, an answer in the stream,
or in its caller's; so when it is with its caller it is nowhere else.
`ConservedTheorem`: `Conserved` needs `Sent` (a goroutine sends once) and `EmptyHands`
(a server fetches only when no event is in its pod's hands), without which a fetch or a
second send could overwrite the only trace of an event.

**`InvocationLossProofs`.** `HealthyLosesNothingTheorem`: in a healthy system no function
exits and no server goes down (`Whole`), so of the steps that write `lost` only GatewayCrash is
left. What that may drop is the answer of a handler whose caller is gone (`OnlyUnreturnable`),
because a call that is over with its caller still there has returned what its goroutine sent
(`Settled`), and who is gone stays gone (`GoneStaysGone`). What is not dropped is somewhere,
by `ConservedTheorem`.
`NobodyStrandedTheorem` is inductive with `Sent`. `AnswersBoundedTheorem`: counting
answers is not inductive, since two pods may be about to answer one call. `Numbered` says
that runs of a call have different numbers from 1 to `runs`, that each is with one
pod or has left at most one answer, and that a number given to one is given to no other;
so the answers inject into `1 .. runs[r]`, and `ExecutionsBoundedTheorem` bounds that.
`AnsweredRanOnceTheorem` uses the numbers again (`OneEnd`): while a call has run only once,
one pod at most can be at its handler, so only one outcome can have come of it.
`UnboundServesNobodyTheorem` and `UnboundAnswersNothingTheorem` say for every number of
pods and calls what the run `unbound` shows on one: with `Bound = {}`, which is the code as
it stands, no handler runs and no call is answered. `ReturnedOnceTheorem`, that a call's
result never changes, is proved of `Call` only and carried over by the refinement.

**`InstancesRepoProofs`.** `OneWinnerTheorem` from the types alone.
`ReadsAreSnapshotsTheorem` and `DeleteLeavesNothingTheorem` from `CallInv`: a reader has
read or has still to read what it listed, and a deleter to which nobody has written
has all records of the instance in what it listed, then in what it has still to purge.

**`RuntimeAPIProofs`.** One invariant, `Inv`, gives for each place of a process what is true of its
records: while registering, that there are none but those Add has written; while it serves,
the presence; while deleting, that what is left is either in what Delete
listed or was written by a late handler; after a clean end, that only late records are left. The
three safety theorems are consequences; `ImplementsRegistryTheorem` uses it to show that
Put and Purge of a presence record happen only in the stages where `Registry` allows it.
`ServingIsCountedTheorem` (who serves is counted) is proved of `Registry` and carried over.
`ShutdownFindsItsInstanceTheorem` needs more than `Inv`: while Delete reads, every key it has
listed and not yet read is still a record (`FoundInv`), because nobody but the server's own
Delete purges records of its instance; late handlers only add.
`UnboundStaysCountedTheorem` is the other side of that: an instance without a bound server
is deleted by nobody (`NeverDeletes`), so once counted it stays counted; with `Bound = {}`,
as the code stands, the scaler's count of a function never falls.

**`ScalerProofs`.** `PodInv` is what holds of a pod at each call of Start and Stop, for each
pod by itself (`Apart`: a pod that takes no part in a step keeps it); `StartedWhole`,
`FailureCleansUp` and `StopTellsTheTruth` follow. `OvershootExplained` is inductive with
`OneAtATime`: pods under way other than the loop's own there are none, so that a
pod becomes live only by being the loop's. Then it is arithmetic on cardinalities: ScaleUp
moves one from `toCreate` to the loop's pod, which is not live yet, and RescaleToConfig
resets both sides, as `Min - |counted|` plus the live ones is at most `Min` plus the live ones
not counted.
`BegunBoundedTheorem` assumes nothing of the counts: the pods ever begun, with those still to create, are
at most `Min` for each call of rescaleToConfig, however wrong the counts are.

**`GatewayProofs`.** The invariants of `StarterProofs` are kept by the gateway's own steps,
which change nothing of `Starter`; `AcceptedHasStream` needs that no step removes a
stream, `GatewayFollowsFidfile` that a finished run that was alone has left exactly its Fidfile's
templates (`RunInv`).

**`StarterProofs`.** `TemplateHasStreamTheorem` from `StreamsInv`: a run is past its loop
over the streams only with a stream for everything its Fidfile declares, and it registers
nothing else. The three theorems about a run that is alone come from `RunInv`: while a
run is alone, all others are off, so that every step is its own; and `Progress` says,
for each place in Run, what it has achieved whatever earlier runs have left.
`AloneListSucceedsTheorem`: such a run never fails in List on a key that has gone, as it
only deregisters when List is through. `OnlyFailuresAbandonTheorem` is about all runs: a
container leaves "none" only into the hands of the run that created it, so no second run
ever stands before its ContainerStart; a step away from there starts it or ends the run.
`SharedAvailableTheorem` and `SharedStaysAvailableTheorem` say what holds of runs that do
overlap, where `FinishedMeansDeclared` promises nothing: a function that every Fidfile in
use declares is complete (template, stream, scaler container) when any run ends without an
error, and nothing takes it away again. `SharedInv` follows each run through its
registration; `SharedKept`, that no step undoes it, needs that nobody's
deregistering loop holds a function its own Fidfile declares. It says nothing of the
Fidfiles of `MCStarter!ThreeFiles`, which share no function; of `TwoFiles`, `f1` is shared.

**Only model-checked:** the liveness properties `InvokeReturns`, `ServedUnlessLost`,
`AbandonedHandlerEnds` and `StoppedIsUncounted`, since fairness and leads-to are out of
the prover's reach; and the properties of section 7, which do not hold.

## 7. Where code and texts disagree

Each is a run whose property is what a text in the repository says, and TLC's
counterexample is what the code does.

1. `timeout`: "Give up waiting after this duration" (`internal/core/interfaces.go:23`).
   Next looks at its context only when a fetch ends empty, so an answer that comes up to
   `nextTimeout` late is acknowledged and returned.
2. `unbound`: `runtimeapi/server.go:46` builds a local instance and drops it. The first
   request for an event panics in NextHandler, the recovery middleware answers
   500, and the SDK takes that for fatal. The log line for the same request says
   "Function connected, waiting for events...".
3. `instances_get`: an instance that becomes busy between the listing and the reading of
   its idle record is reported as `ErrInstanceNotFound`; `instances_repo_test.go:154`
   expects it to be returned.
4. `pod_stop`: `Backend.StopInstance` makes a FunctionPod that was never given its
   container names, so neither container is stopped.
5. `start_rerun`: a name conflict is taken for a running service, so a container that an
   interrupted run has created but not started is never started, while Run
   reports success.

More were met on the way. By-products of properties that hold with a precondition: the clean-up of AddInstance runs under the context that made it fail, so after
an expiry it cannot remove anything (`FailureCleansUp` excludes clean-ups whose calls
fail); and two overlapping runs with different Fidfiles can start a scaler whose
template is gone (`ScalerFindsItsFunction` is about a run that nobody overlaps). Of the
texts: the scaler "scales the function's instances up if all instances are
busy" (`internal/cli/scaler.go:15`), but Run only waits, nothing calls CountIdle, and nothing marks
an instance busy: one that executes a request counts as idle; "if missing - does not expose any ports" (`Fidfile.yaml:5`), but StartGateway
always exposes one; the handlers for `/functions` and `/backend` of the info server go on
and answer 200 after an error (`internal/infoserver/server.go:41`, `:50`). These involve no
behaviour over time and have no run.

## 8. What is not modelled

- Payloads, headers, HTTP wording, logging, metrics of the info server.
- The order in which stream limits discard messages (any message may go), and
  consumers' InactiveThreshold: a live call's consumer is being pulled from.
- Key formats in the instance bucket (section 2 says why dots do not matter).
- Subscribe: it has no caller; its Stop races the consumer's callback.
- InitErrorHandler of the runtime API, which panics with "not implemented" and changes
  nothing, and the SDK's own /health and /invoke endpoints.
- Info server, flags, wiring, the demo: no state of their own.
- What happens to running containers when a definition changes: nothing in the code
  does, and nothing says what should.
- External facts (JetStream, Docker, pal) are taken from how the code configures and
  calls them; those definitions are marked external in `PROJECT.json`.

## 9. The plan

Done: `Invocation` first, as the behaviour everything else serves; `Call` and the
refinement; `InstancesRepo`, `FunctionPod`, `Starter`; then the compositions `RuntimeAPI`
with `Registry`, `Scaler`, `Gateway`; their runs; theorems for all safety properties
of the passing runs. Next, in this order:

1. `StreamLimits`: DiscardOld on MaxMsgs, and how answers nobody consumes push out
   events; refines `Discard`.
2. `Subscription`: channel, callback and Stop, once something calls Subscribe.
3. That `Invocation`'s pods are `RuntimeAPI`'s servers: a mapping of `srv` and `fn` to
   `request`, so that handing out an event and marking the instance are one system.
4. A larger run of `Scaler` (`Min = 2`, three pods), if its states can be cut down.
