---------------------- MODULE InvocationImplementsCall ----------------------
(***************************************************************************)
(* Invocation implements Call: the calls made are those that have entered  *)
(* PublishWaitResponse, the executions are the history of handler ends and *)
(* the returned value is that of Invoke.  Everything that happens in the   *)
(* stream and on the way of a message is a stuttering step of Call.        *)
(***************************************************************************)
EXTENDS Invocation

Called == {r \in Requests : invoker[r] # "new"}

C == INSTANCE Call WITH
       Calls <- Requests,
       Kinds <- AnswerKinds,
       Failures <- {"failed", "cancelled", "crashed"},
       Pending <- "none",
       called <- Called,
       executed <- outcomes,
       returned <- result

(* Invoke does what Call says: one return per call, and with an answer only
   after the function has ended that way for this call (Invoker.Invoke and
   PublishWaitResponse on one side, NextHandler and the SDK on the other). *)
ImplementsCall == C!Spec

(* Invoke returns whatever fails on its way: the publishing, the consumer, the
   fetches and the deliveries of answers, the client, the pods, the room of the
   stream.  Every way out of the awaitResponse goroutine sends something, and
   the timeout ends it, if only at the end of a fetch.                     *)
InvokeReturns == C!EveryCallReturns

=============================================================================
