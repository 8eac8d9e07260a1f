------------------------------- MODULE Gateway -------------------------------
(***************************************************************************)
(* The gateway beside the start command: a request for a function is       *)
(* resolved against the functions bucket (FunctionMiddleware), then its    *)
(* event is stored in the function's stream (InvokeHandler).  Runs of the  *)
(* start command register and deregister functions in between.             *)
(***************************************************************************)
EXTENDS Starter

VARIABLES
  stage,  (* of one request: "none", "resolved", "notFound"    *)
  asked   (* the function it is for, or Undefined              *)

gatewayVars == <<stage, asked>>
allVars == <<vars, gatewayVars>>

GatewayTypeOK ==
  /\ TypeOK
  /\ stage \in {"none", "resolved", "notFound"}
  /\ asked \in Functions \cup {Undefined}

GatewayInit == Init /\ stage = "none" /\ asked = Undefined

Answer(f, to) ==
  /\ stage = "none" /\ service["gateway"] = "running"
  /\ stage' = to
  /\ asked' = f
  /\ UNCHANGED vars

Found(f) == templates[f] # Undefined

(* FunctionMiddleware finds the function and hands it to InvokeHandler.    *)
Resolve(f) == Found(f) /\ Answer(f, "resolved")

(* Mutation: any error of FunctionsRepo.Get is answered with 404.          *)
NotFoundOnError(f) == Answer(f, "notFound")

(* 404.  (With 500, when the bucket cannot be read, and with 400, for a path
   without a function, nothing is remembered.)                             *)
NotFound(f) == ~ Found(f) /\ Answer(f, "notFound")

(* InvokeHandler has stored the event (Invocation has what follows) or has
   failed; or the client has its 404.                                      *)
Answered ==
  /\ stage # "none"
  /\ stage' = "none"
  /\ asked' = Undefined
  /\ UNCHANGED vars

GatewayNext ==
  \/ Next /\ UNCHANGED gatewayVars
  \/ \E f \in Functions : Resolve(f) \/ NotFound(f)
  \/ Answered

GatewaySpec == GatewayInit /\ [][GatewayNext]_allVars

-----------------------------------------------------------------------------
(* A request that has passed the middleware finds the function's stream to
   store its event in, though the function may have been deregistered, or
   replaced, since it was looked up.                                       *)
AcceptedHasStream == stage = "resolved" => asked \in streams

(* After a run that ended without an error and that no other overlapped, the
   gateway takes calls for the functions of its Fidfile and for no others,
   whatever runs before it have left in the bucket.                        *)
GatewayFollowsFidfile ==
  [][\A s \in Starters :
       finished[s] /\ alone[s] =>
         /\ stage # "resolved" /\ stage' = "resolved" => asked' \in Declared(file[s])
         /\ stage # "notFound" /\ stage' = "notFound" => asked' \notin Declared(file[s])]_allVars

=============================================================================
