---------------------------- MODULE GatewayProofs ----------------------------
(***************************************************************************)
(* Theorems about Gateway, for every set of terminals, functions and       *)
(* Fidfiles.  They rest on what StarterProofs proves of the start command. *)
(***************************************************************************)
EXTENDS Gateway, StarterProofs

-----------------------------------------------------------------------------
(* The gateway only reads: to the start command it is not there.           *)
LEMMA GatewayStutters == [GatewayNext]_allVars => [Next]_vars
BY DEF GatewayNext, Resolve, NotFound, Answer, Answered, allVars, vars

LEMMA GatewayInitIsInit == GatewayInit => Init
BY DEF GatewayInit

(* Streams are created, and updated, never deleted.                        *)
LEMMA StreamsStay == [Next]_vars => streams \subseteq streams'
BY DEF Next, vars, nats, Begin, CreateBucket, ParseFile, CreateOrUpdateStream,
       StreamsDone, CreateGateway, StartGateway, CreateInfoServer, NoInfoServer,
       StartInfoServer, CreateService, StartService, RegisterFunctions, Upsert, List,
       ReadTemplate, TemplateMissing, ReadDone, Deregister, Finish, Fail, CreateScaler,
       StartScaler

(* A request that passes FunctionMiddleware finds the stream of its function
   when InvokeHandler publishes its event, however many runs of the start
   command redefine or deregister the function in between.                 *)
THEOREM AcceptedHasStreamTheorem == GatewaySpec => []AcceptedHasStream
<1> DEFINE Inv == TemplateInv /\ AcceptedHasStream /\ asked \in Functions \cup {Undefined}
<1>1. GatewayInit => Inv
  BY InitTemplateInv DEF GatewayInit, AcceptedHasStream
<1>2. Inv /\ [GatewayNext]_allVars => Inv'
  <2> SUFFICES ASSUME Inv, [GatewayNext]_allVars PROVE Inv'
    OBVIOUS
  <2>1. TemplateInv' /\ streams \subseteq streams'
    BY GatewayStutters, StepTemplateInv, StreamsStay
  <2>2. CASE UNCHANGED gatewayVars
    BY <2>1, <2>2 DEF gatewayVars, AcceptedHasStream
  <2>3. ASSUME NEW f \in Functions, Resolve(f) PROVE Inv'
    BY <2>1, <2>3 DEF Resolve, Found, Answer, TemplateInv, TemplateHasStream, AcceptedHasStream
  <2>4. ASSUME NEW f \in Functions, NotFound(f) PROVE Inv'
    BY <2>1, <2>4 DEF NotFound, Answer, AcceptedHasStream
  <2>5. CASE Answered
    BY <2>1, <2>5 DEF Answered, AcceptedHasStream
  <2> QED BY <2>2, <2>3, <2>4, <2>5 DEF GatewayNext, allVars
<1>3. Inv => AcceptedHasStream
  OBVIOUS
<1> QED BY <1>1, <1>2, <1>3, PTL DEF GatewaySpec

(* After a run that nobody overlapped and that returned no error, the gateway
   resolves the functions of its Fidfile and answers 404 for the others.   *)
THEOREM GatewayFollowsFidfileTheorem == GatewaySpec => GatewayFollowsFidfile
<1> DEFINE Follows ==
      \A s \in Starters :
        finished[s] /\ alone[s] =>
          /\ stage # "resolved" /\ stage' = "resolved" => asked' \in Declared(file[s])
          /\ stage # "notFound" /\ stage' = "notFound" => asked' \notin Declared(file[s])
<1>1. GatewayInit => RunInv
  BY GatewayInitIsInit, InitRunInv
<1>2. RunInv /\ [GatewayNext]_allVars => RunInv'
  BY GatewayStutters, StepRunInv
<1>3. RunInv /\ [GatewayNext]_allVars => [Follows]_allVars
  <2> SUFFICES ASSUME RunInv, [GatewayNext]_allVars, NEW s \in Starters,
                      finished[s], alone[s], stage' # stage
               PROVE  /\ stage' = "resolved" => asked' \in Declared(file[s])
                      /\ stage' = "notFound" => asked' \notin Declared(file[s])
    OBVIOUS
  <2>1. ASSUME NEW f \in Functions
        PROVE  templates[f] = IF f \in Declared(file[s]) THEN file[s].functions[f] ELSE Undefined
    BY DEF RunInv, FinishedMeansDeclared
  <2>2. ASSUME NEW f \in Functions, Resolve(f) PROVE f \in Declared(file[s])
    BY <2>1, <2>2 DEF Resolve, Found
  <2>3. ASSUME NEW f \in Functions, NotFound(f) PROVE f \notin Declared(file[s])
    <3>1. templates[f] = Undefined
      BY <2>3 DEF NotFound, Found
    <3>2. file[s] \in Files
      BY DEF RunInv, FinishedInv
    <3> QED BY <2>1, <3>1, <3>2, StarterAssumption
  <2> QED BY <2>2, <2>3 DEF GatewayNext, allVars, gatewayVars, Resolve, NotFound, Answer, Answered
<1> QED BY <1>1, <1>2, <1>3, PTL DEF GatewaySpec, GatewayFollowsFidfile

-----------------------------------------------------------------------------
(* The types that the theorems above do without.                           *)
RestTyped ==
  /\ initOnly \in [Starters -> BOOLEAN]
  /\ buckets \subseteq Buckets
  /\ streams \subseteq Functions
  /\ alone \in [Starters -> BOOLEAN]

LEMMA StepRestTyped == TemplateInv /\ RestTyped /\ [Next]_vars => RestTyped'
<1> SUFFICES ASSUME TemplateInv, RestTyped, [Next]_vars PROVE RestTyped'
  OBVIOUS
<1>1. CASE UNCHANGED <<initOnly, buckets, streams, alone>>
  BY <1>1 DEF RestTyped
<1>2. ASSUME NEW s \in Starters, Begin(s) PROVE RestTyped'
  BY <1>2 DEF Begin, RestTyped, nats
<1>3. ASSUME NEW s \in Starters,
             \/ CreateBucket(s, "instances", "instancesBucket", "functionsBucket")
             \/ CreateBucket(s, "functions", "functionsBucket", "parse")
      PROVE  RestTyped'
  BY <1>3 DEF CreateBucket, RestTyped, Buckets, local, history
<1>4. ASSUME NEW s \in Starters, CreateOrUpdateStream(s) PROVE RestTyped'
  BY <1>4 DEF CreateOrUpdateStream, RestTyped, TemplateInv, Typed, history
<1>5. ASSUME NEW s \in Starters, NEW ok \in BOOLEAN, Exit(s, ok), UNCHANGED <<buckets, streams>>
      PROVE  RestTyped'
  BY <1>5 DEF Exit, RestTyped
<1> QED
  BY <1>1, <1>2, <1>3, <1>4, <1>5
     DEF Next, vars, nats, local, history, Goto, ParseFile, StreamsDone, CreateService,
         StartService, CreateGateway, StartGateway, CreateInfoServer, NoInfoServer,
         StartInfoServer, RegisterFunctions, Upsert, List, ReadTemplate, TemplateMissing,
         ReadDone, Deregister, Finish, Fail, CreateScaler, StartScaler

(* Every variable of the start command, its servers and the gateway keeps its
   type.                                                                   *)
THEOREM GatewayTypeOKTheorem == GatewaySpec => []GatewayTypeOK
<1> DEFINE Inv == /\ RunInv /\ RestTyped
                  /\ stage \in {"none", "resolved", "notFound"}
                  /\ asked \in Functions \cup {Undefined}
<1>1. GatewayInit => Inv
  BY InitRunInv DEF GatewayInit, Init, RestTyped, Buckets
<1>2. Inv /\ [GatewayNext]_allVars => Inv'
  <2> SUFFICES ASSUME Inv, [GatewayNext]_allVars PROVE Inv'
    OBVIOUS
  <2>1. RunInv' /\ RestTyped'
    BY GatewayStutters, StepRunInv, StepRestTyped DEF RunInv
  <2>2. stage' \in {"none", "resolved", "notFound"} /\ asked' \in Functions \cup {Undefined}
    BY DEF GatewayNext, allVars, gatewayVars, Resolve, NotFound, Answer, Answered
  <2> QED BY <2>1, <2>2
<1>3. Inv => GatewayTypeOK
  BY DEF RunInv, TemplateInv, Typed, FinishedInv, DockerTyped, RestTyped, TypeOK, GatewayTypeOK
<1> QED BY <1>1, <1>2, <1>3, PTL DEF GatewaySpec

=============================================================================
