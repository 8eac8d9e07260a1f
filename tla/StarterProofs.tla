---------------------------- MODULE StarterProofs ----------------------------
(***************************************************************************)
(* Theorems about Starter, for every set of terminals, functions and       *)
(* Fidfiles.                                                               *)
(***************************************************************************)
EXTENDS Starter, TLAPS

-----------------------------------------------------------------------------
(* The places of a run behind the loop that creates the streams.           *)
PastStreams ==
  {"createGateway", "startGateway", "createInfoServer", "startInfoServer",
   "registerFunctions", "register", "createScaler", "startScaler", "read",
   "deregister"}

FileRead == PastStreams \cup {"streams"}

(* What is needed of the types.                                            *)
Typed ==
  /\ pc \in [Starters -> Points]
  /\ file \in [Starters -> Files \cup {Undefined}]
  /\ todo \in [Starters -> SUBSET Functions]
  /\ listed \in [Starters -> SUBSET Functions]
  /\ current \in [Starters -> Functions \cup {Undefined}]
  /\ templates \in [Functions -> Definitions \cup {Undefined}]

(* A run past that loop has read a Fidfile all of whose functions have
   streams; in the loop, those it has left behind have; and what it is still
   to register are functions of its Fidfile.                               *)
StreamsInv ==
  \A s \in Starters :
    /\ pc[s] \in FileRead => file[s] \in Files
    /\ pc[s] = "streams" => Declared(file[s]) \ todo[s] \subseteq streams
    /\ pc[s] \in PastStreams => Declared(file[s]) \subseteq streams
    /\ pc[s] \in {"register", "createScaler", "startScaler"}
         => todo[s] \subseteq Declared(file[s])

(* TemplateHasStream alone is not inductive: Upsert registers a function
   because the run has left the loop that created the streams.             *)
TemplateInv == Typed /\ StreamsInv /\ TemplateHasStream

LEMMA InitTemplateInv == Init => TemplateInv
BY DEF Init, TemplateInv, Typed, StreamsInv, TemplateHasStream, PastStreams, FileRead, Points

(* A run that ends.                                                        *)
LEMMA ExitTemplateInv ==
  ASSUME TemplateInv, NEW s \in Starters, NEW ok \in BOOLEAN, Exit(s, ok),
         UNCHANGED <<nats, docker>>
  PROVE  TemplateInv'
BY DEF TemplateInv, Typed, StreamsInv, TemplateHasStream, PastStreams, FileRead, Points,
       Exit, nats, docker

LEMMA StepTemplateInv == TemplateInv /\ [Next]_vars => TemplateInv'
<1> SUFFICES ASSUME TemplateInv, [Next]_vars PROVE TemplateInv'
  OBVIOUS
<1> USE DEF TemplateInv, Typed, StreamsInv, TemplateHasStream, PastStreams, FileRead, Points
<1>1. ASSUME NEW s \in Starters, Begin(s) PROVE TemplateInv'
  BY <1>1 DEF Begin, Goto, nats, docker
<1>2. ASSUME NEW s \in Starters, NEW b \in Buckets, NEW from,
             NEW to \in {"functionsBucket", "parse"}, CreateBucket(s, b, from, to)
      PROVE  TemplateInv'
  BY <1>2 DEF CreateBucket, Goto, local
<1>3. ASSUME NEW s \in Starters, ParseFile(s) PROVE TemplateInv'
  BY <1>3, StarterAssumption DEF ParseFile, Goto, nats
<1>4. ASSUME NEW s \in Starters, CreateOrUpdateStream(s) PROVE TemplateInv'
  BY <1>4 DEF CreateOrUpdateStream
<1>5. ASSUME NEW s \in Starters, StreamsDone(s) PROVE TemplateInv'
  BY <1>5, ExitTemplateInv DEF StreamsDone, Goto, local, nats
<1>6. ASSUME NEW s \in Starters,
             CreateGateway(s) \/ StartGateway(s) \/ CreateInfoServer(s)
               \/ NoInfoServer(s) \/ StartInfoServer(s)
      PROVE  TemplateInv'
  BY <1>6 DEF CreateGateway, StartGateway, CreateInfoServer, NoInfoServer,
              StartInfoServer, CreateService, StartService, Goto, local, nats
<1>7. ASSUME NEW s \in Starters, RegisterFunctions(s) PROVE TemplateInv'
  BY <1>7, StarterAssumption DEF RegisterFunctions, Goto, nats
<1>8. ASSUME NEW s \in Starters, Upsert(s) PROVE TemplateInv'
  <2>1. PICK f \in todo[s] :
          /\ templates' = [templates EXCEPT ![f] = file[s].functions[f]]
          /\ todo' = [todo EXCEPT ![s] = @ \ {f}]
    BY <1>8 DEF Upsert
  <2>2. /\ f \in Functions /\ f \in streams
        /\ file[s].functions[f] \in Definitions
    BY <1>8, <2>1 DEF Upsert, Goto, Declared, Definitions
  <2> QED BY <1>8, <2>1, <2>2 DEF Upsert, Goto
<1>9. ASSUME NEW s \in Starters, CreateScaler(s) \/ StartScaler(s) PROVE TemplateInv'
  BY <1>9 DEF CreateScaler, StartScaler, Goto, local, nats
<1>10. ASSUME NEW s \in Starters, List(s) \/ ReadTemplate(s) \/ ReadDone(s)
       PROVE  TemplateInv'
  <2>1. CASE List(s)
    BY <2>1 DEF List, Goto, nats
  <2>2. CASE ReadTemplate(s)
    BY <2>2 DEF ReadTemplate, nats
  <2>3. CASE ReadDone(s)
    BY <2>3 DEF ReadDone, Goto, nats
  <2> QED BY <1>10, <2>1, <2>2, <2>3
<1>11. ASSUME NEW s \in Starters, Deregister(s) PROVE TemplateInv'
  BY <1>11 DEF Deregister
<1>12. ASSUME NEW s \in Starters, TemplateMissing(s) \/ Finish(s) \/ Fail(s)
       PROVE  TemplateInv'
  BY <1>12, ExitTemplateInv DEF TemplateMissing, Finish, Fail
<1>13. CASE UNCHANGED vars
  BY <1>13 DEF vars, local, nats
<1> QED
  BY <1>1, <1>2, <1>3, <1>4, <1>5, <1>6, <1>7, <1>8, <1>9, <1>10, <1>11, <1>12, <1>13
     DEF Next, Buckets

(* No function that can be called lacks its stream, for any number of runs
   of "fid start", any Fidfiles, and whatever fails (Starter.Run,
   createOrUpdateFunctionStreams before registerFunctions).                *)
THEOREM TemplateHasStreamTheorem == Spec => []TemplateHasStream
<1>1. Init => TemplateInv
  BY InitTemplateInv
<1>2. TemplateInv /\ [Next]_vars => TemplateInv'
  BY StepTemplateInv
<1>3. TemplateInv => TemplateHasStream
  BY DEF TemplateInv
<1> QED BY <1>1, <1>2, <1>3, PTL DEF Spec

-----------------------------------------------------------------------------
(* A run that no other overlaps.                                           *)

AfterGateway == PastStreams \ {"createGateway"}

AfterServices ==
  {"registerFunctions", "register", "createScaler", "startScaler", "read", "deregister"}

Registering == {"register", "createScaler", "startScaler"}

(* The template of f is the one that s has read.                           *)
Stored(s, f) == templates[f] = file[s].functions[f]

(* What a run has done, by the place it has reached.                       *)
Serving(s) ==
  /\ pc[s] \in AfterGateway => service["gateway"] # "none"
  /\ pc[s] \in AfterServices /\ file[s].infoServer => service["infoserver"] # "none"

Registered(s) ==
  /\ pc[s] \in Registering =>
       \A f \in Declared(file[s]) \ todo[s] :
         /\ Stored(s, f)
         /\ scaler[f] # "none" \/ (pc[s] = "createScaler" /\ f = current[s])
  /\ pc[s] \in {"createScaler", "startScaler"} =>
       current[s] \in Declared(file[s]) \ todo[s]
  /\ pc[s] \in {"read", "deregister"} =>
       \A f \in Declared(file[s]) : Stored(s, f) /\ scaler[f] # "none"

Deregistering(s) ==
  /\ pc[s] = "read" =>
       \A f \in Functions : templates[f] # Undefined => f \in listed[s] \cup todo[s]
  /\ pc[s] = "deregister" =>
       /\ todo[s] \cap Declared(file[s]) = {}
       /\ \A f \in Functions \ Declared(file[s]) : templates[f] # Undefined => f \in todo[s]

Progress(s) == Serving(s) /\ Registered(s) /\ Deregistering(s)

(* As long as a run is alone, no step but its own, or a Begin that ends its
   being alone, is taken; and its own steps lead to what it reports.       *)
Solo(s) == \A t \in Starters \ {s} : pc[t] = "off"

FinishedInv ==
  /\ finished \in [Starters -> BOOLEAN]
  /\ \A s \in Starters : finished[s] => pc[s] = "off"
  /\ \A s \in Starters : finished[s] /\ alone[s] => file[s] \in Files

DockerTyped ==
  /\ service \in [Services -> ContainerStates]
  /\ scaler \in [Functions -> ContainerStates]

LEMMA StepDockerTyped == DockerTyped /\ [Next]_vars => DockerTyped'
<1> SUFFICES ASSUME DockerTyped, [Next]_vars PROVE DockerTyped'
  OBVIOUS
<1>1. CASE UNCHANGED docker
  BY <1>1 DEF DockerTyped, docker
<1>2. ASSUME NEW s \in Starters, NEW c \in Services, NEW p, NEW q, NEW r,
             CreateService(s, c, p, q, r) \/ StartService(s, c, p, q)
      PROVE  DockerTyped'
  BY <1>2 DEF CreateService, StartService, DockerTyped, ContainerStates
<1>3. ASSUME NEW s \in Starters, CreateScaler(s) \/ StartScaler(s) PROVE DockerTyped'
  BY <1>3 DEF CreateScaler, StartScaler, DockerTyped, ContainerStates
<1>4. ASSUME NEW s \in Starters,
             CreateGateway(s) \/ StartGateway(s) \/ CreateInfoServer(s) \/ StartInfoServer(s)
      PROVE  DockerTyped'
  BY <1>2, <1>4 DEF CreateGateway, StartGateway, CreateInfoServer, StartInfoServer, Services
<1> QED
  BY <1>1, <1>3, <1>4
     DEF Next, vars, Begin, CreateBucket, ParseFile, CreateOrUpdateStream, StreamsDone,
         NoInfoServer, RegisterFunctions, Upsert, List, ReadTemplate, TemplateMissing,
         ReadDone, Deregister, Finish, Fail

RunInv ==
  /\ TemplateInv
  /\ DockerTyped
  /\ FinishedInv
  /\ FinishedMeansDeclared
  /\ \A s \in Starters : alone[s] => Solo(s) /\ Progress(s)

LEMMA InitRunInv == Init => RunInv
BY InitTemplateInv
   DEF Init, RunInv, FinishedInv, FinishedMeansDeclared, DockerTyped, ContainerStates

(* A step of a run that is in progress: nobody else is alone, and nobody who
   is alone has finished.                                                  *)
LEMMA OwnStep ==
  ASSUME RunInv, TemplateInv', DockerTyped', NEW s \in Starters, pc[s] # "off",
         UNCHANGED history, \A t \in Starters \ {s} : pc'[t] = pc[t],
         Progress(s) => Progress(s)'
  PROVE  RunInv'
<1>1. /\ \A t \in Starters : alone[t] => t = s
      /\ ~ finished[s]
  BY DEF RunInv, FinishedInv, Solo
<1>2. alone' = alone /\ finished' = finished
  BY DEF history
<1>3. FinishedInv' /\ FinishedMeansDeclared'
  BY <1>1, <1>2 DEF RunInv, FinishedInv, FinishedMeansDeclared
<1>4. \A t \in Starters : alone'[t] => Solo(t)' /\ Progress(t)'
  BY <1>1, <1>2 DEF RunInv, Solo
<1> QED BY <1>3, <1>4 DEF RunInv

(* A run that ends, with or without an error.                              *)
LEMMA ExitStep ==
  ASSUME RunInv, TemplateInv', DockerTyped', NEW s \in Starters, pc[s] # "off", NEW ok \in BOOLEAN,
         Exit(s, ok), UNCHANGED <<nats, docker>>,
         ok => initOnly[s] \/ (pc[s] = "deregister" /\ todo[s] = {})
  PROVE  RunInv'
<1>1. /\ \A t \in Starters : alone[t] => t = s
      /\ alone' = alone
      /\ pc' = [pc EXCEPT ![s] = "off"]
  BY DEF RunInv, Solo, Exit
<1>2. /\ finished' \in [Starters -> BOOLEAN]
      /\ \A t \in Starters \ {s} : finished'[t] = finished[t] /\ file'[t] = file[t]
      /\ finished'[s] => ok /\ ~ initOnly[s]
  <2>1. (ok /\ ~ initOnly[s]) \in BOOLEAN
    OBVIOUS
  <2>2. finished' = [finished EXCEPT ![s] = ok /\ ~ initOnly[s]]
    BY DEF Exit
  <2>3. finished \in [Starters -> BOOLEAN]
    BY DEF RunInv, FinishedInv
  <2>4. \A t \in Starters \ {s} : file'[t] = file[t]
    BY DEF Exit, RunInv, TemplateInv, Typed
  <2> QED BY <2>1, <2>2, <2>3, <2>4, Zenon
<1>3. FinishedInv'
  BY <1>1, <1>2 DEF RunInv, FinishedInv, TemplateInv, Typed, StreamsInv, FileRead,
                    PastStreams, Exit
<1>4. FinishedMeansDeclared'
  BY <1>1, <1>2, <1>3
     DEF RunInv, FinishedInv, FinishedMeansDeclared, TemplateInv, Typed, StreamsInv,
         FileRead, PastStreams, Exit, nats, docker, Progress, Serving, Registered,
         Deregistering, Stored, AfterGateway, AfterServices
<1>5. \A t \in Starters : alone'[t] => Solo(t)' /\ Progress(t)'
  BY <1>1 DEF RunInv, Solo, TemplateInv, Typed, Progress, Serving, Registered,
              Deregistering, AfterGateway, AfterServices, Registering, PastStreams
<1> QED BY <1>3, <1>4, <1>5 DEF RunInv

(* A run that begins is alone only if nobody else runs, and has done nothing. *)
LEMMA BeginStep ==
  ASSUME RunInv, TemplateInv', DockerTyped', NEW s \in Starters, Begin(s)
  PROVE  RunInv'
<1>1. /\ finished' = [t \in Starters |-> FALSE]
      /\ alone' = [t \in Starters |-> t = s /\ \A u \in Starters : pc[u] = "off"]
      /\ pc' = [pc EXCEPT ![s] = "instancesBucket"]
  BY DEF Begin, Goto
<1>2. FinishedInv' /\ FinishedMeansDeclared'
  BY <1>1 DEF FinishedInv, FinishedMeansDeclared
<1>3. ASSUME NEW t \in Starters, alone'[t] PROVE Solo(t)' /\ Progress(t)'
  BY <1>1, <1>3 DEF RunInv, TemplateInv, Typed, Solo, Progress, Serving, Registered,
     Deregistering, AfterGateway, AfterServices, Registering, PastStreams
<1> QED BY <1>2, <1>3 DEF RunInv

(* The steps before a run registers functions.                             *)
LEMMA EarlyProgress ==
  ASSUME RunInv, NEW s \in Starters,
         \/ CreateBucket(s, "instances", "instancesBucket", "functionsBucket")
         \/ CreateBucket(s, "functions", "functionsBucket", "parse")
         \/ ParseFile(s) \/ CreateOrUpdateStream(s) \/ Goto(s, "streams", "createGateway")
         \/ CreateGateway(s) \/ StartGateway(s) \/ CreateInfoServer(s)
         \/ NoInfoServer(s) \/ StartInfoServer(s) \/ RegisterFunctions(s)
  PROVE  Progress(s) => Progress(s)'
<1> USE DEF RunInv, TemplateInv, Typed, Progress, Serving, Registered, Deregistering,
            AfterGateway, AfterServices, Registering, PastStreams, Goto
<1>1. CASE \/ CreateBucket(s, "instances", "instancesBucket", "functionsBucket")
           \/ CreateBucket(s, "functions", "functionsBucket", "parse")
           \/ ParseFile(s) \/ CreateOrUpdateStream(s) \/ Goto(s, "streams", "createGateway")
  BY <1>1 DEF CreateBucket, ParseFile, CreateOrUpdateStream
<1>2. CASE CreateGateway(s) \/ StartGateway(s)
  BY <1>2 DEF CreateGateway, StartGateway, CreateService, StartService, local,
              Services, DockerTyped
<1>3. CASE CreateInfoServer(s)
  BY <1>3 DEF CreateInfoServer, CreateService, local, Services, DockerTyped
<1>4. CASE StartInfoServer(s)
  BY <1>4 DEF StartInfoServer, StartService, local, Services, DockerTyped
<1>5. CASE NoInfoServer(s)
  BY <1>5 DEF NoInfoServer, local, docker
<1>6. CASE RegisterFunctions(s)
  BY <1>6 DEF RegisterFunctions, docker
<1> QED BY <1>1, <1>2, <1>3, <1>4, <1>5, <1>6

(* The steps of registering and deregistering.                             *)
LEMMA LateProgress ==
  ASSUME RunInv, NEW s \in Starters,
         \/ Upsert(s) \/ CreateScaler(s) \/ StartScaler(s)
         \/ List(s) \/ ReadTemplate(s) \/ ReadDone(s) \/ Deregister(s)
  PROVE  Progress(s) => Progress(s)'
<1> USE DEF RunInv, TemplateInv, Typed, Progress, Serving, Registered, Deregistering,
            AfterGateway, AfterServices, Registering, PastStreams, Goto, Stored
<1>1. CASE Upsert(s)
  <2>1. PICK f \in todo[s] :
          /\ templates' = [templates EXCEPT ![f] = file[s].functions[f]]
          /\ todo' = [todo EXCEPT ![s] = @ \ {f}]
          /\ current' = [current EXCEPT ![s] = f]
    BY <1>1 DEF Upsert
  <2> QED BY <1>1, <2>1 DEF Upsert, docker, StreamsInv
<1>2. CASE CreateScaler(s)
  <2>1. CASE scaler[current[s]] = "none"
    <3>1. pc[s] = "createScaler" /\ Declared(file[s]) \subseteq Functions
      BY <1>2, StarterAssumption DEF CreateScaler, StreamsInv, FileRead
    <3>2. /\ pc' = [pc EXCEPT ![s] = "startScaler"]
          /\ scaler' = [scaler EXCEPT ![current[s]] = "created"]
          /\ UNCHANGED <<file, todo, current, templates, service>>
      BY <1>2, <2>1 DEF CreateScaler, local, nats
    <3> QED BY <3>1, <3>2 DEF DockerTyped
  <2>2. CASE scaler[current[s]] # "none"
    BY <1>2, <2>2 DEF CreateScaler, DockerTyped, local, nats
  <2> QED BY <2>1, <2>2
<1>3. CASE StartScaler(s)
  BY <1>3 DEF StartScaler, DockerTyped, local, nats
<1>4. CASE List(s)
  BY <1>4 DEF List, docker, nats
<1>5. CASE ReadTemplate(s)
  BY <1>5 DEF ReadTemplate, docker, nats
<1>6. CASE ReadDone(s)
  BY <1>6 DEF ReadDone, docker, nats
<1>7. CASE Deregister(s)
  BY <1>7 DEF Deregister, docker
<1> QED BY <1>1, <1>2, <1>3, <1>4, <1>5, <1>6, <1>7

LEMMA StepRunInv == RunInv /\ [Next]_vars => RunInv'
<1> SUFFICES ASSUME RunInv, [Next]_vars PROVE RunInv'
  OBVIOUS
<1>1. TemplateInv' /\ DockerTyped'
  BY StepTemplateInv, StepDockerTyped DEF RunInv
<1>2. ASSUME NEW s \in Starters, Begin(s) PROVE RunInv'
  BY <1>1, <1>2, BeginStep
<1>3. ASSUME NEW s \in Starters,
             \/ CreateBucket(s, "instances", "instancesBucket", "functionsBucket")
             \/ CreateBucket(s, "functions", "functionsBucket", "parse")
             \/ ParseFile(s) \/ CreateOrUpdateStream(s)
             \/ CreateGateway(s) \/ StartGateway(s) \/ CreateInfoServer(s)
             \/ NoInfoServer(s) \/ StartInfoServer(s) \/ RegisterFunctions(s)
      PROVE  RunInv'
  <2>1. pc[s] # "off" /\ UNCHANGED history /\ \A t \in Starters \ {s} : pc'[t] = pc[t]
    BY <1>3 DEF CreateBucket, ParseFile, CreateOrUpdateStream, CreateGateway, StartGateway,
       CreateInfoServer, NoInfoServer, StartInfoServer, RegisterFunctions, CreateService,
       StartService, Goto, RunInv, TemplateInv, Typed
  <2> QED BY <1>1, <1>3, <2>1, EarlyProgress, OwnStep
<1>4. ASSUME NEW s \in Starters, StreamsDone(s) PROVE RunInv'
  <2>1. CASE initOnly[s] /\ Exit(s, TRUE)
    BY <1>1, <1>4, <2>1, ExitStep DEF StreamsDone
  <2>2. CASE Goto(s, "streams", "createGateway") /\ UNCHANGED <<local, history>>
    <3>1. pc[s] # "off" /\ \A t \in Starters \ {s} : pc'[t] = pc[t]
      BY <2>2 DEF Goto, RunInv, TemplateInv, Typed
    <3> QED BY <1>1, <2>2, <3>1, EarlyProgress, OwnStep
  <2> QED BY <1>4, <2>1, <2>2 DEF StreamsDone
<1>5. ASSUME NEW s \in Starters,
             \/ Upsert(s) \/ CreateScaler(s) \/ StartScaler(s)
             \/ List(s) \/ ReadTemplate(s) \/ ReadDone(s) \/ Deregister(s)
      PROVE  RunInv'
  <2>1. pc[s] # "off" /\ UNCHANGED history /\ \A t \in Starters \ {s} : pc'[t] = pc[t]
    BY <1>5 DEF Upsert, CreateScaler, StartScaler, List, ReadTemplate, ReadDone,
       Deregister, Goto, RunInv, TemplateInv, Typed
  <2> QED BY <1>1, <1>5, <2>1, LateProgress, OwnStep
<1>6. ASSUME NEW s \in Starters, TemplateMissing(s) \/ Finish(s) \/ Fail(s) PROVE RunInv'
  <2>1. /\ pc[s] # "off" /\ UNCHANGED <<nats, docker>>
        /\ \/ Exit(s, FALSE)
           \/ Exit(s, TRUE) /\ pc[s] = "deregister" /\ todo[s] = {}
    BY <1>6 DEF TemplateMissing, Finish, Fail
  <2> QED BY <1>1, <2>1, ExitStep
<1>7. CASE UNCHANGED vars
  BY <1>1, <1>7
     DEF vars, local, nats, docker, history, RunInv, FinishedInv, FinishedMeansDeclared,
         Solo, Progress, Serving, Registered, Deregistering, Stored
<1> QED BY <1>2, <1>3, <1>4, <1>5, <1>6, <1>7 DEF Next

(* A run of "fid start" that returns no error, and that no other run
   overlapped, leaves exactly what its Fidfile says, for any Fidfiles, any
   number of terminals and whatever earlier runs have left (Starter.Run,
   registerFunctions).                                                     *)
THEOREM FinishedMeansDeclaredTheorem == Spec => []FinishedMeansDeclared
<1>1. Init => RunInv
  BY InitRunInv
<1>2. RunInv /\ [Next]_vars => RunInv'
  BY StepRunInv
<1>3. RunInv => FinishedMeansDeclared
  BY DEF RunInv
<1> QED BY <1>1, <1>2, <1>3, PTL DEF Spec

(* While a run is alone, every step of the system is its own.              *)
LEMMA OnlyOwn ==
  ASSUME RunInv, NEW s \in Starters, alone[s], NEW t \in Starters, pc[t] # "off"
  PROVE  t = s
BY DEF RunInv, Solo

(* No scaler of a run that is alone is started without its template
   (Backend.Register: Upsert before createScaler; Scaler.Init).            *)
THEOREM ScalerFindsItsFunctionTheorem == Spec => ScalerFindsItsFunction
<1> DEFINE Finds ==
      \A s \in Starters, f \in Functions :
        (alone[s] /\ scaler[f] # "running" /\ scaler'[f] = "running")
          => templates[f] # Undefined
<1>1. Init => RunInv
  BY InitRunInv
<1>2. RunInv /\ [Next]_vars => RunInv'
  BY StepRunInv
<1>3. RunInv /\ [Next]_vars => [Finds]_vars
  <2> SUFFICES ASSUME RunInv, [Next]_vars, NEW s \in Starters, NEW f \in Functions,
                      alone[s], scaler[f] # "running", scaler'[f] = "running"
               PROVE  templates[f] # Undefined
    OBVIOUS
  <2>1. PICK t \in Starters : StartScaler(t)
    <3>1. scaler' # scaler
      OBVIOUS
    <3>2. ASSUME NEW t \in Starters, CreateScaler(t) PROVE FALSE
      BY <3>2 DEF CreateScaler, RunInv, DockerTyped
    <3> QED BY <3>1, <3>2
      DEF Next, vars, docker, Begin, CreateBucket, ParseFile, CreateOrUpdateStream,
          StreamsDone, CreateGateway, StartGateway, CreateInfoServer, NoInfoServer,
          StartInfoServer, CreateService, StartService, RegisterFunctions, Upsert, List,
          ReadTemplate, TemplateMissing, ReadDone, Deregister, Finish, Fail
  <2>2. t = s /\ pc[s] = "startScaler"
    BY <2>1, OnlyOwn DEF StartScaler, Goto
  <2>3. f = current[s]
    BY <2>1, <2>2 DEF StartScaler, RunInv, DockerTyped
  <2>4. f \in Declared(file[s]) /\ Stored(s, f) /\ file[s] \in Files
    BY <2>2, <2>3 DEF RunInv, Progress, Registered, Registering, TemplateInv, StreamsInv,
                      FileRead, PastStreams
  <2> QED BY <2>4, StarterAssumption DEF Stored
<1> QED BY <1>1, <1>2, <1>3, PTL DEF Spec, ScalerFindsItsFunction

(* A run that is alone takes away no function its Fidfile declares
   (registerFunctions deregisters what List finds and the file lacks).     *)
THEOREM DeclaredStaysAvailableTheorem == Spec => DeclaredStaysAvailable
<1> DEFINE Stays ==
      \A s \in Starters, f \in Functions :
        (alone[s] /\ file[s] # Undefined /\ templates[f] # Undefined
           /\ f \in Declared(file[s]))
          => templates'[f] # Undefined
<1>1. Init => RunInv
  BY InitRunInv
<1>2. RunInv /\ [Next]_vars => RunInv'
  BY StepRunInv
<1>3. RunInv /\ [Next]_vars => [Stays]_vars
  <2> SUFFICES ASSUME RunInv, [Next]_vars, NEW s \in Starters, NEW f \in Functions,
                      alone[s], templates[f] # Undefined, f \in Declared(file[s])
               PROVE  templates'[f] # Undefined
    OBVIOUS
  <2>1. CASE UNCHANGED templates
    BY <2>1
  <2>2. ASSUME NEW t \in Starters, Upsert(t) PROVE templates'[f] # Undefined
    <3>1. PICK g \in todo[t] : templates' = [templates EXCEPT ![g] = file[t].functions[g]]
      BY <2>2 DEF Upsert
    <3>2. g \in Declared(file[t]) /\ file[t] \in Files
      BY <2>2, <3>1 DEF Upsert, Goto, RunInv, TemplateInv, StreamsInv, FileRead, PastStreams
    <3> QED BY <3>1, <3>2, StarterAssumption DEF RunInv, TemplateInv, Typed
  <2>3. ASSUME NEW t \in Starters, Deregister(t) PROVE templates'[f] # Undefined
    <3>1. t = s /\ pc[s] = "deregister"
      BY <2>3, OnlyOwn DEF Deregister
    <3>2. f \notin todo[s]
      BY <3>1 DEF RunInv, Progress, Deregistering
    <3> QED BY <2>3, <3>1, <3>2 DEF Deregister, RunInv, TemplateInv, Typed
  <2> QED BY <2>1, <2>2, <2>3
      DEF Next, vars, nats, Begin, CreateBucket, ParseFile, CreateOrUpdateStream,
          StreamsDone, CreateGateway, StartGateway, CreateInfoServer, NoInfoServer,
          StartInfoServer, CreateService, StartService, RegisterFunctions, CreateScaler,
          StartScaler, List, ReadTemplate, TemplateMissing, ReadDone, Finish, Fail
<1> QED BY <1>1, <1>2, <1>3, PTL DEF Spec, DeclaredStaysAvailable

-----------------------------------------------------------------------------
(* Containers that are created and not started.                            *)

ServiceStep(c) ==
  IF ServiceAbandoned(c) THEN ServiceAbandoned(c)'
  ELSE ServiceAbandoned(c)' => \E s \in Starters : StartsService(s, c) /\ pc'[s] = "off"

ScalerStep(f) ==
  IF ScalerAbandoned(f) THEN ScalerAbandoned(f)'
  ELSE ScalerAbandoned(f)' => \E s \in Starters : StartsScaler(s, f) /\ pc'[s] = "off"

ServiceStarts == {"startGateway", "startInfoServer"}

(* A run that goes from one call to another, neither of which starts a
   service, and a run that ends, wherever it is.                           *)
LEMMA ServiceUntouched ==
  ASSUME Typed, NEW s \in Starters, NEW to, pc' = [pc EXCEPT ![s] = to],
         UNCHANGED service, to = "off" \/ (pc[s] \notin ServiceStarts /\ to \notin ServiceStarts)
  PROVE  \A c \in Services : ServiceStep(c)
BY DEF Typed, ServiceStep, ServiceAbandoned, StartsService, ServiceStarts, Services

LEMMA ScalerUntouched ==
  ASSUME Typed, NEW s \in Starters, NEW to, pc' = [pc EXCEPT ![s] = to],
         UNCHANGED scaler, \A t \in Starters \ {s} : current'[t] = current[t],
         to = "off" \/ (pc[s] # "startScaler" /\ to # "startScaler")
  PROVE  \A f \in Functions : ScalerStep(f)
BY DEF Typed, ScalerStep, ScalerAbandoned, StartsScaler

(* A service is only ever created by the run that then starts it.          *)
LEMMA CreateServiceKeeps ==
  ASSUME Typed, DockerTyped, NEW s \in Starters, NEW c \in Services, NEW from, NEW after,
         NEW started \in ServiceStarts, from \notin ServiceStarts, after \notin ServiceStarts,
         (c = "gateway") = (started = "startGateway"),
         CreateService(s, c, from, started, after)
  PROVE  \A d \in Services : ServiceStep(d)
<1>1. CASE service[c] = "none"
  <2>1. /\ pc[s] = from /\ pc' = [pc EXCEPT ![s] = started]
        /\ service' = [service EXCEPT ![c] = "created"]
    BY <1>1 DEF CreateService, Goto
  <2> SUFFICES ASSUME NEW d \in Services PROVE ServiceStep(d)
    OBVIOUS
  <2>2. CASE d = c
    <3>1. StartsService(s, c)' /\ ~ ServiceAbandoned(c) /\ ~ ServiceAbandoned(c)'
      BY <1>1, <2>1 DEF Typed, StartsService, ServiceAbandoned, ServiceStarts, Services
    <3> QED BY <2>2, <3>1 DEF ServiceStep
  <2>3. CASE d # c
    <3>1. service'[d] = service[d]
      BY <2>1, <2>3 DEF DockerTyped
    <3>2. \A t \in Starters : StartsService(t, d)' <=> StartsService(t, d)
      BY <2>1, <2>3 DEF Typed, StartsService, ServiceStarts, Services
    <3> QED BY <3>1, <3>2 DEF ServiceStep, ServiceAbandoned
  <2> QED BY <2>2, <2>3
<1>2. CASE service[c] # "none"
  BY <1>2, ServiceUntouched DEF CreateService, Goto
<1> QED BY <1>1, <1>2

LEMMA StartServiceKeeps ==
  ASSUME Typed, DockerTyped, NEW s \in Starters, NEW c \in Services, NEW from, NEW after,
         from = (IF c = "gateway" THEN "startGateway" ELSE "startInfoServer"),
         after \notin ServiceStarts, StartService(s, c, from, after)
  PROVE  \A d \in Services : ServiceStep(d)
<1>1. /\ pc[s] = from /\ pc' = [pc EXCEPT ![s] = after]
      /\ service' = [service EXCEPT ![c] = "running"]
  BY DEF StartService, Goto
<1> SUFFICES ASSUME NEW d \in Services PROVE ServiceStep(d)
  OBVIOUS
<1>2. CASE d = c
  <2>1. ~ ServiceAbandoned(c) /\ ~ ServiceAbandoned(c)'
    BY <1>1 DEF DockerTyped, ServiceAbandoned, StartsService
  <2> QED BY <1>2, <2>1 DEF ServiceStep
<1>3. CASE d # c
  <2>1. service'[d] = service[d]
    BY <1>1, <1>3 DEF DockerTyped
  <2>2. \A t \in Starters : StartsService(t, d)' <=> StartsService(t, d)
    BY <1>1, <1>3 DEF Typed, StartsService, ServiceStarts, Services
  <2> QED BY <2>1, <2>2 DEF ServiceStep, ServiceAbandoned
<1> QED BY <1>2, <1>3

LEMMA CreateScalerKeeps ==
  ASSUME Typed, DockerTyped, NEW s \in Starters, CreateScaler(s)
  PROVE  \A f \in Functions : ScalerStep(f)
<1> SUFFICES ASSUME NEW f \in Functions PROVE ScalerStep(f)
  OBVIOUS
<1>1. CASE scaler[current[s]] = "none"
  <2>1. /\ pc[s] = "createScaler" /\ pc' = [pc EXCEPT ![s] = "startScaler"]
        /\ scaler' = [scaler EXCEPT ![current[s]] = "created"]
        /\ current' = current
    BY <1>1 DEF CreateScaler, Goto, local
  <2>2. CASE f = current[s]
    <3>1. StartsScaler(s, f)' /\ ~ ScalerAbandoned(f) /\ ~ ScalerAbandoned(f)'
      BY <1>1, <2>1, <2>2 DEF Typed, StartsScaler, ScalerAbandoned
    <3> QED BY <3>1 DEF ScalerStep
  <2>3. CASE f # current[s]
    <3>1. scaler'[f] = scaler[f]
      BY <2>1, <2>3 DEF DockerTyped
    <3>2. \A t \in Starters : StartsScaler(t, f)' <=> StartsScaler(t, f)
      BY <2>1, <2>3 DEF Typed, StartsScaler
    <3> QED BY <3>1, <3>2 DEF ScalerStep, ScalerAbandoned
  <2> QED BY <2>2, <2>3
<1>2. CASE scaler[current[s]] # "none"
  BY <1>2, ScalerUntouched DEF CreateScaler, Goto, local
<1> QED BY <1>1, <1>2

LEMMA StartScalerKeeps ==
  ASSUME Typed, DockerTyped, NEW s \in Starters, StartScaler(s)
  PROVE  \A f \in Functions : ScalerStep(f)
<1>1. /\ pc[s] = "startScaler" /\ pc' = [pc EXCEPT ![s] = "register"]
      /\ scaler' = [scaler EXCEPT ![current[s]] = "running"]
      /\ current' = current
  BY DEF StartScaler, Goto, local
<1> SUFFICES ASSUME NEW f \in Functions PROVE ScalerStep(f)
  OBVIOUS
<1>2. CASE f = current[s]
  <2>1. StartsScaler(s, f) /\ ~ ScalerAbandoned(f) /\ ~ ScalerAbandoned(f)'
    BY <1>1, <1>2 DEF DockerTyped, StartsScaler, ScalerAbandoned
  <2> QED BY <2>1 DEF ScalerStep
<1>3. CASE f # current[s]
  <2>1. scaler'[f] = scaler[f]
    BY <1>1, <1>3 DEF DockerTyped
  <2>2. \A t \in Starters : StartsScaler(t, f)' <=> StartsScaler(t, f)
    BY <1>1, <1>3 DEF Typed, StartsScaler
  <2> QED BY <2>1, <2>2 DEF ScalerStep, ScalerAbandoned
<1> QED BY <1>2, <1>3

(* The steps that leave every container as it is.                          *)
LEMMA OtherStepsKeep ==
  ASSUME Typed, NEW s \in Starters,
         \/ Begin(s)
         \/ CreateBucket(s, "instances", "instancesBucket", "functionsBucket")
         \/ CreateBucket(s, "functions", "functionsBucket", "parse")
         \/ ParseFile(s) \/ CreateOrUpdateStream(s) \/ StreamsDone(s) \/ NoInfoServer(s)
         \/ RegisterFunctions(s) \/ Upsert(s) \/ List(s) \/ ReadTemplate(s)
         \/ TemplateMissing(s) \/ ReadDone(s) \/ Deregister(s) \/ Finish(s) \/ Fail(s)
  PROVE  /\ \A c \in Services : ServiceStep(c)
         /\ \A f \in Functions : ScalerStep(f)
<1>1. UNCHANGED <<service, scaler>> /\ \A t \in Starters \ {s} : current'[t] = current[t]
  BY DEF Typed, Begin, CreateBucket, ParseFile, CreateOrUpdateStream, StreamsDone,
     NoInfoServer, RegisterFunctions, Upsert, List, ReadTemplate, TemplateMissing,
     ReadDone, Deregister, Finish, Fail, Exit, local, docker
<1>2. CASE \E to : /\ pc' = [pc EXCEPT ![s] = to]
                   /\ \/ to = "off"
                      \/ /\ pc[s] \notin ServiceStarts \cup {"startScaler"}
                         /\ to \notin ServiceStarts \cup {"startScaler"}
  BY <1>1, <1>2, ServiceUntouched, ScalerUntouched
<1>3. CASE UNCHANGED pc /\ pc[s] \in {"streams", "read", "deregister"}
  <2>1. pc' = [pc EXCEPT ![s] = pc[s]] /\ pc[s] \notin ServiceStarts \cup {"startScaler"}
    BY <1>3 DEF Typed, ServiceStarts
  <2> QED BY <1>1, <2>1, ServiceUntouched, ScalerUntouched
<1>4. CASE \/ Begin(s)
           \/ CreateBucket(s, "instances", "instancesBucket", "functionsBucket")
           \/ CreateBucket(s, "functions", "functionsBucket", "parse")
           \/ ParseFile(s) \/ NoInfoServer(s) \/ RegisterFunctions(s) \/ List(s) \/ ReadDone(s)
  BY <1>2, <1>4 DEF Begin, CreateBucket, ParseFile, NoInfoServer, RegisterFunctions, List,
                    ReadDone, Goto, ServiceStarts
<1>5. CASE Upsert(s)
  <2>1. pc[s] = "register" /\ pc' = [pc EXCEPT ![s] = "createScaler"]
    BY <1>5 DEF Upsert, Goto
  <2>2. pc[s] \notin ServiceStarts /\ "createScaler" \notin ServiceStarts
    BY <2>1 DEF ServiceStarts
  <2> QED BY <1>1, <2>1, <2>2, ServiceUntouched, ScalerUntouched
<1>6. CASE StreamsDone(s) \/ TemplateMissing(s) \/ Finish(s) \/ Fail(s)
  BY <1>2, <1>6 DEF StreamsDone, TemplateMissing, Finish, Fail, Exit, Goto, ServiceStarts
<1>7. CASE CreateOrUpdateStream(s) \/ ReadTemplate(s) \/ Deregister(s)
  BY <1>3, <1>7 DEF CreateOrUpdateStream, ReadTemplate, Deregister
<1> QED BY <1>4, <1>5, <1>6, <1>7

(* A container that stays created and not started is what a run that failed at
   it has left, and stays so, for any number of terminals and any Fidfiles
   (Backend.createContainer takes a name conflict for a container that runs). *)
THEOREM OnlyFailuresAbandonTheorem == Spec => OnlyFailuresAbandon
<1>1. Init => RunInv
  BY InitRunInv
<1>2. RunInv /\ [Next]_vars => RunInv'
  BY StepRunInv
<1>3. RunInv /\ [Next]_vars =>
        [/\ \A c \in Services : ServiceStep(c)
         /\ \A f \in Functions : ScalerStep(f)]_vars
  <2> SUFFICES ASSUME RunInv, Next
               PROVE  /\ \A c \in Services : ServiceStep(c)
                      /\ \A f \in Functions : ScalerStep(f)
    OBVIOUS
  <2>1. Typed /\ DockerTyped
    BY DEF RunInv, TemplateInv
  <2>2. ASSUME NEW s \in Starters,
               CreateGateway(s) \/ StartGateway(s) \/ CreateInfoServer(s) \/ StartInfoServer(s)
        PROVE  /\ \A c \in Services : ServiceStep(c)
               /\ \A f \in Functions : ScalerStep(f)
    <3>1. \A c \in Services : ServiceStep(c)
      <4>1. CASE CreateGateway(s)
        BY <2>1, <4>1, CreateServiceKeeps DEF CreateGateway, Services, ServiceStarts
      <4>2. CASE CreateInfoServer(s)
        BY <2>1, <4>2, CreateServiceKeeps DEF CreateInfoServer, Services, ServiceStarts
      <4>3. CASE StartGateway(s)
        BY <2>1, <4>3, StartServiceKeeps DEF StartGateway, Services, ServiceStarts
      <4>4. CASE StartInfoServer(s)
        BY <2>1, <4>4, StartServiceKeeps DEF StartInfoServer, Services, ServiceStarts
      <4> QED BY <2>2, <4>1, <4>2, <4>3, <4>4
    <3>2. UNCHANGED <<scaler, current>>
      BY <2>2 DEF CreateGateway, StartGateway, CreateInfoServer, StartInfoServer,
                  CreateService, StartService, local
    <3>3. \E to : /\ pc' = [pc EXCEPT ![s] = to]
                  /\ pc[s] # "startScaler" /\ to # "startScaler"
      BY <2>2 DEF CreateGateway, StartGateway, CreateInfoServer, StartInfoServer,
                  CreateService, StartService, Goto
    <3> QED BY <2>1, <3>1, <3>2, <3>3, ScalerUntouched
  <2>3. ASSUME NEW s \in Starters, CreateScaler(s) \/ StartScaler(s)
        PROVE  /\ \A c \in Services : ServiceStep(c)
               /\ \A f \in Functions : ScalerStep(f)
    <3>1. UNCHANGED service
      BY <2>3 DEF CreateScaler, StartScaler
    <3>2. \E to : /\ pc' = [pc EXCEPT ![s] = to]
                  /\ pc[s] \notin ServiceStarts /\ to \notin ServiceStarts
      BY <2>3 DEF CreateScaler, StartScaler, Goto, ServiceStarts
    <3> QED BY <2>1, <2>3, <3>1, <3>2, ServiceUntouched, CreateScalerKeeps, StartScalerKeeps
  <2> QED BY <2>1, <2>2, <2>3, OtherStepsKeep DEF Next
<1> QED BY <1>1, <1>2, <1>3, PTL DEF Spec, OnlyFailuresAbandon, ServiceStep, ScalerStep

-----------------------------------------------------------------------------
(* A run that no other overlaps never fails because List finds a key gone: it
   is the only one that deregisters, and it does so when List is through.  *)
AloneListSucceeds ==
  \A s \in Starters :
    alone[s] /\ pc[s] = "read" => \A f \in todo[s] : templates[f] # Undefined

LEMMA InitAloneListSucceeds == Init => AloneListSucceeds
BY DEF Init, AloneListSucceeds

LEMMA StepAloneListSucceeds ==
  RunInv /\ AloneListSucceeds /\ [Next]_vars => AloneListSucceeds'
<1> SUFFICES ASSUME RunInv, AloneListSucceeds, [Next]_vars, NEW s \in Starters,
                    alone'[s], pc'[s] = "read", NEW f \in todo'[s]
             PROVE  templates'[f] # Undefined
  BY DEF AloneListSucceeds
<1> USE DEF RunInv, TemplateInv, Typed
<1>1. ASSUME NEW t \in Starters, Begin(t) PROVE FALSE
  BY <1>1 DEF Begin, Goto, Solo
<1>2. alone' = alone
  BY <1>1 DEF Next, vars, history, CreateBucket, ParseFile, CreateOrUpdateStream,
     StreamsDone, CreateGateway, StartGateway, CreateInfoServer, NoInfoServer,
     StartInfoServer, CreateService, StartService, RegisterFunctions, Upsert, CreateScaler,
     StartScaler, List, ReadTemplate, TemplateMissing, ReadDone, Deregister, Finish, Fail, Exit
<1>3. ASSUME NEW t \in Starters, List(t) PROVE templates'[f] # Undefined
  <2>1. t = s
    BY <1>2, <1>3, OnlyOwn DEF List, Goto
  <2> QED BY <1>3, <2>1 DEF List, nats
<1>4. ASSUME NEW t \in Starters, ReadTemplate(t) PROVE templates'[f] # Undefined
  <2>1. t = s
    BY <1>2, <1>4, OnlyOwn DEF ReadTemplate
  <2> QED BY <1>2, <1>4, <2>1 DEF ReadTemplate, nats, AloneListSucceeds
<1>5. ASSUME NEW t \in Starters,
             \/ CreateBucket(t, "instances", "instancesBucket", "functionsBucket")
             \/ CreateBucket(t, "functions", "functionsBucket", "parse")
             \/ ParseFile(t) \/ CreateOrUpdateStream(t) \/ StreamsDone(t)
             \/ CreateGateway(t) \/ StartGateway(t)
             \/ CreateInfoServer(t) \/ NoInfoServer(t) \/ StartInfoServer(t)
             \/ RegisterFunctions(t) \/ Upsert(t) \/ CreateScaler(t) \/ StartScaler(t)
             \/ TemplateMissing(t) \/ ReadDone(t)
             \/ Deregister(t) \/ Finish(t) \/ Fail(t)
      PROVE  FALSE
  <2>1. pc[t] # "off"
    BY <1>5 DEF CreateBucket, ParseFile, CreateOrUpdateStream,
       StreamsDone, CreateGateway, StartGateway, CreateInfoServer, NoInfoServer,
       StartInfoServer, CreateService, StartService, RegisterFunctions, Upsert, CreateScaler,
       StartScaler, TemplateMissing, ReadDone, Deregister, Finish, Fail, Goto
  <2>2. t = s
    BY <1>2, <2>1, OnlyOwn
  <2>3. pc'[t] # "read"
    BY <1>5 DEF CreateBucket, ParseFile, CreateOrUpdateStream,
       StreamsDone, CreateGateway, StartGateway, CreateInfoServer, NoInfoServer,
       StartInfoServer, CreateService, StartService, RegisterFunctions, Upsert, CreateScaler,
       StartScaler, TemplateMissing, ReadDone, Deregister, Finish, Fail, Goto, Exit
  <2> QED BY <2>2, <2>3
<1>6. CASE UNCHANGED vars
  BY <1>2, <1>6 DEF vars, local, nats, AloneListSucceeds
<1> QED BY <1>1, <1>3, <1>4, <1>5, <1>6 DEF Next

(* FunctionsRepo.List gets the keys it listed one by one and fails at the first
   that is gone: for a run that no other overlaps, none is, for any Fidfiles
   and whatever earlier runs have left.                                    *)
THEOREM AloneListSucceedsTheorem == Spec => []AloneListSucceeds
<1>1. Init => RunInv /\ AloneListSucceeds
  BY InitRunInv, InitAloneListSucceeds
<1>2. RunInv /\ AloneListSucceeds /\ [Next]_vars => RunInv' /\ AloneListSucceeds'
  BY StepRunInv, StepAloneListSucceeds
<1> QED BY <1>1, <1>2, PTL DEF Spec

-----------------------------------------------------------------------------
(* Runs may overlap, with different Fidfiles.  A function that every Fidfile
   declares is out of the reach of their deregistering.                    *)
Shared == {f \in Functions : \A x \in Files : f \in Declared(x)}

InPlace(f) == templates[f] # Undefined /\ scaler[f] # "none"

Available(f) == InPlace(f) /\ f \in streams

SharedAvailable ==
  \A s \in Starters : finished[s] => \A f \in Shared : Available(f)

SharedStaysAvailable == [][\A f \in Shared : Available(f) => Available(f)']_vars

(* What a run has done for these functions, whatever the others do.        *)
SharedDone(s) ==
  /\ pc[s] \in Registering =>
       \A f \in Shared \ todo[s] :
         /\ templates[f] # Undefined
         /\ scaler[f] # "none" \/ (pc[s] = "createScaler" /\ f = current[s])
  /\ pc[s] \in {"read", "deregister"} => \A f \in Shared : InPlace(f)
  /\ pc[s] = "deregister" => todo[s] \cap Shared = {}
  /\ finished[s] => \A f \in Shared : InPlace(f)

SharedInv == \A s \in Starters : SharedDone(s)

SharedKept ==
  \A f \in Shared :
    /\ templates[f] # Undefined => templates'[f] # Undefined
    /\ scaler[f] # "none" => scaler'[f] # "none"
    /\ f \in streams => f \in streams'

LEMMA UpsertDefines ==
  ASSUME RunInv, NEW s \in Starters, Upsert(s)
  PROVE  \E f \in todo[s] :
           /\ templates' = [templates EXCEPT ![f] = file[s].functions[f]]
           /\ file[s].functions[f] # Undefined
           /\ todo' = [todo EXCEPT ![s] = @ \ {f}]
           /\ current' = [current EXCEPT ![s] = f]
<1>1. PICK f \in todo[s] :
        /\ templates' = [templates EXCEPT ![f] = file[s].functions[f]]
        /\ todo' = [todo EXCEPT ![s] = @ \ {f}]
        /\ current' = [current EXCEPT ![s] = f]
  BY DEF Upsert
<1>2. file[s] \in Files /\ f \in Declared(file[s])
  BY DEF Upsert, Goto, RunInv, TemplateInv, StreamsInv, FileRead, PastStreams
<1>3. file[s].functions[f] # Undefined
  BY <1>2, StarterAssumption
<1> QED BY <1>1, <1>3

LEMMA StepSharedKept == ASSUME RunInv, SharedInv, [Next]_vars PROVE SharedKept
<1> USE DEF SharedKept, RunInv, TemplateInv, Typed, DockerTyped
<1>1. ASSUME NEW s \in Starters, Upsert(s) PROVE SharedKept
  BY <1>1, UpsertDefines DEF Upsert, docker, Shared
<1>2. ASSUME NEW s \in Starters, Deregister(s) PROVE SharedKept
  BY <1>2 DEF Deregister, docker, Shared, SharedInv, SharedDone
<1>3. ASSUME NEW s \in Starters, CreateScaler(s) \/ StartScaler(s) PROVE SharedKept
  BY <1>3 DEF CreateScaler, StartScaler, nats, Shared
<1>4. CASE /\ UNCHANGED <<templates, scaler>>
           /\ streams \subseteq streams'
  BY <1>4
<1> QED
  BY <1>1, <1>2, <1>3, <1>4
     DEF Next, vars, nats, docker, Begin, CreateBucket, ParseFile, CreateOrUpdateStream,
         StreamsDone, CreateGateway, StartGateway, CreateInfoServer, NoInfoServer,
         StartInfoServer, CreateService, StartService, RegisterFunctions, List, ReadTemplate,
         TemplateMissing, ReadDone, Finish, Fail

(* What a run has done stays done when another takes a step.               *)
LEMMA BystanderShared ==
  ASSUME SharedKept, NEW t \in Starters, SharedDone(t), pc'[t] = pc[t], todo'[t] = todo[t],
         current'[t] = current[t], finished'[t] => finished[t]
  PROVE  SharedDone(t)'
BY DEF SharedKept, SharedDone, Shared, InPlace

LEMMA OwnLocals ==
  ASSUME RunInv, NEW s \in Starters, NEW t \in Starters \ {s},
         \/ Begin(s)
         \/ CreateBucket(s, "instances", "instancesBucket", "functionsBucket")
         \/ CreateBucket(s, "functions", "functionsBucket", "parse")
         \/ ParseFile(s) \/ CreateOrUpdateStream(s) \/ StreamsDone(s)
         \/ CreateGateway(s) \/ StartGateway(s)
         \/ CreateInfoServer(s) \/ NoInfoServer(s) \/ StartInfoServer(s)
         \/ RegisterFunctions(s) \/ Upsert(s) \/ CreateScaler(s) \/ StartScaler(s)
         \/ List(s) \/ ReadTemplate(s) \/ TemplateMissing(s) \/ ReadDone(s)
         \/ Deregister(s) \/ Finish(s) \/ Fail(s)
  PROVE  /\ pc'[t] = pc[t] /\ todo'[t] = todo[t] /\ current'[t] = current[t]
         /\ finished'[t] => finished[t]
<1> USE DEF RunInv, TemplateInv, Typed, FinishedInv, Goto, local, history
<1>1. CASE Begin(s) \/ StreamsDone(s) \/ TemplateMissing(s) \/ Finish(s) \/ Fail(s)
  BY <1>1 DEF Begin, StreamsDone, TemplateMissing, Finish, Fail, Exit
<1>2. CASE \/ CreateBucket(s, "instances", "instancesBucket", "functionsBucket")
           \/ CreateBucket(s, "functions", "functionsBucket", "parse")
           \/ ParseFile(s) \/ CreateOrUpdateStream(s)
           \/ CreateGateway(s) \/ StartGateway(s)
           \/ CreateInfoServer(s) \/ NoInfoServer(s) \/ StartInfoServer(s)
  BY <1>2 DEF CreateBucket, ParseFile, CreateOrUpdateStream, CreateGateway, StartGateway,
              CreateInfoServer, NoInfoServer, StartInfoServer, CreateService, StartService
<1>3. CASE RegisterFunctions(s) \/ Upsert(s) \/ CreateScaler(s) \/ StartScaler(s)
  BY <1>3 DEF RegisterFunctions, Upsert, CreateScaler, StartScaler
<1>4. CASE List(s) \/ ReadTemplate(s) \/ ReadDone(s) \/ Deregister(s)
  BY <1>4 DEF List, ReadTemplate, ReadDone, Deregister
<1> QED BY <1>1, <1>2, <1>3, <1>4

(* The steps outside registering and deregistering, and the ends of a run. *)
LEMMA EarlyShared ==
  ASSUME RunInv, SharedKept, NEW s \in Starters, SharedDone(s),
         \/ Begin(s)
         \/ CreateBucket(s, "instances", "instancesBucket", "functionsBucket")
         \/ CreateBucket(s, "functions", "functionsBucket", "parse")
         \/ ParseFile(s) \/ CreateOrUpdateStream(s) \/ StreamsDone(s)
         \/ CreateGateway(s) \/ StartGateway(s)
         \/ CreateInfoServer(s) \/ NoInfoServer(s) \/ StartInfoServer(s)
         \/ TemplateMissing(s) \/ Finish(s) \/ Fail(s)
  PROVE  SharedDone(s)'
<1>1. pc'[s] \notin Registering \cup {"read", "deregister"}
  BY DEF RunInv, TemplateInv, Typed, Registering, Goto, Begin, CreateBucket, ParseFile,
     CreateOrUpdateStream, StreamsDone, CreateGateway, StartGateway, CreateInfoServer,
     NoInfoServer, StartInfoServer, CreateService, StartService, TemplateMissing, Finish,
     Fail, Exit
<1>2. finished'[s] => finished[s] \/ (pc[s] = "deregister")
  <2>1. CASE TemplateMissing(s) \/ Fail(s)
    BY <2>1 DEF TemplateMissing, Fail, Exit, RunInv, FinishedInv
  <2>2. CASE StreamsDone(s)
    BY <2>2 DEF StreamsDone, Exit, Goto, history, RunInv, FinishedInv
  <2>3. CASE Finish(s)
    BY <2>3 DEF Finish
  <2> QED
    BY <2>1, <2>2, <2>3 DEF history, Begin, CreateBucket, ParseFile,
       CreateOrUpdateStream, CreateGateway, StartGateway, CreateInfoServer,
       NoInfoServer, StartInfoServer, CreateService, StartService
<1> QED BY <1>1, <1>2 DEF SharedDone, SharedKept, InPlace, Shared

(* The steps of registering and deregistering.                             *)
LEMMA LateShared ==
  ASSUME RunInv, SharedKept, NEW s \in Starters, SharedDone(s),
         \/ RegisterFunctions(s) \/ Upsert(s) \/ CreateScaler(s) \/ StartScaler(s)
         \/ List(s) \/ ReadTemplate(s) \/ ReadDone(s) \/ Deregister(s)
  PROVE  SharedDone(s)'
<1> USE DEF RunInv, TemplateInv, Typed, DockerTyped, Goto, Registering, SharedDone,
            SharedKept, InPlace
<1>1. finished' = finished /\ Shared' = Shared /\ Shared \subseteq Functions
  BY DEF RegisterFunctions, Upsert, CreateScaler, StartScaler, List, ReadTemplate,
     ReadDone, Deregister, history, Shared
<1>2. pc[s] \in FileRead => Shared \subseteq Declared(file[s])
  BY DEF StreamsInv, Shared
<1>3. CASE RegisterFunctions(s)
  BY <1>1, <1>2, <1>3 DEF RegisterFunctions, FileRead, PastStreams
<1>4. CASE Upsert(s)
  <2>1. PICK f \in todo[s] :
          /\ templates' = [templates EXCEPT ![f] = file[s].functions[f]]
          /\ file[s].functions[f] # Undefined
          /\ todo' = [todo EXCEPT ![s] = @ \ {f}]
          /\ current' = [current EXCEPT ![s] = f]
    BY <1>4, UpsertDefines
  <2>2. pc[s] = "register" /\ pc'[s] = "createScaler" /\ UNCHANGED scaler
    BY <1>4 DEF Upsert, docker
  <2> QED BY <1>1, <2>1, <2>2
<1>5. CASE CreateScaler(s) \/ StartScaler(s)
  BY <1>1, <1>5 DEF CreateScaler, StartScaler, local, nats
<1>6. CASE List(s)
  BY <1>1, <1>6 DEF List, docker
<1>7. CASE ReadTemplate(s)
  BY <1>1, <1>7 DEF ReadTemplate
<1>8. CASE ReadDone(s)
  BY <1>1, <1>2, <1>8 DEF ReadDone, FileRead, PastStreams
<1>9. CASE Deregister(s)
  BY <1>1, <1>9 DEF Deregister
<1> QED BY <1>3, <1>4, <1>5, <1>6, <1>7, <1>8, <1>9

LEMMA StepSharedInv == RunInv /\ SharedInv /\ [Next]_vars => SharedInv'
<1> SUFFICES ASSUME RunInv, SharedInv, [Next]_vars, NEW t \in Starters
             PROVE  SharedDone(t)'
  BY DEF SharedInv
<1>1. SharedKept /\ SharedDone(t)
  BY StepSharedKept DEF SharedInv
<1>2. CASE UNCHANGED vars
  BY <1>1, <1>2, BystanderShared DEF vars, local, history
<1>3. CASE Next
  <2>1. PICK s \in Starters :
         \/ Begin(s)
         \/ CreateBucket(s, "instances", "instancesBucket", "functionsBucket")
         \/ CreateBucket(s, "functions", "functionsBucket", "parse")
         \/ ParseFile(s) \/ CreateOrUpdateStream(s) \/ StreamsDone(s)
         \/ CreateGateway(s) \/ StartGateway(s)
         \/ CreateInfoServer(s) \/ NoInfoServer(s) \/ StartInfoServer(s)
         \/ RegisterFunctions(s) \/ Upsert(s) \/ CreateScaler(s) \/ StartScaler(s)
         \/ List(s) \/ ReadTemplate(s) \/ TemplateMissing(s) \/ ReadDone(s)
         \/ Deregister(s) \/ Finish(s) \/ Fail(s)
    BY <1>3 DEF Next
  <2>2. CASE s = t
    BY <1>1, <2>1, <2>2, EarlyShared, LateShared
  <2>3. CASE s # t
    BY <1>1, <2>1, <2>3, OwnLocals, BystanderShared
  <2> QED BY <2>2, <2>3
<1> QED BY <1>2, <1>3

LEMMA SharedInvariant == Spec => [](RunInv /\ SharedInv)
<1>1. Init => RunInv /\ SharedInv
  BY InitRunInv DEF Init, SharedInv, SharedDone, Registering
<1>2. RunInv /\ SharedInv /\ [Next]_vars => RunInv' /\ SharedInv'
  BY StepRunInv, StepSharedInv
<1> QED BY <1>1, <1>2, PTL DEF Spec

(* A run that returns without an error leaves the functions that every
   Fidfile declares with template, stream and scaler container, however it
   overlaps with other runs, that fail, are killed or deregister.          *)
THEOREM SharedAvailableTheorem == Spec => []SharedAvailable
<1>1. RunInv /\ SharedInv => SharedAvailable
  BY DEF RunInv, TemplateInv, TemplateHasStream, SharedInv, SharedDone, SharedAvailable,
         Available, InPlace, Shared
<1> QED BY <1>1, SharedInvariant, PTL

(* And no run ever takes such a function away, between any two calls.      *)
THEOREM SharedStaysAvailableTheorem == Spec => SharedStaysAvailable
<1>1. RunInv /\ SharedInv /\ [Next]_vars =>
        [\A f \in Shared : Available(f) => Available(f)']_vars
  <2> SUFFICES ASSUME RunInv, SharedInv, [Next]_vars, NEW f \in Shared, Available(f)
               PROVE  Available(f)'
    OBVIOUS
  <2>1. SharedKept
    BY StepSharedKept
  <2> QED BY <2>1 DEF SharedKept, Available, InPlace
<1> QED BY <1>1, SharedInvariant, PTL DEF Spec, SharedStaysAvailable

=============================================================================
