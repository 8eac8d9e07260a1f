------------------------------- MODULE Starter -------------------------------
(***************************************************************************)
(* "fid start": a run creates the buckets, reads the Fidfile, creates the  *)
(* functions' streams, starts the gateway and the info server, registers   *)
(* the functions it declares and deregisters those it no longer declares.  *)
(* A run may fail or be killed between any two of its calls; it is started *)
(* again, with the same Fidfile or another, and two runs may overlap.      *)
(* What the runs leave in NATS and in Docker outlives them.                *)
(***************************************************************************)
CONSTANTS
  Starters,   (* the terminals "fid start" is run in                         *)
  Functions,  (* function names                                              *)
  Files,      (* the Fidfiles: [functions : names -> definitions, infoServer] *)
  Undefined   (* "no definition"                                             *)

Declared(x) == DOMAIN x.functions

ASSUME StarterAssumption ==
  \A x \in Files :
    /\ Declared(x) \subseteq Functions
    /\ Undefined \notin {x.functions[f] : f \in Declared(x)}
    /\ x.infoServer \in BOOLEAN

Definitions == UNION {{x.functions[f] : f \in Declared(x)} : x \in Files}

Buckets == {"instances", "functions"}

(* The containers a run creates: two by their fixed names, and a scaler for
   every function.                                                         *)
Services == {"gateway", "infoserver"}

VARIABLES
  pc,          (* [Starters -> ...] the run's next call                     *)
  initOnly,    (* [Starters -> BOOLEAN] its flag                            *)
  file,        (* [Starters -> Files] the Fidfile it has read               *)
  todo,        (* [Starters -> SUBSET Functions] what its loop has left     *)
  listed,      (* [Starters -> SUBSET Functions] templates List has read    *)
  current,     (* [Starters -> Functions or Undefined] being registered     *)
  buckets,     (* the buckets there are                                     *)
  streams,     (* the functions that have a stream                          *)
  templates,   (* [Functions -> definition or Undefined] the functions bucket *)
  service,     (* [Services -> ...] the gateway's and info server's containers *)
  scaler,      (* [Functions -> ...] the scalers' containers                *)
  finished,    (* [Starters -> BOOLEAN] the last run returned no error      *)
  alone        (* history: [Starters -> BOOLEAN] no other run overlapped    *)

local == <<initOnly, file, todo, listed, current>>
nats == <<buckets, streams, templates>>
docker == <<service, scaler>>
history == <<finished, alone>>
vars == <<pc, local, nats, docker, history>>

ContainerStates == {"none", "created", "running"}

Points ==
  {"off", "instancesBucket", "functionsBucket", "parse", "streams", "createGateway",
   "startGateway", "createInfoServer", "startInfoServer", "registerFunctions",
   "register", "createScaler", "startScaler", "read", "deregister"}

TypeOK ==
  /\ pc \in [Starters -> Points]
  /\ initOnly \in [Starters -> BOOLEAN]
  /\ file \in [Starters -> Files \cup {Undefined}]
  /\ todo \in [Starters -> SUBSET Functions]
  /\ listed \in [Starters -> SUBSET Functions]
  /\ current \in [Starters -> Functions \cup {Undefined}]
  /\ buckets \subseteq Buckets
  /\ streams \subseteq Functions
  /\ templates \in [Functions -> Definitions \cup {Undefined}]
  /\ service \in [Services -> ContainerStates]
  /\ scaler \in [Functions -> ContainerStates]
  /\ finished \in [Starters -> BOOLEAN]
  /\ alone \in [Starters -> BOOLEAN]

Init ==
  /\ pc = [s \in Starters |-> "off"]
  /\ initOnly = [s \in Starters |-> FALSE]
  /\ file = [s \in Starters |-> Undefined]
  /\ todo = [s \in Starters |-> {}]
  /\ listed = [s \in Starters |-> {}]
  /\ current = [s \in Starters |-> Undefined]
  /\ buckets = {}
  /\ streams = {}
  /\ templates = [f \in Functions |-> Undefined]
  /\ service = [c \in Services |-> "none"]
  /\ scaler = [f \in Functions |-> "none"]
  /\ finished = [s \in Starters |-> FALSE]
  /\ alone = [s \in Starters |-> FALSE]

-----------------------------------------------------------------------------
Goto(s, from, to) == pc[s] = from /\ pc' = [pc EXCEPT ![s] = to]

(* Run returns: its local variables are gone.                              *)
Exit(s, ok) ==
  /\ pc' = [pc EXCEPT ![s] = "off"]
  /\ initOnly' = [initOnly EXCEPT ![s] = FALSE]
  /\ file' = [file EXCEPT ![s] = IF ok THEN @ ELSE Undefined]
  /\ todo' = [todo EXCEPT ![s] = {}]
  /\ listed' = [listed EXCEPT ![s] = {}]
  /\ current' = [current EXCEPT ![s] = Undefined]
  /\ finished' = [finished EXCEPT ![s] = ok /\ ~ initOnly[s]]
  /\ UNCHANGED alone

Begin(s) ==
  /\ Goto(s, "off", "instancesBucket")
  /\ \E b \in BOOLEAN : initOnly' = [initOnly EXCEPT ![s] = b]
  /\ file' = [file EXCEPT ![s] = Undefined]
  /\ finished' = [t \in Starters |-> FALSE]
  /\ alone' = [t \in Starters |-> t = s /\ \A u \in Starters : pc[u] = "off"]
  /\ UNCHANGED <<todo, listed, current, nats, docker>>

CreateBucket(s, bucket, from, to) ==
  /\ Goto(s, from, to)
  /\ buckets' = buckets \cup {bucket}
  /\ UNCHANGED <<local, streams, templates, docker, history>>

(* fidfile.ParseFile                                                       *)
ParseFile(s) ==
  /\ Goto(s, "parse", "streams")
  /\ \E x \in Files :
       /\ file' = [file EXCEPT ![s] = x]
       /\ todo' = [todo EXCEPT ![s] = Declared(x)]
  /\ UNCHANGED <<initOnly, listed, current, nats, docker, history>>

CreateOrUpdateStream(s) ==
  /\ pc[s] = "streams"
  /\ \E f \in todo[s] :
       /\ streams' = streams \cup {f}
       /\ todo' = [todo EXCEPT ![s] = @ \ {f}]
  /\ UNCHANGED <<pc, initOnly, file, listed, current, buckets, templates, docker, history>>

(* Mutation: a stream that could not be created is only logged.            *)
StreamsSkipped(s) ==
  /\ Goto(s, "streams", "createGateway")
  /\ ~ initOnly[s]
  /\ UNCHANGED <<local, nats, docker, history>>

StreamsDone(s) ==
  /\ pc[s] = "streams"
  /\ todo[s] = {}
  /\ \/ initOnly[s] /\ Exit(s, TRUE)
     \/ ~ initOnly[s] /\ Goto(s, "streams", "createGateway") /\ UNCHANGED <<local, history>>
  /\ UNCHANGED <<nats, docker>>

(* ContainerCreate under a fixed name; a name that is taken is taken for a
   service that runs.                                                      *)
CreateService(s, c, from, started, after) ==
  /\ \/ /\ service[c] = "none"
        /\ Goto(s, from, started)
        /\ service' = [service EXCEPT ![c] = "created"]
     \/ /\ service[c] # "none"
        /\ Goto(s, from, after)
        /\ UNCHANGED service
  /\ UNCHANGED <<local, nats, scaler, history>>

StartService(s, c, from, after) ==
  /\ Goto(s, from, after)
  /\ service' = [service EXCEPT ![c] = "running"]
  /\ UNCHANGED <<local, nats, scaler, history>>

CreateGateway(s) == CreateService(s, "gateway", "createGateway", "startGateway", "createInfoServer")

StartGateway(s) == StartService(s, "gateway", "startGateway", "createInfoServer")

(* The info server is started only if the Fidfile asks for it.             *)
CreateInfoServer(s) ==
  /\ pc[s] = "createInfoServer" /\ file[s].infoServer
  /\ CreateService(s, "infoserver", "createInfoServer", "startInfoServer", "registerFunctions")

NoInfoServer(s) ==
  /\ Goto(s, "createInfoServer", "registerFunctions")
  /\ ~ file[s].infoServer
  /\ UNCHANGED <<local, nats, docker, history>>

StartInfoServer(s) == StartService(s, "infoserver", "startInfoServer", "registerFunctions")

-----------------------------------------------------------------------------
(* registerFunctions: Backend.Register for every declared function.        *)
RegisterFunctions(s) ==
  /\ Goto(s, "registerFunctions", "register")
  /\ todo' = [todo EXCEPT ![s] = Declared(file[s])]
  /\ UNCHANGED <<initOnly, file, listed, current, nats, docker, history>>

(* Mutation: the error of the bucket's Put is not looked at.               *)
UpsertUnchecked(s) ==
  /\ Goto(s, "register", "createScaler")
  /\ \E f \in todo[s] :
       /\ todo' = [todo EXCEPT ![s] = @ \ {f}]
       /\ current' = [current EXCEPT ![s] = f]
  /\ UNCHANGED <<initOnly, file, listed, nats, docker, history>>

(* Mutation: what is stored is not the function's own definition.          *)
UpsertWhole(s) ==
  /\ Goto(s, "register", "createScaler")
  /\ \E f \in todo[s] :
       /\ templates' = [templates EXCEPT ![f] = file[s].functions]
       /\ todo' = [todo EXCEPT ![s] = @ \ {f}]
       /\ current' = [current EXCEPT ![s] = f]
  /\ UNCHANGED <<initOnly, file, listed, buckets, streams, docker, history>>

Upsert(s) ==
  /\ Goto(s, "register", "createScaler")
  /\ \E f \in todo[s] :
       /\ templates' = [templates EXCEPT ![f] = file[s].functions[f]]
       /\ todo' = [todo EXCEPT ![s] = @ \ {f}]
       /\ current' = [current EXCEPT ![s] = f]
  /\ UNCHANGED <<initOnly, file, listed, buckets, streams, docker, history>>

(* Mutation: a container just created is taken to run, too.                *)
CreateScalerUnstarted(s) ==
  /\ Goto(s, "createScaler", "register")
  /\ \/ scaler' = [scaler EXCEPT ![current[s]] = "created"] /\ scaler[current[s]] = "none"
     \/ UNCHANGED scaler /\ scaler[current[s]] # "none"
  /\ UNCHANGED <<local, nats, service, history>>

(* A scaler container that exists is not started: it is taken to run.      *)
CreateScaler(s) ==
  /\ \/ /\ Goto(s, "createScaler", "startScaler")
        /\ scaler[current[s]] = "none"
        /\ scaler' = [scaler EXCEPT ![current[s]] = "created"]
     \/ /\ Goto(s, "createScaler", "register")
        /\ scaler[current[s]] # "none"
        /\ UNCHANGED scaler
  /\ UNCHANGED <<local, nats, service, history>>

StartScaler(s) ==
  /\ Goto(s, "startScaler", "register")
  /\ scaler' = [scaler EXCEPT ![current[s]] = "running"]
  /\ UNCHANGED <<local, nats, service, history>>

(* FunctionsRepo.List: the keys are listed, then got one by one.           *)
List(s) ==
  /\ Goto(s, "register", "read")
  /\ todo[s] = {}
  /\ todo' = [todo EXCEPT ![s] = {f \in Functions : templates[f] # Undefined}]
  /\ UNCHANGED <<initOnly, file, listed, current, nats, docker, history>>

ReadTemplate(s) ==
  /\ pc[s] = "read"
  /\ \E f \in todo[s] :
       /\ templates[f] # Undefined
       /\ listed' = [listed EXCEPT ![s] = @ \cup {f}]
       /\ todo' = [todo EXCEPT ![s] = @ \ {f}]
  /\ UNCHANGED <<pc, initOnly, file, current, nats, docker, history>>

(* Another run has deregistered a listed function: List fails, Run fails.  *)
TemplateMissing(s) ==
  /\ pc[s] = "read"
  /\ \E f \in todo[s] : templates[f] = Undefined
  /\ Exit(s, FALSE)
  /\ UNCHANGED <<nats, docker>>

(* Mutation: nothing is deregistered.                                      *)
ReadDoneNone(s) ==
  /\ Goto(s, "read", "deregister")
  /\ todo[s] = {}
  /\ UNCHANGED <<local, nats, docker, history>>

(* Mutation: the functions that are declared are deregistered too.         *)
ReadDoneAll(s) ==
  /\ Goto(s, "read", "deregister")
  /\ todo[s] = {}
  /\ todo' = [todo EXCEPT ![s] = listed[s]]
  /\ UNCHANGED <<initOnly, file, listed, current, nats, docker, history>>

ReadDone(s) ==
  /\ Goto(s, "read", "deregister")
  /\ todo[s] = {}
  /\ todo' = [todo EXCEPT ![s] = listed[s] \ Declared(file[s])]
  /\ UNCHANGED <<initOnly, file, listed, current, nats, docker, history>>

(* Mutation: the function's stream is deleted as well.                     *)
DeregisterStream(s) ==
  /\ pc[s] = "deregister"
  /\ \E f \in todo[s] :
       /\ templates' = [templates EXCEPT ![f] = Undefined]
       /\ streams' = streams \ {f}
       /\ todo' = [todo EXCEPT ![s] = @ \ {f}]
  /\ UNCHANGED <<pc, initOnly, file, listed, current, buckets, docker, history>>

(* Deregister deletes the template; stream and scaler stay.                *)
Deregister(s) ==
  /\ pc[s] = "deregister"
  /\ \E f \in todo[s] :
       /\ templates' = [templates EXCEPT ![f] = Undefined]
       /\ todo' = [todo EXCEPT ![s] = @ \ {f}]
  /\ UNCHANGED <<pc, initOnly, file, listed, current, buckets, streams, docker, history>>

Finish(s) ==
  /\ pc[s] = "deregister"
  /\ todo[s] = {}
  /\ Exit(s, TRUE)
  /\ UNCHANGED <<nats, docker>>

(* The next call fails, or the process is killed before it.                *)
Fail(s) ==
  /\ pc[s] # "off"
  /\ Exit(s, FALSE)
  /\ UNCHANGED <<nats, docker>>

Next ==
  \E s \in Starters :
    \/ Begin(s)
    \/ CreateBucket(s, "instances", "instancesBucket", "functionsBucket")
    \/ CreateBucket(s, "functions", "functionsBucket", "parse")
    \/ ParseFile(s) \/ CreateOrUpdateStream(s) \/ StreamsDone(s)
    \/ CreateGateway(s) \/ StartGateway(s)
    \/ CreateInfoServer(s) \/ NoInfoServer(s) \/ StartInfoServer(s)
    \/ RegisterFunctions(s) \/ Upsert(s) \/ CreateScaler(s) \/ StartScaler(s)
    \/ List(s) \/ ReadTemplate(s) \/ TemplateMissing(s) \/ ReadDone(s)
    \/ Deregister(s) \/ Finish(s) \/ Fail(s)

Spec == Init /\ [][Next]_vars

-----------------------------------------------------------------------------
(* At no moment is there a function the gateway would accept calls for whose
   stream does not exist, however runs with different Fidfiles overlap, fail
   or are killed.                                                          *)
TemplateHasStream ==
  \A f \in Functions : templates[f] # Undefined => f \in streams

(* A run that returns without an error, and that no other overlapped, leaves
   exactly the definitions of its Fidfile, whatever earlier runs that failed
   half-way have left; every declared function has its stream and scaler
   container, and the gateway's container exists.                          *)
FinishedMeansDeclared ==
  \A s \in Starters :
    (finished[s] /\ alone[s]) =>
      /\ \A f \in Functions :
           templates[f] = IF f \in Declared(file[s]) THEN file[s].functions[f] ELSE Undefined
      /\ \A f \in Declared(file[s]) : f \in streams /\ scaler[f] # "none"
      /\ service["gateway"] # "none"
      /\ file[s].infoServer => service["infoserver"] # "none"

(* A scaler's process finds its function in the bucket when it starts, unless
   another run deregisters it meanwhile (Scaler.Init fails without it).     *)
ScalerFindsItsFunction ==
  [][\A s \in Starters, f \in Functions :
       (alone[s] /\ scaler[f] # "running" /\ scaler'[f] = "running")
         => templates[f] # Undefined]_vars

(* A new run takes no function away that its Fidfile declares, not even
   between two of its calls.                                               *)
DeclaredStaysAvailable ==
  [][\A s \in Starters, f \in Functions :
       (alone[s] /\ file[s] # Undefined /\ templates[f] # Undefined
          /\ f \in Declared(file[s]))
         => templates'[f] # Undefined]_vars

(* A container that is created and that no run is about to start.          *)
StartsService(s, c) ==
  pc[s] = (IF c = "gateway" THEN "startGateway" ELSE "startInfoServer")

StartsScaler(s, f) == pc[s] = "startScaler" /\ current[s] = f

ServiceAbandoned(c) == service[c] = "created" /\ \A s \in Starters : ~ StartsService(s, c)

ScalerAbandoned(f) == scaler[f] = "created" /\ \A s \in Starters : ~ StartsScaler(s, f)

(* Containers are left created and not started only by a run that fails, or is
   killed, at this very container; and for good: whichever runs overlap or
   come later, none of them starts it.                                     *)
OnlyFailuresAbandon ==
  [][/\ \A c \in Services :
          IF ServiceAbandoned(c) THEN ServiceAbandoned(c)'
          ELSE ServiceAbandoned(c)' =>
                 \E s \in Starters : StartsService(s, c) /\ pc'[s] = "off"
     /\ \A f \in Functions :
          IF ScalerAbandoned(f) THEN ScalerAbandoned(f)'
          ELSE ScalerAbandoned(f)' =>
                 \E s \in Starters : StartsScaler(s, f) /\ pc'[s] = "off"]_vars

(* cli/start.go, of the start command: "Reads Fidfile.yaml and starts the
   required services".  When it says that it did, they were started.       *)
FinishedMeansStarted ==
  \A s \in Starters :
    (finished[s] /\ alone[s]) =>
      /\ service["gateway"] = "running"
      /\ \A f \in Declared(file[s]) : scaler[f] = "running"

=============================================================================
