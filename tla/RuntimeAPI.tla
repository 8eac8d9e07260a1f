----------------------------- MODULE RuntimeAPI -----------------------------
(***************************************************************************)
(* The runtime API servers of a function, from Init to Shutdown, over the  *)
(* instances repository: the records a server keeps of its instance, and   *)
(* who writes them when.  The process's main goroutine registers the       *)
(* instance and deletes it again; the handlers of the function's requests  *)
(* write to it meanwhile, and when the process stops nobody waits for      *)
(* them.  Every bucket operation is a step and may fail.                   *)
(***************************************************************************)
CONSTANTS
  Instances,  (* the instances, each with its own server and function       *)
  Bound,      (* instances whose Init stores the function instance it makes *)
  NoInstance

ASSUME RuntimeAPIAssumption ==
  /\ Bound \subseteq Instances
  /\ NoInstance \notin Instances

VARIABLES
  records, op, target, pc, todo, found, answer,  (* of InstancesRepo, whose *)
  listed, winners, written,                      (* clients are the servers *)
  life,     (* [Instances -> Lives] the process of the server               *)
  request,  (* [Instances -> ...] the function's loop, seen from the server *)
  ended,    (* history: [Instances -> ...] how the process ended            *)
  cut,      (* history: instances whose Add or Delete was cut short         *)
  late      (* history: instances with an unwritten record when they had to stop *)

repoVars == <<records, op, target, pc, todo, found, answer, listed, winners, written>>
serverVars == <<life, request, ended, cut, late>>
vars == <<repoVars, serverVars>>

Repo == INSTANCE InstancesRepo WITH Clients <- Instances

(* "closing": the listener is closed; "closed": Shutdown has returned, and
   the connection to NATS is the next to go.                               *)
Lives == {"new", "adding", "serving", "closing", "deleting", "closed", "exited"}

(* "done": the function has exited; "executing" happens in its own process. *)
Requests == {"none", "marking", "fetching", "executing", "recording", "publishing", "done"}

Endings == {"none", "clean", "failed", "panicked", "killed"}

TypeOK ==
  /\ Repo!TypeOK
  /\ life \in [Instances -> Lives]
  /\ request \in [Instances -> Requests]
  /\ ended \in [Instances -> Endings]
  /\ cut \subseteq Instances
  /\ late \subseteq Instances

Init ==
  /\ Repo!Init
  /\ life = [i \in Instances |-> "new"]
  /\ request = [i \in Instances |-> "none"]
  /\ ended = [i \in Instances |-> "none"]
  /\ cut = {}
  /\ late = {}

-----------------------------------------------------------------------------
Become(i, from, to) ==
  /\ life[i] = from
  /\ life' = [life EXCEPT ![i] = to]

End(i, how) == ended' = [ended EXCEPT ![i] = how]

(* Mutation: the error is not looked at.                                   *)
InitUnchecked(i) ==
  /\ Become(i, "new", "serving")
  /\ UNCHANGED <<repoVars, request, ended, cut, late>>

(* Mutation: the instance is registered before the function is read.       *)
InitFailsLate(i) ==
  /\ Become(i, "new", "exited")
  /\ Repo!Put(Repo!Rec(i, "presence"))
  /\ End(i, "failed")
  /\ UNCHANGED <<op, target, pc, todo, found, answer, listed, winners, request, cut, late>>

(* Server.Init reads the function and creates the presence record; either may
   fail ...                                                                *)
InitFails(i) ==
  /\ Become(i, "new", "exited")
  /\ End(i, "failed")
  /\ UNCHANGED <<repoVars, request, cut, late>>

(* ... or both are done.  The id is new: Add never finds it there.         *)
Start(i) ==
  /\ Become(i, "new", "adding")
  /\ Repo!Add(i, i)
  /\ UNCHANGED <<request, ended, cut, late>>

AddIdle(i) == Repo!AddIdle(i) /\ UNCHANGED serverVars

(* Add has returned: the listener opens, or the process gives up.          *)
InitDone(i) ==
  /\ Repo!Return(i)
  /\ \/ answer[i] = "ok" /\ Become(i, "adding", "serving") /\ UNCHANGED ended
     \/ answer[i] # "ok" /\ Become(i, "adding", "exited") /\ End(i, "failed")
  /\ UNCHANGED <<request, cut, late>>

-----------------------------------------------------------------------------
(* The handlers.  The function has one request at a time.                  *)
Handle(i, from, to) ==
  /\ request[i] = from
  /\ request' = [request EXCEPT ![i] = to]
  /\ UNCHANGED <<life, ended, cut, late>>

(* Mutation: the listener stays open until the process exits.              *)
OpenWhileClosing(i) == life[i] \in {"serving", "closing", "deleting", "closed"}

Open(i) == life[i] = "serving"

(* An unbound server's NextHandler panics, and the function gives up.      *)
NextRequest(i) ==
  /\ Open(i)
  /\ Handle(i, "none", IF i \in Bound THEN "marking" ELSE "done")
  /\ UNCHANGED repoVars

(* NextHandler: SetBusy(false), then Next; an error of either ends the
   function.                                                               *)
MarkIdle(i) ==
  \/ Handle(i, "marking", "fetching") /\ Repo!SetBusy(i, FALSE)
  \/ Handle(i, "marking", "done") /\ (Repo!SetBusy(i, FALSE) \/ UNCHANGED repoVars)

Fetch(i) ==
  /\ Handle(i, "fetching", "executing") \/ Handle(i, "fetching", "done")
  /\ UNCHANGED repoVars

(* The function posts a response, or an error, which is not recorded.      *)
Respond(i) ==
  /\ Open(i)
  /\ Handle(i, "executing", "recording") \/ Handle(i, "executing", "publishing")
  /\ UNCHANGED repoVars

(* ResponseHandler: SetLastExecuted, then Publish; the function does not
   look at the status and asks for the next event.                         *)
Record(i) ==
  \/ Handle(i, "recording", "publishing") /\ Repo!SetLastExecuted(i)
  \/ Handle(i, "recording", "none") /\ (Repo!SetLastExecuted(i) \/ UNCHANGED repoVars)

Publish(i) == Handle(i, "publishing", "none") /\ UNCHANGED repoVars

-----------------------------------------------------------------------------
(* The context is cancelled.  RunServer closes the listener and the idle
   connections and returns without waiting for the handlers in flight: the
   context it gives to Shutdown is the cancelled one.                      *)
Stop(i) ==
  /\ Become(i, "serving", "closing")
  /\ late' = IF request[i] \in {"marking", "recording"} THEN late \cup {i} ELSE late
  /\ UNCHANGED <<repoVars, request, ended, cut>>

(* Mutation: the handlers in flight are awaited first.                     *)
ShutdownAwaits(i) ==
  /\ i \in Bound
  /\ request[i] \in {"none", "executing", "done"}
  /\ Become(i, "closing", "deleting")
  /\ Repo!Delete(i, i)
  /\ UNCHANGED <<request, ended, cut, late>>

(* Server.Shutdown deletes the instance; an unbound server has none.       *)
Shutdown(i) ==
  /\ i \in Bound
  /\ Become(i, "closing", "deleting")
  /\ Repo!Delete(i, i)
  /\ UNCHANGED <<request, ended, cut, late>>

ShutdownPanics(i) ==
  /\ i \notin Bound
  /\ Become(i, "closing", "exited")
  /\ request' = [request EXCEPT ![i] = "done"]
  /\ End(i, "panicked")
  /\ UNCHANGED <<repoVars, cut, late>>

(* The steps of Delete.  Nobody else purges the records it has listed.     *)
DeleteStep(i) ==
  /\ Repo!ReadKey(i) \/ Repo!ReadDone(i) \/ Repo!DeleteKey(i) \/ Repo!DeleteDone(i)
  /\ UNCHANGED serverVars

(* A bucket operation of Add or Delete fails, with or without effect.      *)
Fail(i) ==
  /\ Repo!Fail(i) \/ Repo!AddIdleUnheard(i)
  /\ cut' = cut \cup {i}
  /\ UNCHANGED <<life, request, ended, late>>

ShutdownDone(i) ==
  /\ Become(i, "deleting", "closed")
  /\ Repo!Return(i)
  /\ End(i, IF answer[i] = "ok" THEN "clean" ELSE "failed")
  /\ UNCHANGED <<request, cut, late>>

(* Client.Shutdown closes the connection, and the process is over.         *)
Exit(i) ==
  /\ Become(i, "closed", "exited")
  /\ request' = [request EXCEPT ![i] = "done"]
  /\ UNCHANGED <<repoVars, ended, cut, late>>

(* The process is killed.                                                  *)
Crash(i) ==
  /\ life[i] \notin {"new", "exited"}
  /\ life' = [life EXCEPT ![i] = "exited"]
  /\ request' = [request EXCEPT ![i] = "done"]
  /\ IF ended[i] = "none" THEN End(i, "killed") ELSE UNCHANGED ended
  /\ \/ Repo!Fail(i) /\ cut' = cut \cup {i}
     \/ pc[i] \in {"ready", "answered"} /\ UNCHANGED <<repoVars, cut>>
  /\ UNCHANGED late

ServerStep(i) ==
  \/ InitFails(i) \/ Start(i) \/ AddIdle(i) \/ InitDone(i)
  \/ NextRequest(i) \/ MarkIdle(i) \/ Fetch(i)
  \/ Respond(i) \/ Record(i) \/ Publish(i)
  \/ Stop(i) \/ Shutdown(i) \/ ShutdownPanics(i) \/ DeleteStep(i) \/ Fail(i)
  \/ ShutdownDone(i) \/ Exit(i) \/ Crash(i)

Next == \E i \in Instances : ServerStep(i)

Spec == Init /\ [][Next]_vars

(* The main goroutine goes on, once it is told to stop, until the end.     *)
Stopping(i) ==
  Shutdown(i) \/ ShutdownPanics(i) \/ DeleteStep(i) \/ ShutdownDone(i) \/ Exit(i)

FairSpec == Spec /\ \A i \in Instances : WF_vars(Stopping(i))

-----------------------------------------------------------------------------
(* An instance that counts though its process has ended by itself is one that
   Shutdown could not name, or one whose Add or Delete a failing bucket
   operation cut short; counted idle, it may also be what a handler has
   written that Stop did not wait for.  An Init that fails before it has
   registered, and an end that went well, leave nothing to count.          *)
Accounted(i) == ended[i] \in {"none", "panicked", "killed"} \/ i \in cut

LeftoversExplained ==
  /\ \A i \in Repo!Counted : Accounted(i)
  /\ \A i \in Repo!CountedIdle : Accounted(i) \/ i \in late

(* Once Shutdown has succeeded the instance is not counted, ever again,
   whatever the handlers that still run write.                             *)
CleanExitIsNotCounted ==
  \A i \in Instances : ended[i] = "clean" => i \notin Repo!Counted

(* A record that is left after a successful Shutdown is one that a handler
   was about to write when the server was told to stop: requests that come
   later do not get that far, and Delete leaves none that it could see.    *)
GhostsExplained ==
  \A i \in Instances :
    ended[i] = "clean" /\ i \notin late => records \cap Repo!AllKeys(i) = {}

(* Shutdown finds the instance Init has added, with all the records it has
   listed, whatever the handlers do that it does not wait for: it fails only
   if an operation on the bucket does.  (Delete's ErrInstanceNotFound and the
   failing read of a key that is gone by then have other clients to fear.) *)
ShutdownFindsItsInstance ==
  \A i \in Instances :
    life[i] = "deleting" =>
      /\ pc[i] = "reading" => todo[i] \subseteq records
      /\ answer[i] \in {"none", "ok"} \/ i \in cut

(* A server that is told to stop stops counting, however long its NextHandler
   still waits for an event, unless it is not bound, is killed, or cannot
   delete its records.                                                     *)
StoppedIsUncounted ==
  \A i \in Instances :
    life[i] = "closing" ~> (i \in Repo!Counted =>
                              ended[i] \in {"panicked", "killed"} \/ i \in cut)

(* The servers keep the registry the scaler relies on.                     *)
Stage == [i \in Instances |->
            CASE life[i] \in {"new", "adding"} -> "new"
              [] life[i] = "serving" -> "serving"
              [] OTHER -> "gone"]

Reg == INSTANCE Registry WITH Ids <- Instances, counted <- Repo!Counted, stage <- Stage

(* Registered before it serves, withdrawn only after it has left for good,
   and by nobody else: each step of a server is one of Registry or none.   *)
ImplementsRegistry == Reg!Spec

=============================================================================
