-------------------------- MODULE RuntimeAPIProofs --------------------------
(***************************************************************************)
(* Theorems about RuntimeAPI, for every set of instances and of bound ones. *)
(***************************************************************************)
EXTENDS RuntimeAPI, TLAPS

-----------------------------------------------------------------------------
(* What is needed of the types.                                            *)
Typed ==
  /\ records \subseteq Repo!Key
  /\ op \in [Instances -> {"none", "Add", "Get", "List", "Delete"}]
  /\ target \in [Instances -> Instances \cup {NoInstance}]
  /\ pc \in [Instances -> {"ready", "adding", "reading", "deleting", "answered"}]
  /\ todo \in [Instances -> SUBSET Repo!Key]
  /\ found \in [Instances -> SUBSET Repo!Key]
  /\ answer \in [Instances -> Repo!Answers]
  /\ life \in [Instances -> Lives]
  /\ request \in [Instances -> Requests]
  /\ ended \in [Instances -> Endings]

(* The records of one instance.                                            *)
Kept(i) == records \cap Repo!AllKeys(i)

Has(i, f) == Repo!Rec(i, f) \in Kept(i)

Unwritten == {"marking", "recording"}

(* What a server's process has done so far, by where it stands.            *)
Registering(i) ==
  /\ life[i] = "new" => pc[i] = "ready" /\ Kept(i) = {} /\ request[i] = "none"
  /\ life[i] = "adding" =>
       /\ request[i] = "none"
       /\ target[i] = i
       /\ Has(i, "presence")
       /\ pc[i] \in {"adding", "answered"}
       /\ pc[i] = "answered" => answer[i] = "ok" \/ i \in cut
  /\ life[i] \in {"new", "adding", "serving", "closing"} => found[i] = {}
  /\ life[i] \in {"serving", "closing"} => pc[i] = "ready" /\ Has(i, "presence")

(* Delete purges what it has listed, which is everything unless a handler
   writes meanwhile, and the presence record in any case.                  *)
Deleting(i) ==
  life[i] = "deleting" =>
    /\ op[i] = "Delete"
    /\ pc[i] \in {"reading", "deleting", "answered"}
    /\ pc[i] = "reading" =>
         /\ todo[i] \cup found[i] \subseteq Repo!AllKeys(i)
         /\ Repo!Rec(i, "presence") \in todo[i] \cup found[i]
         /\ i \notin late => Kept(i) \subseteq todo[i] \cup found[i]
    /\ pc[i] = "deleting" =>
         /\ todo[i] \subseteq Repo!AllKeys(i)
         /\ Has(i, "presence") => Repo!Rec(i, "presence") \in todo[i]
         /\ i \notin late => Kept(i) \subseteq todo[i]
    /\ pc[i] = "answered" /\ answer[i] = "ok" =>
         ~ Has(i, "presence") /\ (i \notin late => Kept(i) = {})
    /\ pc[i] = "answered" /\ answer[i] # "ok" => i \in cut

(* What is left when the process is over.                                  *)
Over(i) ==
  /\ ended[i] = "clean" =>
       ~ Has(i, "presence") /\ (i \notin late => Kept(i) = {})
  /\ ended[i] # "none" <=> life[i] \in {"closed", "exited"}
  /\ ended[i] = "failed" => i \in cut \/ (life[i] = "exited" /\ Kept(i) = {})
  /\ life[i] = "closed" => pc[i] = "ready"
  /\ life[i] = "exited" => pc[i] \in {"ready", "answered"} /\ request[i] \in {"none", "done"}
  /\ life[i] \in {"closing", "deleting", "closed"} /\ i \notin late => request[i] \notin Unwritten

ServerInv(i) == Registering(i) /\ Deleting(i) /\ Over(i)

Inv == Typed /\ \A i \in Instances : ServerInv(i)

-----------------------------------------------------------------------------
(* Keys.                                                                   *)
LEMMA RecInAllKeys ==
  ASSUME NEW i \in Instances, NEW f \in Repo!Fields
  PROVE  Repo!Rec(i, f) \in Repo!AllKeys(i)
BY DEF Repo!Rec, Repo!AllKeys, Repo!Key

LEMMA PutKept ==
  ASSUME NEW i \in Instances, NEW f \in Repo!Fields, records' = records \cup {Repo!Rec(i, f)}
  PROVE  /\ Kept(i)' = Kept(i) \cup {Repo!Rec(i, f)}
         /\ \A j \in Instances \ {i} : Kept(j)' = Kept(j)
BY RecInAllKeys DEF Kept, Repo!Rec, Repo!AllKeys

LEMMA PurgeKept ==
  ASSUME NEW i \in Instances, NEW k \in Repo!AllKeys(i), records' = records \ {k}
  PROVE  /\ Kept(i)' = Kept(i) \ {k}
         /\ \A j \in Instances \ {i} : Kept(j)' = Kept(j)
BY DEF Kept, Repo!AllKeys

LEMMA SameKept ==
  ASSUME UNCHANGED records PROVE \A i \in Instances : Kept(i)' = Kept(i)
BY DEF Kept, Repo!AllKeys, Repo!Key

LEMMA DifferentRecs ==
  ASSUME NEW i \in Instances
  PROVE  /\ Repo!Rec(i, "presence") # Repo!Rec(i, "idle")
         /\ Repo!Rec(i, "presence") # Repo!Rec(i, "lastExecuted")
         /\ Repo!Rec(i, "idle") # Repo!Rec(i, "lastExecuted")
BY DEF Repo!Rec

(* A server that takes no part in a step keeps its invariant.              *)
LEMMA Bystander ==
  ASSUME NEW i \in Instances, ServerInv(i), Kept(i)' = Kept(i),
         life'[i] = life[i], request'[i] = request[i], ended'[i] = ended[i],
         op'[i] = op[i], target'[i] = target[i], pc'[i] = pc[i], todo'[i] = todo[i],
         found'[i] = found[i], answer'[i] = answer[i],
         i \in cut' <=> i \in cut, i \in late' <=> i \in late
  PROVE  ServerInv(i)'
BY DEF ServerInv, Registering, Deleting, Over, Has

-----------------------------------------------------------------------------
(* A step of a server is of the instance's own records and variables.      *)
Own(i) ==
  \A j \in Instances \ {i} :
    /\ Kept(j)' = Kept(j)
    /\ life'[j] = life[j] /\ request'[j] = request[j] /\ ended'[j] = ended[j]
    /\ op'[j] = op[j] /\ target'[j] = target[j] /\ pc'[j] = pc[j] /\ todo'[j] = todo[j]
    /\ found'[j] = found[j] /\ answer'[j] = answer[j]
    /\ j \in cut' <=> j \in cut
    /\ j \in late' <=> j \in late

(* Init.                                                                   *)
LEMMA InitSteps ==
  ASSUME Inv, NEW i \in Instances,
         InitFails(i) \/ Start(i) \/ AddIdle(i) \/ InitDone(i)
  PROVE  Typed' /\ ServerInv(i)' /\ Own(i)
<1>0. ServerInv(i) /\ Typed
  BY DEF Inv
<1> USE <1>0, DifferentRecs, RecInAllKeys
    DEF Typed, Own, ServerInv, Registering, Deleting, Over, Has, Lives, Requests, Endings,
        Repo!Answers, Repo!Fields
<1>1. CASE InitFails(i)
  BY <1>1, SameKept DEF InitFails, Become, End, repoVars
<1>2. CASE Start(i)
  <2>1. records' = records \cup {Repo!Rec(i, "presence")}
    BY <1>2 DEF Start, Repo!Add, Repo!Put
  <2>2. Kept(i)' = Kept(i) \cup {Repo!Rec(i, "presence")}
        /\ \A j \in Instances \ {i} : Kept(j)' = Kept(j)
    BY <2>1, PutKept
  <2> QED BY <1>2, <2>1, <2>2 DEF Start, Become, Repo!Add, Repo!Call, Repo!AllKeys
<1>3. CASE AddIdle(i)
  <2>1. life[i] = "adding" /\ target[i] = i
    BY <1>3 DEF AddIdle, Repo!AddIdle, Repo!PutIdle
  <2>2. records' = records \cup {Repo!Rec(i, "idle")}
    BY <1>3, <2>1 DEF AddIdle, Repo!AddIdle, Repo!PutIdle, Repo!Put
  <2>3. Kept(i)' = Kept(i) \cup {Repo!Rec(i, "idle")}
        /\ \A j \in Instances \ {i} : Kept(j)' = Kept(j)
    BY <2>2, PutKept
  <2> QED BY <1>3, <2>1, <2>2, <2>3
          DEF AddIdle, Repo!AddIdle, Repo!PutIdle, Repo!Finish, serverVars, Repo!AllKeys
<1>4. CASE InitDone(i)
  <2>1. Kept(i)' = Kept(i) /\ \A j \in Instances \ {i} : Kept(j)' = Kept(j)
    BY <1>4, SameKept DEF InitDone, Repo!Return
  <2>2. Repo!Return(i) /\ UNCHANGED <<request, cut, late>>
    BY <1>4 DEF InitDone
  <2>3. CASE answer[i] = "ok"
    BY <1>4, <2>1, <2>2, <2>3 DEF InitDone, Become, Repo!Return
  <2>4. CASE answer[i] # "ok"
    BY <1>4, <2>1, <2>2, <2>4 DEF InitDone, Become, End, Repo!Return
  <2> QED BY <2>3, <2>4
<1> QED BY <1>1, <1>2, <1>3, <1>4

(* The handlers.                                                           *)
LEMMA HandlerSteps ==
  ASSUME Inv, NEW i \in Instances,
         NextRequest(i) \/ MarkIdle(i) \/ Fetch(i) \/ Respond(i) \/ Record(i) \/ Publish(i)
  PROVE  Typed' /\ ServerInv(i)' /\ Own(i)
<1>0. ServerInv(i) /\ Typed
  BY DEF Inv
<1> USE <1>0, DifferentRecs, RecInAllKeys
    DEF Typed, Own, ServerInv, Registering, Deleting, Over, Has, Requests, Unwritten,
        Repo!Fields, Handle
<1>1. CASE UNCHANGED repoVars
  <2>1. Kept(i)' = Kept(i) /\ \A j \in Instances \ {i} : Kept(j)' = Kept(j)
    BY <1>1, SameKept DEF repoVars
  <2>2. request[i] \notin {"none", "done"} \/ life[i] = "serving"
    BY DEF NextRequest, Open, MarkIdle, Fetch, Respond, Record, Publish
  <2>3. PICK r \in Requests : /\ request' = [request EXCEPT ![i] = r]
                              /\ r \in Unwritten => life[i] = "serving"
    BY DEF NextRequest, Open, MarkIdle, Fetch, Respond, Record, Publish
  <2>4. UNCHANGED <<life, ended, cut, late>>
    BY DEF NextRequest, MarkIdle, Fetch, Respond, Record, Publish
  <2> QED BY <1>1, <2>1, <2>2, <2>3, <2>4 DEF repoVars
<1>2. ASSUME NEW f \in {"idle", "lastExecuted"}, request[i] \in Unwritten,
             records' = records \cup {Repo!Rec(i, f)},
             UNCHANGED <<op, target, pc, todo, found, answer, life, ended, cut, late>>,
             NEW r \in Requests \ Unwritten, request' = [request EXCEPT ![i] = r]
      PROVE  Typed' /\ ServerInv(i)' /\ Own(i)
  <2>1. Kept(i)' = Kept(i) \cup {Repo!Rec(i, f)}
        /\ \A j \in Instances \ {i} : Kept(j)' = Kept(j)
    BY <1>2, PutKept
  <2>2. life[i] \notin {"new", "adding", "exited"}
    BY <1>2
  <2> QED BY <1>2, <2>1, <2>2 DEF Repo!AllKeys
<1>3. CASE Repo!SetBusy(i, FALSE) /\ MarkIdle(i)
  BY <1>2, <1>3 DEF MarkIdle, Repo!SetBusy, Repo!Put, Repo!callVars
<1>4. CASE Repo!SetLastExecuted(i) /\ Record(i)
  BY <1>2, <1>4 DEF Record, Repo!SetLastExecuted, Repo!Put, Repo!callVars
<1> QED
  BY <1>1, <1>3, <1>4 DEF NextRequest, MarkIdle, Fetch, Respond, Record, Publish

(* Run's end and Shutdown.                                                 *)
LEMMA StopSteps ==
  ASSUME Inv, NEW i \in Instances,
         Stop(i) \/ Shutdown(i) \/ ShutdownPanics(i) \/ ShutdownDone(i) \/ Exit(i)
  PROVE  Typed' /\ ServerInv(i)' /\ Own(i)
<1>0. ServerInv(i) /\ Typed
  BY DEF Inv
<1>1. Kept(i)' = Kept(i) /\ \A j \in Instances \ {i} : Kept(j)' = Kept(j)
  BY SameKept DEF Stop, Shutdown, ShutdownPanics, ShutdownDone, Exit, repoVars,
                  Repo!Delete, Repo!ListKeys, Repo!Return
<1> USE <1>0, <1>1
    DEF Typed, Own, ServerInv, Registering, Deleting, Over, Has, Lives, Requests, Endings,
        Unwritten, Repo!Answers, Become, End
<1>2. CASE Stop(i)
  BY <1>2 DEF Stop, repoVars
<1>3. CASE Shutdown(i)
  <2>1. /\ todo' = [todo EXCEPT ![i] = Kept(i)]
        /\ op' = [op EXCEPT ![i] = "Delete"]
        /\ pc' = [pc EXCEPT ![i] = "reading"]
        /\ target' = [target EXCEPT ![i] = i]
        /\ UNCHANGED <<records, found, answer, request, ended, cut, late>>
        /\ life[i] = "closing" /\ life' = [life EXCEPT ![i] = "deleting"]
    BY <1>3 DEF Shutdown, Repo!Delete, Repo!ListKeys, Repo!Call, Kept
  <2>2. Kept(i) \in SUBSET Repo!Key /\ Kept(i) \subseteq Repo!AllKeys(i)
    BY DEF Kept
  <2> QED BY <2>1, <2>2
<1>4. CASE ShutdownPanics(i)
  BY <1>4 DEF ShutdownPanics, repoVars
<1>5. CASE ShutdownDone(i)
  BY <1>5 DEF ShutdownDone, Repo!Return
<1>6. CASE Exit(i)
  BY <1>6 DEF Exit, repoVars
<1> QED BY <1>2, <1>3, <1>4, <1>5, <1>6

(* Delete, and what cuts it or Add short.                                  *)
LEMMA DeleteSteps ==
  ASSUME Inv, NEW i \in Instances, DeleteStep(i)
  PROVE  Typed' /\ ServerInv(i)' /\ Own(i)
<1>0. ServerInv(i) /\ Typed
  BY DEF Inv
<1>a. UNCHANGED <<life, request, ended, cut, late>>
  BY DEF DeleteStep, serverVars
<1> USE <1>0, <1>a
    DEF Typed, Own, ServerInv, Registering, Deleting, Over, Has, Lives, Repo!Answers
<1>1. CASE Repo!ReadKey(i)
  <2>1. Kept(i)' = Kept(i) /\ \A j \in Instances \ {i} : Kept(j)' = Kept(j)
    BY <1>1, SameKept DEF Repo!ReadKey
  <2> QED BY <1>1, <2>1 DEF Repo!ReadKey
<1>2. CASE Repo!ReadDone(i)
  <2>1. Kept(i)' = Kept(i) /\ \A j \in Instances \ {i} : Kept(j)' = Kept(j)
    BY <1>2, SameKept DEF Repo!ReadDone
  <2>2. life[i] = "deleting" /\ op[i] = "Delete" /\ found[i] # {} /\ todo[i] = {}
    BY <1>2 DEF Repo!ReadDone
  <2>3. /\ pc' = [pc EXCEPT ![i] = "deleting"]
        /\ todo' = [todo EXCEPT ![i] = found[i]]
        /\ UNCHANGED <<answer, records, op, target, found>>
        /\ pc[i] = "reading"
    BY <1>2, <2>2 DEF Repo!ReadDone
  <2> QED BY <2>1, <2>2, <2>3
<1>3. CASE Repo!DeleteKey(i)
  <2>1. PICK k \in todo[i] : /\ records' = records \ {k}
                             /\ todo' = [todo EXCEPT ![i] = @ \ {k}]
    BY <1>3 DEF Repo!DeleteKey, Repo!Purge
  <2>2. life[i] = "deleting" /\ pc[i] = "deleting" /\ k \in Repo!AllKeys(i)
    BY <1>3, <2>1 DEF Repo!DeleteKey
  <2>3. Kept(i)' = Kept(i) \ {k} /\ \A j \in Instances \ {i} : Kept(j)' = Kept(j)
    BY <2>1, <2>2, PurgeKept
  <2>4. UNCHANGED <<op, target, pc, found, answer>>
    BY <1>3 DEF Repo!DeleteKey
  <2> QED BY <2>1, <2>2, <2>3, <2>4
<1>4. CASE Repo!DeleteDone(i)
  <2>1. Kept(i)' = Kept(i) /\ \A j \in Instances \ {i} : Kept(j)' = Kept(j)
    BY <1>4, SameKept DEF Repo!DeleteDone
  <2> QED BY <1>4, <2>1 DEF Repo!DeleteDone, Repo!Finish
<1> QED BY <1>1, <1>2, <1>3, <1>4 DEF DeleteStep

LEMMA FailSteps ==
  ASSUME Inv, NEW i \in Instances, Fail(i) \/ Crash(i)
  PROVE  Typed' /\ ServerInv(i)' /\ Own(i)
<1>0. ServerInv(i) /\ Typed
  BY DEF Inv
<1> USE <1>0, DifferentRecs, RecInAllKeys
    DEF Typed, Own, ServerInv, Registering, Deleting, Over, Has, Lives, Requests, Endings,
        Unwritten, Repo!Answers, Repo!Fields, Repo!Fail, Repo!Finish
<1>1. ASSUME UNCHANGED records
      PROVE  Kept(i)' = Kept(i) /\ \A j \in Instances \ {i} : Kept(j)' = Kept(j)
  BY <1>1, SameKept
<1>2. CASE Fail(i) /\ Repo!Fail(i)
  BY <1>1, <1>2 DEF Fail
<1>3. CASE Fail(i) /\ Repo!AddIdleUnheard(i)
  <2>1. life[i] = "adding" /\ target[i] = i
    BY <1>3 DEF Repo!AddIdleUnheard, Repo!PutIdle
  <2>2. records' = records \cup {Repo!Rec(i, "idle")}
    BY <1>3, <2>1 DEF Repo!AddIdleUnheard, Repo!PutIdle, Repo!Put
  <2>3. Kept(i)' = Kept(i) \cup {Repo!Rec(i, "idle")}
        /\ \A j \in Instances \ {i} : Kept(j)' = Kept(j)
    BY <2>2, PutKept
  <2> QED BY <1>3, <2>1, <2>2, <2>3 DEF Fail, Repo!AddIdleUnheard, Repo!PutIdle, Repo!AllKeys
<1>4. CASE Crash(i)
  <2>1. CASE Repo!Fail(i) /\ cut' = cut \cup {i}
    <3>1. ended[i] = "none" /\ UNCHANGED records
      BY <2>1
    <3> QED BY <1>1, <1>4, <2>1, <3>1 DEF Crash, End
  <2>2. CASE pc[i] \in {"ready", "answered"} /\ UNCHANGED <<repoVars, cut>>
    <3>1. CASE ended[i] = "none"
      BY <1>1, <1>4, <2>2, <3>1 DEF Crash, End, repoVars
    <3>2. CASE ended[i] # "none"
      BY <1>1, <1>4, <2>2, <3>2 DEF Crash, End, repoVars
    <3> QED BY <3>1, <3>2
  <2> QED BY <1>4, <2>1, <2>2 DEF Crash
<1> QED BY <1>2, <1>3, <1>4 DEF Fail

LEMMA StepInv == Inv /\ [Next]_vars => Inv'
<1> SUFFICES ASSUME Inv, [Next]_vars PROVE Inv'
  OBVIOUS
<1>1. CASE UNCHANGED vars
  <2>1. \A i \in Instances : Kept(i)' = Kept(i)
    BY <1>1, SameKept DEF vars, repoVars
  <2> QED BY <1>1, <2>1, Bystander DEF Inv, Typed, vars, repoVars, serverVars
<1>2. ASSUME NEW i \in Instances, ServerStep(i) PROVE Inv'
  <2>1. Typed' /\ ServerInv(i)' /\ Own(i)
    BY <1>2, InitSteps, HandlerSteps, StopSteps, DeleteSteps, FailSteps DEF ServerStep
  <2>2. ASSUME NEW j \in Instances \ {i} PROVE ServerInv(j)'
    BY <2>1, Bystander DEF Own, Inv
  <2> QED BY <2>1, <2>2 DEF Inv
<1> QED BY <1>1, <1>2 DEF Next

LEMMA InitInv == Init => Inv
BY DEF Init, Repo!Init, Inv, Typed, ServerInv, Registering, Deleting, Over, Has, Kept,
       Lives, Requests, Endings, Unwritten, Repo!Answers

LEMMA Invariant == Spec => []Inv
BY InitInv, StepInv, PTL DEF Spec

-----------------------------------------------------------------------------
LEMMA CountedHas ==
  ASSUME Typed
  PROVE  /\ \A i \in Instances : i \in Repo!Counted <=> Has(i, "presence")
         /\ \A i \in Instances : i \in Repo!CountedIdle <=> Has(i, "idle")
         /\ Repo!Counted \cup Repo!CountedIdle \subseteq Instances
BY DEF Typed, Has, Kept, Repo!Counted, Repo!CountedIdle, Repo!Rec, Repo!AllKeys, Repo!Key,
       Repo!Fields

(* What a process that ended by itself leaves counted, a panic, a failing
   bucket operation or a handler of its last moments has left.             *)
THEOREM LeftoversExplainedTheorem == Spec => []LeftoversExplained
<1>1. Inv => LeftoversExplained
  <2> SUFFICES ASSUME Inv, NEW i \in Instances
               PROVE  /\ Has(i, "presence") => Accounted(i)
                      /\ Has(i, "idle") => Accounted(i) \/ i \in late
    BY CountedHas DEF LeftoversExplained, Inv
  <2> QED BY DEF Inv, Typed, Endings, ServerInv, Over, Has, Accounted
<1> QED BY <1>1, Invariant, PTL

(* An instance whose Shutdown succeeded is never counted again, whatever the
   handlers write that Shutdown did not wait for.                          *)
THEOREM CleanExitIsNotCountedTheorem == Spec => []CleanExitIsNotCounted
<1>1. Inv => CleanExitIsNotCounted
  BY CountedHas DEF Inv, ServerInv, Over, CleanExitIsNotCounted
<1> QED BY <1>1, Invariant, PTL

(* Records left after a successful Shutdown were being written when the server
   was told to stop.                                                       *)
THEOREM GhostsExplainedTheorem == Spec => []GhostsExplained
<1>1. Inv => GhostsExplained
  BY DEF Inv, ServerInv, Over, GhostsExplained, Kept
<1> QED BY <1>1, Invariant, PTL

-----------------------------------------------------------------------------
(* Shutdown finds what Init has added.                                     *)

(* Nobody purges a key between its listing and its reading: every key that is
   purged is one of the purging server's own.                              *)
Listed(i) == life[i] = "deleting" /\ pc[i] = "reading" => todo[i] \subseteq records

Unanswered(i) == pc[i] # "answered" => answer[i] = "none"

FoundInv == \A i \in Instances : Listed(i) /\ Unanswered(i)

(* Steps that purge nothing, in which the server has not just begun to read. *)
LEMMA NothingPurged ==
  ASSUME FoundInv, records \subseteq records', NEW i \in Instances,
         life'[i] = "deleting" /\ pc'[i] = "reading" =>
           life[i] = "deleting" /\ pc[i] = "reading" /\ todo'[i] \subseteq todo[i]
  PROVE  Listed(i)'
BY DEF FoundInv, Listed

LEMMA StepFound == Inv /\ FoundInv /\ [Next]_vars => FoundInv'
<1> SUFFICES ASSUME Inv, FoundInv, [Next]_vars PROVE FoundInv'
  OBVIOUS
<1>0. Typed /\ \A i \in Instances : ServerInv(i)
  BY DEF Inv
<1>1. CASE UNCHANGED vars
  BY <1>1 DEF vars, repoVars, serverVars, FoundInv, Listed, Unanswered
<1>2. ASSUME NEW i \in Instances,
             \/ InitFails(i) \/ NextRequest(i) \/ Fetch(i) \/ Respond(i) \/ Publish(i)
             \/ Stop(i) \/ ShutdownPanics(i) \/ Exit(i)
      PROVE  FoundInv'
  <2>1. UNCHANGED <<records, pc, todo, answer>> /\ \A j \in Instances :
          life'[j] = "deleting" => life[j] = "deleting"
    BY <1>0, <1>2 DEF InitFails, NextRequest, Fetch, Respond, Publish, Stop, ShutdownPanics,
       Exit, Handle, Become, repoVars, Typed
  <2> QED BY <2>1 DEF FoundInv, Listed, Unanswered
<1>3. ASSUME NEW i \in Instances, MarkIdle(i) \/ Record(i) PROVE FoundInv'
  <2>1. UNCHANGED <<pc, todo, answer, life>> /\ records \subseteq records'
    BY <1>3 DEF MarkIdle, Record, Handle, Repo!SetBusy, Repo!SetLastExecuted, Repo!Put,
       Repo!callVars, repoVars
  <2> QED BY <2>1, NothingPurged DEF FoundInv, Unanswered
<1>4. ASSUME NEW i \in Instances, Start(i) \/ AddIdle(i) \/ InitDone(i) \/ ShutdownDone(i)
      PROVE  FoundInv'
  <2>1. records \subseteq records'
    BY <1>4 DEF Start, AddIdle, InitDone, ShutdownDone, Repo!Add, Repo!AddIdle, Repo!PutIdle,
       Repo!Return, Repo!Put
  <2>2. ASSUME NEW j \in Instances
        PROVE  /\ life'[j] = "deleting" /\ pc'[j] = "reading" =>
                    life[j] = "deleting" /\ pc[j] = "reading" /\ todo'[j] = todo[j]
               /\ Unanswered(j)'
    BY <1>0, <1>4 DEF Start, AddIdle, InitDone, ShutdownDone, Become, serverVars, Repo!Add,
       Repo!AddIdle, Repo!PutIdle, Repo!Return, Repo!Call, Repo!Finish, Typed, FoundInv,
       Unanswered
  <2> QED BY <2>1, <2>2, NothingPurged DEF FoundInv
<1>5. ASSUME NEW i \in Instances, Shutdown(i) PROVE FoundInv'
  <2>1. /\ UNCHANGED <<records, answer>>
        /\ todo' = [todo EXCEPT ![i] = Kept(i)]
        /\ pc' = [pc EXCEPT ![i] = "reading"] /\ pc[i] = "ready"
        /\ life' = [life EXCEPT ![i] = "deleting"]
    BY <1>5 DEF Shutdown, Become, Repo!Delete, Repo!ListKeys, Repo!Call, Kept
  <2> QED BY <1>0, <2>1 DEF FoundInv, Listed, Unanswered, Typed, Kept
<1>6. ASSUME NEW i \in Instances, Fail(i) \/ Crash(i) PROVE FoundInv'
  <2>1. /\ UNCHANGED todo /\ records \subseteq records'
        /\ UNCHANGED <<pc, answer>> \/ Repo!Finish(i, "error")
        /\ \A j \in Instances : life'[j] = "deleting" => life[j] = "deleting"
    BY <1>0, <1>6 DEF Fail, Crash, Repo!Fail, Repo!AddIdleUnheard, Repo!PutIdle, Repo!Put,
                      repoVars, Typed
  <2> QED BY <1>0, <2>1 DEF FoundInv, Listed, Unanswered, Repo!Finish, Typed
<1>7. ASSUME NEW i \in Instances, DeleteStep(i) PROVE FoundInv'
  <2>0. UNCHANGED life
    BY <1>7 DEF DeleteStep, serverVars
  <2>1. CASE Repo!ReadKey(i)
    <3>1. UNCHANGED <<records, pc, answer>> /\ \A j \in Instances : todo'[j] \subseteq todo[j]
      BY <1>0, <2>1 DEF Repo!ReadKey, Typed
    <3> QED BY <2>0, <3>1, NothingPurged DEF FoundInv, Unanswered
  <2>2. CASE Repo!ReadDone(i) \/ Repo!DeleteDone(i)
    <3>1. /\ UNCHANGED records
          /\ \A j \in Instances \ {i} :
               pc'[j] = pc[j] /\ todo'[j] = todo[j] /\ answer'[j] = answer[j]
          /\ pc'[i] # "reading"
          /\ pc'[i] # "answered" => answer'[i] = answer[i] /\ pc[i] # "answered"
      BY <1>0, <2>2 DEF Repo!ReadDone, Repo!DeleteDone, Repo!Finish, Typed
    <3>2. ASSUME NEW j \in Instances PROVE Unanswered(j)'
      BY <3>1 DEF FoundInv, Unanswered
    <3> QED BY <2>0, <3>1, <3>2, NothingPurged DEF FoundInv
  <2>3. CASE Repo!DeleteKey(i)
    <3>1. PICK k \in todo[i] : /\ records' = records \ {k}
                               /\ todo' = [todo EXCEPT ![i] = @ \ {k}]
                               /\ UNCHANGED <<pc, answer>> /\ pc[i] = "deleting"
      BY <2>3 DEF Repo!DeleteKey, Repo!Purge
    <3>2. k.id = i
      BY <1>0, <3>1 DEF Typed, Lives, ServerInv, Registering, Deleting, Over, Repo!AllKeys
    <3>3. \A j \in Instances \ {i} :
            life[j] = "deleting" /\ pc[j] = "reading" => k \notin todo[j]
      BY <1>0, <3>2 DEF ServerInv, Deleting, Repo!AllKeys
    <3> QED BY <1>0, <2>0, <3>1, <3>3 DEF FoundInv, Listed, Unanswered, Typed
  <2> QED BY <1>7, <2>1, <2>2, <2>3 DEF DeleteStep
<1> QED BY <1>1, <1>2, <1>3, <1>4, <1>5, <1>6, <1>7 DEF Next, ServerStep

(* The Delete that Shutdown makes fails only where an operation on the bucket
   fails, however many servers share the bucket and whatever their handlers
   still write: it is never told that its own instance does not exist.     *)
THEOREM ShutdownFindsItsInstanceTheorem == Spec => []ShutdownFindsItsInstance
<1>1. Init => FoundInv
  BY DEF Init, Repo!Init, FoundInv, Listed, Unanswered
<1>2. Inv /\ FoundInv /\ [Next]_vars => FoundInv'
  BY StepFound
<1>3. Inv /\ FoundInv => ShutdownFindsItsInstance
  BY DEF Inv, ServerInv, Deleting, FoundInv, Listed, Unanswered, ShutdownFindsItsInstance
<1> QED BY <1>1, <1>2, <1>3, Invariant, PTL DEF Spec

-----------------------------------------------------------------------------
(* A step that moves neither the registry's instances nor a server's stage. *)
LEMMA SameCounted ==
  ASSUME UNCHANGED records PROVE Repo!Counted' = Repo!Counted
BY DEF Repo!Counted

LEMMA PutCounted ==
  ASSUME NEW i \in Instances, NEW f \in Repo!Fields, records' = records \cup {Repo!Rec(i, f)}
  PROVE  Repo!Counted' = IF f = "presence" THEN Repo!Counted \cup {i} ELSE Repo!Counted
<1>1. Repo!Rec(i, f).id = i /\ Repo!Rec(i, f).field = f
  BY DEF Repo!Rec
<1>2. CASE f = "presence"
  <2>1. {r \in records' : r.field = "presence"}
          = {r \in records : r.field = "presence"} \cup {Repo!Rec(i, f)}
    BY <1>1, <1>2
  <2> QED BY <1>1, <1>2, <2>1 DEF Repo!Counted
<1>3. CASE f # "presence"
  <2>1. {r \in records' : r.field = "presence"} = {r \in records : r.field = "presence"}
    BY <1>1, <1>3
  <2> QED BY <1>3, <2>1 DEF Repo!Counted
<1> QED BY <1>2, <1>3

LEMMA PurgeCounted ==
  ASSUME Typed, NEW i \in Instances, NEW k \in Repo!AllKeys(i), records' = records \ {k}
  PROVE  Repo!Counted' \in {Repo!Counted, Repo!Counted \ {i}}
<1>1. records \subseteq Repo!Key
  BY DEF Typed
<1>2. CASE k.field = "presence"
  <2>1. \A r \in records : r.field = "presence" /\ r.id = i => r = k
    BY <1>1, <1>2 DEF Repo!Key, Repo!AllKeys
  <2> QED BY <1>2, <2>1 DEF Repo!Counted, Repo!AllKeys
<1>3. CASE k.field # "presence"
  BY <1>3 DEF Repo!Counted
<1> QED BY <1>2, <1>3

StageOf(l) == IF l \in {"new", "adding"} THEN "new" ELSE IF l = "serving" THEN "serving" ELSE "gone"

LEMMA StageIs == Stage = [i \in Instances |-> StageOf(life[i])]
BY DEF Stage, StageOf

(* What a server's step does to its stage.                                 *)
LEMMA StageStep ==
  ASSUME NEW i \in Instances, NEW l, life \in [Instances -> Lives], life' = [life EXCEPT ![i] = l]
  PROVE  Stage' = [Stage EXCEPT ![i] = StageOf(l)]
<1>1. Stage' = [j \in Instances |-> StageOf(life'[j])]
  BY DEF Stage, StageOf
<1> QED BY <1>1, StageIs

LEMMA StageStutters == ASSUME UNCHANGED life PROVE UNCHANGED Stage
BY DEF Stage

(* Steps by which the stage, and nothing that is counted, changes.         *)
LEMMA MapStage ==
  ASSUME Inv, NEW i \in Instances, UNCHANGED records,
         NEW l, life' = [life EXCEPT ![i] = l],
         \/ StageOf(l) = "gone"
         \/ StageOf(l) = StageOf(life[i])
         \/ life[i] = "adding" /\ l = "serving" /\ Has(i, "presence")
  PROVE  Reg!Step(i) \/ UNCHANGED Reg!vars
<1>1. Repo!Counted' = Repo!Counted
  BY SameCounted
<1>2. Stage' = [Stage EXCEPT ![i] = StageOf(l)]
  BY StageStep DEF Inv, Typed
<1>3. CASE StageOf(l) = "gone"
  BY <1>1, <1>2, <1>3 DEF Reg!Step, Reg!Leave
<1>4. CASE StageOf(l) = StageOf(life[i])
  BY <1>1, <1>2, <1>4, StageIs DEF Reg!vars
<1>5. CASE life[i] = "adding" /\ l = "serving" /\ Has(i, "presence")
  <2>1. Stage[i] = "new" /\ StageOf(l) = "serving"
    BY <1>5, StageIs DEF StageOf
  <2>2. i \in Repo!Counted
    BY <1>5, CountedHas DEF Inv
  <2> QED BY <1>1, <1>2, <2>1, <2>2 DEF Reg!Step, Reg!Serve
<1> QED BY <1>3, <1>4, <1>5

(* Every step of a server is one of Registry or leaves it as it is.        *)
LEMMA MapStep ==
  ASSUME Inv, NEW i \in Instances, ServerStep(i)
  PROVE  Reg!Step(i) \/ UNCHANGED Reg!vars
<1>0. ServerInv(i) /\ Typed
  BY DEF Inv
<1>1. CASE UNCHANGED <<records, life>>
  BY <1>1, SameCounted, StageStutters DEF Reg!vars
<1>2. CASE Start(i)
  <2>1. records' = records \cup {Repo!Rec(i, "presence")} /\ life' = [life EXCEPT ![i] = "adding"]
        /\ life[i] = "new"
    BY <1>2 DEF Start, Become, Repo!Add, Repo!Put
  <2>2. Repo!Counted' = Repo!Counted \cup {i}
    BY <2>1, PutCounted DEF Repo!Fields
  <2>3. Stage' = [Stage EXCEPT ![i] = "new"] /\ Stage[i] = "new"
    BY <1>0, <2>1, StageStep, StageIs DEF Typed, StageOf
  <2>4. Stage' = Stage
    BY <2>3, StageIs
  <2> QED BY <2>2, <2>3, <2>4 DEF Reg!Step, Reg!Register
<1>3. ASSUME NEW f \in {"idle", "lastExecuted"}, records' = records \cup {Repo!Rec(i, f)},
             UNCHANGED life
      PROVE  UNCHANGED Reg!vars
  BY <1>3, PutCounted, StageStutters DEF Reg!vars, Repo!Fields
<1>4. CASE AddIdle(i) \/ (Fail(i) /\ Repo!AddIdleUnheard(i))
  <2>1. target[i] = i
    BY <1>0, <1>4 DEF Typed, Lives, AddIdle, Repo!AddIdle, Repo!AddIdleUnheard, Repo!PutIdle,
                      ServerInv, Registering, Deleting, Over
  <2> QED BY <1>3, <1>4, <2>1 DEF AddIdle, Fail, Repo!AddIdle, Repo!AddIdleUnheard, Repo!PutIdle,
                                  Repo!Put, serverVars
<1>5. CASE MarkIdle(i) \/ Record(i)
  BY <1>1, <1>3, <1>5 DEF MarkIdle, Record, Handle, Repo!SetBusy, Repo!SetLastExecuted, Repo!Put,
                          repoVars
<1>6. CASE NextRequest(i) \/ Fetch(i) \/ Respond(i) \/ Publish(i) \/ (Fail(i) /\ Repo!Fail(i))
  BY <1>1, <1>6 DEF NextRequest, Fetch, Respond, Publish, Fail, Handle, Repo!Fail, repoVars
<1>7. CASE \/ InitFails(i) \/ Stop(i) \/ Shutdown(i) \/ ShutdownPanics(i)
           \/ ShutdownDone(i) \/ Exit(i) \/ Crash(i)
  <2>1. UNCHANGED records
    BY <1>7 DEF InitFails, Stop, Shutdown, ShutdownPanics, ShutdownDone, Exit, Crash,
                repoVars, Repo!Delete, Repo!ListKeys, Repo!Return, Repo!Fail
  <2>2. PICK l \in {"closing", "deleting", "closed", "exited"} : life' = [life EXCEPT ![i] = l]
    BY <1>7 DEF InitFails, Stop, Shutdown, ShutdownPanics, ShutdownDone, Exit, Crash, Become
  <2>3. StageOf(l) = "gone"
    BY <2>2 DEF StageOf
  <2> QED BY <2>1, <2>2, <2>3, MapStage
<1>8. CASE InitDone(i)
  <2>1. UNCHANGED records
    BY <1>8 DEF InitDone, Repo!Return
  <2>2. CASE answer[i] = "ok" /\ Become(i, "adding", "serving")
    <3>1. Has(i, "presence")
      BY <1>0, <2>2 DEF ServerInv, Registering, Become
    <3> QED BY <2>1, <2>2, <3>1, MapStage DEF Become
  <2>3. CASE Become(i, "adding", "exited")
    <3>1. StageOf("exited") = "gone"
      BY DEF StageOf
    <3> QED BY <2>1, <2>3, <3>1, MapStage DEF Become
  <2> QED BY <1>8, <2>2, <2>3 DEF InitDone
<1>9. CASE DeleteStep(i)
  <2>1. UNCHANGED life
    BY <1>9 DEF DeleteStep, serverVars
  <2>2. CASE Repo!ReadKey(i) \/ Repo!ReadDone(i) \/ Repo!DeleteDone(i)
    BY <1>1, <2>1, <2>2 DEF Repo!ReadKey, Repo!ReadDone, Repo!DeleteDone
  <2>3. CASE Repo!DeleteKey(i)
    <3>1. PICK k \in todo[i] : records' = records \ {k}
      BY <2>3 DEF Repo!DeleteKey, Repo!Purge
    <3>2. life[i] = "deleting" /\ k \in Repo!AllKeys(i)
      BY <1>0, <2>3, <3>1 DEF Repo!DeleteKey, Typed, Lives, ServerInv, Registering, Deleting, Over
    <3>3. Stage[i] = "gone" /\ UNCHANGED Stage
      BY <2>1, <3>2, StageIs, StageStutters DEF StageOf
    <3>4. Repo!Counted' \in {Repo!Counted, Repo!Counted \ {i}}
      BY <1>0, <3>1, <3>2, PurgeCounted
    <3> QED BY <3>3, <3>4 DEF Reg!Step, Reg!Withdraw, Reg!vars
  <2> QED BY <1>9, <2>2, <2>3 DEF DeleteStep
<1> QED BY <1>2, <1>4, <1>5, <1>6, <1>7, <1>8, <1>9 DEF ServerStep, Fail

(* The servers implement Registry: an instance is counted before its server
   serves and is withdrawn only after it has left, by its own server.      *)
THEOREM ImplementsRegistryTheorem == Spec => ImplementsRegistry
<1>1. Init => Reg!Init
  BY DEF Init, Repo!Init, Repo!Counted, Stage, Reg!Init
<1>2. Inv /\ [Next]_vars => [Reg!Next]_Reg!vars
  <2>1. ASSUME Inv, UNCHANGED vars PROVE UNCHANGED Reg!vars
    BY <2>1, SameCounted, StageStutters DEF vars, repoVars, serverVars, Reg!vars
  <2>2. ASSUME Inv, NEW i \in Instances, ServerStep(i) PROVE [Reg!Next]_Reg!vars
    BY <2>2, MapStep DEF Reg!Next
  <2> QED BY <2>1, <2>2 DEF Next
<1> QED BY <1>1, <1>2, Invariant, PTL DEF Spec, Reg!Spec, ImplementsRegistry

(* A server that answers requests is counted, so the scaler does not start
   another pod in its place: known of Registry, and so of the servers.     *)
THEOREM ServingIsCountedTheorem ==
  Spec => [](\A i \in Instances : life[i] = "serving" => i \in Repo!Counted)
<1> DEFINE StageOK == Stage \in [Instances -> {"new", "serving", "gone"}]
<1>1. Reg!Init => Reg!ServingIsCounted /\ StageOK
  BY DEF Reg!Init, Reg!ServingIsCounted
<1>2. Reg!ServingIsCounted /\ StageOK /\ [Reg!Next]_Reg!vars => (Reg!ServingIsCounted /\ StageOK)'
  BY DEF Reg!Next, Reg!Step, Reg!Register, Reg!Serve, Reg!Leave, Reg!Withdraw, Reg!vars,
         Reg!ServingIsCounted
<1>3. Reg!ServingIsCounted => \A i \in Instances : life[i] = "serving" => i \in Repo!Counted
  BY StageIs DEF Reg!ServingIsCounted, StageOf
<1> HIDE DEF StageOK
<1> QED BY <1>1, <1>2, <1>3, ImplementsRegistryTheorem, PTL DEF ImplementsRegistry, Reg!Spec

-----------------------------------------------------------------------------
(* Servers that are not bound: all of them, as Init is written.            *)

(* Shutdown of such a server ends the process before it deletes anything.  *)
NeverDeletes == \A i \in Instances \ Bound : life[i] \notin {"deleting", "closed"}

LEMMA StepNeverDeletes == Typed /\ NeverDeletes /\ [Next]_vars => NeverDeletes'
<1> SUFFICES ASSUME Typed, NeverDeletes, [Next]_vars PROVE NeverDeletes'
  OBVIOUS
<1>1. CASE UNCHANGED life
  BY <1>1 DEF NeverDeletes
<1>2. ASSUME NEW i \in Instances, NEW l, life' = [life EXCEPT ![i] = l],
             l \notin {"deleting", "closed"} \/ i \in Bound
      PROVE  NeverDeletes'
  BY <1>2 DEF NeverDeletes, Typed
<1>3. ASSUME NEW i \in Instances,
             \/ InitFails(i) \/ Start(i) \/ InitDone(i) \/ Stop(i) \/ Shutdown(i)
             \/ ShutdownPanics(i) \/ ShutdownDone(i) \/ Exit(i) \/ Crash(i)
      PROVE  \E l : /\ life' = [life EXCEPT ![i] = l]
                    /\ l \notin {"deleting", "closed"} \/ i \in Bound
  BY <1>3 DEF InitFails, Start, InitDone, Stop, Shutdown, ShutdownPanics, ShutdownDone, Exit,
              Crash, Become, NeverDeletes
<1>4. ASSUME NEW i \in Instances,
             \/ AddIdle(i) \/ NextRequest(i) \/ MarkIdle(i) \/ Fetch(i) \/ Respond(i)
             \/ Record(i) \/ Publish(i) \/ DeleteStep(i) \/ Fail(i)
      PROVE  UNCHANGED life
  BY <1>4 DEF AddIdle, NextRequest, MarkIdle, Fetch, Respond, Record, Publish, DeleteStep, Fail,
              Handle, serverVars
<1> QED BY <1>1, <1>2, <1>3, <1>4 DEF Next, ServerStep, vars, serverVars

(* An instance that counts and whose server is not bound counts for ever, also
   when its process has long ended: the count only grows, and the scaler takes
   pods that are gone for pods it has (Server.Init, which drops the function
   instance that Shutdown would delete).                                   *)
UnboundStaysCounted ==
  [][\A i \in Instances \ Bound : i \in Repo!Counted => i \in Repo!Counted']_vars

THEOREM UnboundStaysCountedTheorem == Spec => UnboundStaysCounted
<1> DEFINE Stays == \A i \in Instances \ Bound : i \in Repo!Counted => i \in Repo!Counted'
<1>1. Init => NeverDeletes
  BY DEF Init, NeverDeletes
<1>2. Inv /\ NeverDeletes /\ [Next]_vars => NeverDeletes'
  BY StepNeverDeletes DEF Inv
<1>3. Inv /\ NeverDeletes /\ [Next]_vars => [Stays]_vars
  <2> SUFFICES ASSUME Inv, NeverDeletes, Next, NEW i \in Instances \ Bound, i \in Repo!Counted
               PROVE  i \in Repo!Counted'
    OBVIOUS
  <2>1. CASE records \subseteq records'
    BY <2>1 DEF Repo!Counted
  <2>2. ASSUME NEW j \in Instances, Repo!DeleteKey(j) PROVE i \in Repo!Counted'
    <3>1. PICK k \in todo[j] : records' = records \ {k}
      BY <2>2 DEF Repo!DeleteKey, Repo!Purge
    <3>2. life[j] = "deleting" /\ k \in Repo!AllKeys(j)
      BY <2>2, <3>1 DEF Repo!DeleteKey, Inv, Typed, Lives, ServerInv, Registering, Deleting, Over
    <3>3. Repo!Counted' \in {Repo!Counted, Repo!Counted \ {j}}
      BY <3>1, <3>2, PurgeCounted DEF Inv
    <3> QED BY <3>2, <3>3 DEF NeverDeletes
  <2>3. PICK j \in Instances : ServerStep(j)
    BY DEF Next
  <2>4. CASE \/ InitFails(j) \/ NextRequest(j) \/ Fetch(j) \/ Respond(j) \/ Publish(j) \/ Stop(j)
             \/ ShutdownPanics(j) \/ Exit(j) \/ InitDone(j) \/ ShutdownDone(j) \/ Shutdown(j)
             \/ Crash(j)
    BY <2>1, <2>4 DEF InitFails, NextRequest, Fetch, Respond, Publish, Stop, ShutdownPanics, Exit,
       InitDone, ShutdownDone, Shutdown, Crash, Repo!Return, Repo!Delete, Repo!ListKeys,
       Repo!Fail, repoVars
  <2>5. CASE Start(j) \/ AddIdle(j) \/ MarkIdle(j) \/ Record(j) \/ Fail(j)
    BY <2>1, <2>5 DEF Start, AddIdle, MarkIdle, Record, Fail, Repo!Add, Repo!AddIdle,
       Repo!AddIdleUnheard, Repo!PutIdle, Repo!Fail, Repo!SetBusy, Repo!SetLastExecuted, Repo!Put,
       repoVars
  <2>6. CASE DeleteStep(j)
    BY <2>1, <2>2, <2>6 DEF DeleteStep, Repo!ReadKey, Repo!ReadDone, Repo!DeleteDone
  <2> QED BY <2>3, <2>4, <2>5, <2>6 DEF ServerStep
<1> QED BY <1>1, <1>2, <1>3, Invariant, PTL DEF Spec, UnboundStaysCounted

-----------------------------------------------------------------------------
(* The types that the theorems above do without.                           *)
RestTyped ==
  /\ listed \in [Instances -> SUBSET Repo!Key]
  /\ winners \in [Instances -> SUBSET Instances]
  /\ written \in [Instances -> BOOLEAN]
  /\ cut \subseteq Instances
  /\ late \subseteq Instances

LEMMA StepRestTyped == Inv /\ RestTyped /\ [Next]_vars => RestTyped'
<1> SUFFICES ASSUME Inv, RestTyped, [Next]_vars PROVE RestTyped'
  OBVIOUS
<1>1. CASE UNCHANGED vars
  BY <1>1 DEF vars, repoVars, serverVars, RestTyped
<1>2. ASSUME NEW i \in Instances, ServerStep(i)
      PROVE  cut' \subseteq Instances /\ late' \subseteq Instances
  BY <1>2 DEF RestTyped, ServerStep, InitFails, Start, AddIdle, InitDone, Handle, NextRequest,
              MarkIdle, Fetch, Respond, Record, Publish, Stop, Shutdown, ShutdownPanics,
              DeleteStep, Fail, ShutdownDone, Exit, Crash, serverVars
<1>3. ASSUME NEW i \in Instances, ServerStep(i) PROVE written' \in [Instances -> BOOLEAN]
  <2>1. ASSUME NEW k, Repo!Put(k) PROVE written' \in [Instances -> BOOLEAN]
    BY <2>1 DEF Repo!Put
  <2>2. CASE Repo!Return(i)
    BY <2>2 DEF Repo!Return, RestTyped
  <2>3. CASE UNCHANGED written
    BY <2>3 DEF RestTyped
  <2> QED
    BY <1>3, <2>1, <2>2, <2>3
       DEF ServerStep, InitFails, Start, AddIdle, InitDone, NextRequest, MarkIdle, Fetch, Respond,
           Record, Publish, Stop, Shutdown, ShutdownPanics, DeleteStep, Fail, ShutdownDone, Exit,
           Crash, repoVars, Repo!Add, Repo!AddIdle, Repo!AddIdleUnheard, Repo!PutIdle, Repo!SetBusy,
           Repo!SetLastExecuted,
           Repo!Delete, Repo!ListKeys, Repo!ReadKey, Repo!ReadDone, Repo!DeleteKey,
           Repo!DeleteDone, Repo!Fail
<1>4. ASSUME NEW i \in Instances, ServerStep(i)
      PROVE  listed' \in [Instances -> SUBSET Repo!Key] /\ winners' \in [Instances -> SUBSET Instances]
  <2>1. CASE UNCHANGED <<listed, winners>>
    BY <2>1 DEF RestTyped
  <2>2. CASE Repo!Add(i, i) \/ Repo!Delete(i, i) \/ Repo!DeleteKey(i) \/ Repo!Return(i)
    BY <2>2 DEF Repo!Add, Repo!Delete, Repo!ListKeys, Repo!DeleteKey, Repo!Return, RestTyped,
                Repo!AllKeys
  <2> QED
    BY <1>4, <2>1, <2>2
       DEF ServerStep, InitFails, Start, AddIdle, InitDone, NextRequest, MarkIdle, Fetch, Respond,
           Record, Publish, Stop, Shutdown, ShutdownPanics, DeleteStep, Fail, ShutdownDone, Exit,
           Crash, repoVars, Repo!AddIdle, Repo!AddIdleUnheard, Repo!PutIdle, Repo!SetBusy,
           Repo!SetLastExecuted,
           Repo!ReadKey, Repo!ReadDone, Repo!DeleteDone, Repo!Fail
<1>5. ASSUME NEW i \in Instances, ServerStep(i) PROVE RestTyped'
  BY <1>2, <1>3, <1>4, <1>5 DEF RestTyped
<1> QED BY <1>1, <1>5 DEF Next

(* Every variable of the servers and of the repository they write to keeps
   its type.                                                               *)
THEOREM TypeOKTheorem == Spec => []TypeOK
<1>1. Init => RestTyped
  BY DEF Init, Repo!Init, RestTyped
<1>2. Inv /\ RestTyped => TypeOK
  BY DEF Inv, Typed, RestTyped, TypeOK, Repo!TypeOK
<1>3. Inv /\ RestTyped /\ [Next]_vars => RestTyped'
  BY StepRestTyped
<1> QED BY <1>1, <1>2, <1>3, Invariant, PTL DEF Spec

=============================================================================
