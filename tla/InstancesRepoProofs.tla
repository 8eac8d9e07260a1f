------------------------- MODULE InstancesRepoProofs -------------------------
(***************************************************************************)
(* Theorems about InstancesRepo, for every set of clients and instances.   *)
(***************************************************************************)
EXTENDS InstancesRepo, TLAPS

-----------------------------------------------------------------------------
(* What is needed of the types.                                            *)
Typed ==
  /\ records \subseteq Key
  /\ op \in [Clients -> {"none", "Add", "Get", "List", "Delete"}]
  /\ target \in [Clients -> Instances \cup {NoInstance}]
  /\ pc \in [Clients -> {"ready", "adding", "reading", "deleting", "answered"}]
  /\ todo \in [Clients -> SUBSET Key]
  /\ found \in [Clients -> SUBSET Key]
  /\ answer \in [Clients -> Answers]
  /\ listed \in [Clients -> SUBSET Key]
  /\ winners \in [Instances -> SUBSET Clients]
  /\ \A c \in Clients : pc[c] = "adding" => target[c] \in Instances

LEMMA InitTyped == Init => Typed
BY DEF Init, Typed, Answers

LEMMA RecInKey == ASSUME NEW i \in Instances, NEW f \in Fields PROVE Rec(i, f) \in Key
BY DEF Rec, Key

LEMMA WriteTyped ==
  ASSUME Typed, NEW i \in Instances,
         SetBusy(i, TRUE) \/ SetBusy(i, FALSE) \/ SetLastExecuted(i)
  PROVE  Typed'
BY RecInKey DEF Typed, SetBusy, SetLastExecuted, Put, Purge, Fields, callVars

LEMMA AddTyped ==
  ASSUME Typed, NEW c \in Clients, NEW i \in Instances,
         Add(c, i) \/ AddExists(c, i) \/ AddIdle(c) \/ AddIdleUnheard(c)
  PROVE  Typed'
<1> USE RecInKey DEF Typed, Answers, Fields
<1>1. CASE Add(c, i)
  BY <1>1 DEF Add, Call, Put
<1>2. CASE AddExists(c, i)
  BY <1>2 DEF AddExists, Call
<1>3. CASE AddIdle(c) \/ AddIdleUnheard(c)
  BY <1>3 DEF AddIdle, AddIdleUnheard, PutIdle, Put, Finish
<1> QED BY <1>1, <1>2, <1>3

LEMMA ListTyped ==
  ASSUME Typed, NEW c \in Clients, NEW i \in Instances, Get(c, i) \/ Delete(c, i)
  PROVE  Typed'
BY DEF Typed, Get, Delete, ListKeys, Call, AllKeys

LEMMA CallTyped ==
  ASSUME Typed, NEW c \in Clients,
         \/ List(c) \/ ReadKey(c) \/ ReadMissing(c) \/ ReadDone(c)
         \/ DeleteKey(c) \/ DeleteDone(c) \/ Fail(c) \/ Return(c)
  PROVE  Typed'
<1> USE DEF Typed, Answers
<1>1. CASE List(c)
  BY <1>1 DEF List, ListKeys, Call
<1>2. CASE ReadKey(c)
  BY <1>2 DEF ReadKey
<1>3. CASE ReadMissing(c) \/ DeleteDone(c) \/ Fail(c)
  BY <1>3 DEF ReadMissing, DeleteDone, Fail, Finish
<1>4. CASE ReadDone(c)
  BY <1>4 DEF ReadDone, Finish
<1>5. CASE DeleteKey(c)
  BY <1>5 DEF DeleteKey, Purge, Key
<1>6. CASE Return(c)
  BY <1>6 DEF Return
<1> QED BY <1>1, <1>2, <1>3, <1>4, <1>5, <1>6

LEMMA StepTyped == Typed /\ [Next]_vars => Typed'
<1> SUFFICES ASSUME Typed, [Next]_vars PROVE Typed'
  OBVIOUS
<1>1. CASE UNCHANGED vars
  BY <1>1 DEF Typed, vars, callVars
<1>2. ASSUME NEW c \in Clients, AddIdle(c) \/ AddIdleUnheard(c) PROVE Typed'
  BY <1>2, RecInKey DEF AddIdle, AddIdleUnheard, PutIdle, Put, Finish, Typed, Answers, Fields
<1> QED BY <1>1, <1>2, WriteTyped, AddTyped, ListTyped, CallTyped DEF Next

-----------------------------------------------------------------------------
(* One Add creates an instance.                                            *)

WinnerInv == Typed /\ OneWinner

LEMMA StepWinnerInv == WinnerInv /\ [Next]_vars => WinnerInv'
<1> SUFFICES ASSUME WinnerInv, [Next]_vars PROVE WinnerInv'
  OBVIOUS
<1>0. Typed'
  BY StepTyped DEF WinnerInv
<1> USE DEF WinnerInv, OneWinner
<1>1. CASE UNCHANGED <<records, winners>>
  BY <1>0, <1>1 DEF Rec
<1>2. ASSUME NEW i \in Instances, SetBusy(i, TRUE) \/ SetBusy(i, FALSE) \/ SetLastExecuted(i)
      PROVE  WinnerInv'
  BY <1>0, <1>2 DEF SetBusy, SetLastExecuted, Put, Purge, Rec
<1>3. ASSUME NEW c \in Clients, NEW i \in Instances, Add(c, i) PROVE WinnerInv'
  BY <1>0, <1>3 DEF Add, Put, Rec, Typed
<1>4. ASSUME NEW c \in Clients, AddIdle(c) \/ AddIdleUnheard(c) PROVE WinnerInv'
  BY <1>0, <1>4 DEF AddIdle, AddIdleUnheard, PutIdle, Put, Rec
<1>5. ASSUME NEW c \in Clients, DeleteKey(c) PROVE WinnerInv'
  <2>1. PICK k \in todo[c] :
          /\ records' = records \ {k}
          /\ winners' = IF k.field = "presence" THEN [winners EXCEPT ![k.id] = {}]
                        ELSE winners
    BY <1>5 DEF DeleteKey, Purge
  <2>2. k \in Key /\ k = Rec(k.id, k.field) /\ k.id \in Instances
    BY <2>1 DEF Typed, Key, Rec
  <2>3. CASE k.field = "presence"
    BY <1>0, <2>1, <2>2, <2>3 DEF Rec, Typed
  <2>4. CASE k.field # "presence"
    BY <1>0, <2>1, <2>2, <2>4 DEF Rec
  <2> QED BY <2>3, <2>4
<1> QED
  BY <1>1, <1>2, <1>3, <1>4, <1>5
     DEF Next, vars, AddExists, Get, Delete, List, ListKeys, ReadKey, ReadMissing,
         ReadDone, DeleteDone, Fail, Return

(* However many clients add the same instance, one of them creates it, until
   it is deleted (InstancesRepo.Add through Bucket.Create).                 *)
THEOREM OneWinnerTheorem == Spec => []OneWinner
<1>1. Init => WinnerInv
  BY InitTyped DEF Init, WinnerInv, OneWinner
<1>2. WinnerInv /\ [Next]_vars => WinnerInv'
  BY StepWinnerInv
<1>3. WinnerInv => OneWinner
  BY DEF WinnerInv
<1> QED BY <1>1, <1>2, <1>3, PTL DEF Spec

-----------------------------------------------------------------------------
(* What a client knows while it is in an operation.                        *)

(* A client that reads has read or has still to read what it has listed.   *)
Reading(c) ==
  /\ pc[c] = "ready" => found[c] = {} /\ answer[c] = "none"
  /\ pc[c] = "reading" => found[c] \cup todo[c] = listed[c] /\ answer[c] = "none"
  /\ pc[c] = "reading" => op[c] \in {"Get", "List", "Delete"}
  /\ pc[c] = "adding" => op[c] = "Add"
  /\ (op[c] \in {"Get", "List"} /\ answer[c] = "ok") => found[c] = listed[c]

(* As long as nobody writes to the instance, all its records are among those
   that a client in Delete has listed, and then among those it has still to
   purge.                                                                  *)
Deleting(c) ==
  /\ pc[c] = "deleting" => op[c] = "Delete" /\ answer[c] = "none"
  /\ (op[c] = "Delete" /\ ~ written[c]) =>
       /\ pc[c] = "reading" => records \cap AllKeys(target[c]) \subseteq listed[c]
       /\ pc[c] = "deleting" => records \cap AllKeys(target[c]) \subseteq todo[c]
       /\ answer[c] = "ok" => records \cap AllKeys(target[c]) = {}

ClientInv == \A c \in Clients : Reading(c) /\ Deleting(c)

CallInv == Typed /\ written \in [Clients -> BOOLEAN] /\ ClientInv

(* A step that writes nothing but one key, and no local variables.         *)
LEMMA PutKeeps ==
  ASSUME CallInv, NEW k \in Key, Put(k), NEW c \in Clients,
         op'[c] = op[c], target'[c] = target[c], pc'[c] = pc[c], todo'[c] = todo[c],
         answer'[c] = answer[c], listed'[c] = listed[c]
  PROVE  Deleting(c)'
BY DEF CallInv, ClientInv, Deleting, Put, AllKeys

LEMMA PurgeKeeps ==
  ASSUME CallInv, NEW k \in Key, Purge(k), written' = written, NEW c \in Clients,
         op'[c] = op[c], target'[c] = target[c], pc'[c] = pc[c], todo'[c] = todo[c],
         answer'[c] = answer[c], listed'[c] = listed[c]
  PROVE  Deleting(c)'
BY DEF CallInv, ClientInv, Deleting, Purge, AllKeys

LEMMA WriteClientInv ==
  ASSUME CallInv, NEW i \in Instances,
         SetBusy(i, TRUE) \/ SetBusy(i, FALSE) \/ SetLastExecuted(i)
  PROVE  ClientInv'
<1>1. UNCHANGED <<op, target, pc, todo, found, answer, listed>>
  BY DEF SetBusy, SetLastExecuted, callVars
<1>2. \A c \in Clients : Reading(c)'
  BY <1>1 DEF CallInv, ClientInv, Reading
<1>3. CASE SetBusy(i, TRUE)
  BY <1>1, <1>2, <1>3, PurgeKeeps, RecInKey DEF SetBusy, ClientInv, Fields
<1>4. CASE SetBusy(i, FALSE) \/ SetLastExecuted(i)
  BY <1>1, <1>2, <1>4, PutKeeps, RecInKey DEF SetBusy, SetLastExecuted, ClientInv, Fields
<1> QED BY <1>3, <1>4

(* The steps of one client leave the others' variables alone.              *)
LEMMA CallClientInv ==
  ASSUME CallInv, NEW c \in Clients,
         \/ \E i \in Instances : Add(c, i) \/ AddExists(c, i) \/ Get(c, i) \/ Delete(c, i)
         \/ List(c) \/ AddIdle(c) \/ AddIdleUnheard(c)
         \/ ReadKey(c) \/ ReadMissing(c) \/ ReadDone(c) \/ DeleteKey(c) \/ DeleteDone(c)
         \/ Fail(c) \/ Return(c)
  PROVE  ClientInv'
<1> USE DEF CallInv, ClientInv
<1>1. ASSUME NEW i \in Instances, Add(c, i) PROVE ClientInv'
  BY <1>1, PutKeeps, RecInKey DEF Add, Call, Put, Fields, Reading, Deleting, Typed
<1>2. ASSUME NEW i \in Instances, AddExists(c, i) PROVE ClientInv'
  BY <1>2 DEF AddExists, Call, Reading, Deleting, Typed
<1>3. ASSUME NEW i \in Instances, Get(c, i) \/ Delete(c, i) PROVE ClientInv'
  BY <1>3 DEF Get, Delete, ListKeys, Call, Reading, Deleting, Typed
<1>4. CASE List(c)
  BY <1>4 DEF List, ListKeys, Call, Reading, Deleting, Typed
<1>5. CASE AddIdle(c) \/ AddIdleUnheard(c)
  BY <1>5, PutKeeps, RecInKey
     DEF AddIdle, AddIdleUnheard, PutIdle, Put, Fields, Finish, Reading, Deleting, Typed
<1>6. CASE ReadKey(c)
  BY <1>6 DEF ReadKey, Reading, Deleting, Typed
<1>7. CASE ReadMissing(c)
  BY <1>7 DEF ReadMissing, Finish, Reading, Deleting, Typed
<1>8. CASE ReadDone(c)
  <2>1. /\ pc[c] = "reading" /\ found[c] = listed[c]
        /\ UNCHANGED <<records, op, target, found, listed, written>>
    <3>1. pc[c] = "reading" /\ todo[c] = {}
      BY <1>8 DEF ReadDone
    <3>2. found[c] = listed[c]
      BY <3>1 DEF Reading
    <3> QED BY <1>8, <3>1, <3>2 DEF ReadDone, Finish
  <2>2. CASE pc'[c] = "deleting"
    BY <1>8, <2>1, <2>2 DEF ReadDone, Finish, Reading, Deleting, Typed
  <2>3. CASE pc'[c] # "deleting"
    <3>1. PICK a \in {"ok", "notFound"} :
            /\ Finish(c, a)
            /\ a = "ok" => op[c] \in {"Get", "List"}
      BY <1>8, <2>3 DEF ReadDone, Typed
    <3>2. UNCHANGED todo
      BY <1>8, <2>3 DEF ReadDone, Typed
    <3> QED BY <2>1, <3>1, <3>2 DEF Finish, Reading, Deleting, Typed
  <2> QED BY <2>2, <2>3
<1>9. CASE DeleteKey(c)
  BY <1>9, PurgeKeeps DEF DeleteKey, Purge, Reading, Deleting, Typed
<1>10. CASE DeleteDone(c) \/ Fail(c)
  BY <1>10 DEF DeleteDone, Fail, Finish, Reading, Deleting, Typed
<1>11. CASE Return(c)
  BY <1>11 DEF Return, Reading, Deleting, Typed
<1> QED BY <1>1, <1>2, <1>3, <1>4, <1>5, <1>6, <1>7, <1>8, <1>9, <1>10, <1>11

LEMMA StepWritten ==
  written \in [Clients -> BOOLEAN] /\ [Next]_vars => written' \in [Clients -> BOOLEAN]
<1> SUFFICES ASSUME written \in [Clients -> BOOLEAN], [Next]_vars
             PROVE  written' \in [Clients -> BOOLEAN]
  OBVIOUS
<1>1. ASSUME NEW k, Put(k) PROVE written' \in [Clients -> BOOLEAN]
  BY <1>1 DEF Put
<1>2. ASSUME NEW c \in Clients, Return(c) PROVE written' \in [Clients -> BOOLEAN]
  BY <1>2 DEF Return
<1> QED
  BY <1>1, <1>2
     DEF Next, vars, SetBusy, SetLastExecuted, Add, AddExists, AddIdle, AddIdleUnheard, PutIdle,
         Get, Delete, List, ListKeys, ReadKey, ReadMissing, ReadDone, DeleteKey, DeleteDone, Fail

LEMMA StepCallInv == CallInv /\ [Next]_vars => CallInv'
<1> SUFFICES ASSUME CallInv, [Next]_vars PROVE CallInv'
  OBVIOUS
<1>1. Typed' /\ written' \in [Clients -> BOOLEAN]
  BY StepTyped, StepWritten DEF CallInv
<1>2. CASE UNCHANGED vars
  BY <1>1, <1>2 DEF vars, callVars, CallInv, ClientInv, Reading, Deleting
<1>3. CASE Next
  BY <1>1, <1>3, WriteClientInv, CallClientInv DEF Next, CallInv
<1> QED BY <1>2, <1>3

LEMMA CallInvariant == Spec => []CallInv
<1>1. Init => CallInv
  BY InitTyped DEF Init, CallInv, ClientInv, Reading, Deleting
<1>2. CallInv /\ [Next]_vars => CallInv'
  BY StepCallInv
<1> QED BY <1>1, <1>2, PTL DEF Spec

(* A Get or List that succeeds answers with what was in the bucket when it
   listed the keys, though it reads record by record (Bucket.All, listKeys). *)
THEOREM ReadsAreSnapshotsTheorem == Spec => []ReadsAreSnapshots
<1>1. CallInv => ReadsAreSnapshots
  BY DEF CallInv, ClientInv, Reading, ReadsAreSnapshots
<1> QED BY <1>1, CallInvariant, PTL

(* A Delete that succeeds while nobody writes to the instance leaves none of
   its records (InstancesRepo.Delete).                                     *)
THEOREM DeleteLeavesNothingTheorem == Spec => []DeleteLeavesNothing
<1>1. CallInv => DeleteLeavesNothing
  BY DEF CallInv, ClientInv, Deleting, DeleteLeavesNothing
<1> QED BY <1>1, CallInvariant, PTL

(* Every variable has its type in every reachable state; in particular the
   bucket never holds a key that presenceKey, idleKey and lastExecutedKey do
   not make.                                                               *)
THEOREM TypeOKTheorem == Spec => []TypeOK
<1>1. CallInv => TypeOK
  BY DEF CallInv, Typed, TypeOK
<1> QED BY <1>1, CallInvariant, PTL

=============================================================================
