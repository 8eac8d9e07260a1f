---------------------------- MODULE InstancesRepo ----------------------------
(***************************************************************************)
(* The repository of function instances (docker.InstancesRepo over the     *)
(* NATS key-value bucket "instances"), used by several clients at once.    *)
(* An instance is up to three records; a repository operation is one or    *)
(* more bucket operations, and only each of those is atomic.  Reading means *)
(* listing the keys and then getting every key by itself.                  *)
(***************************************************************************)
CONSTANTS
  Clients,    (* the goroutines in operations of several steps *)
  Instances,  (* instance ids, of one function                 *)
  NoInstance  (* "no instance", for List and for idle clients  *)

ASSUME InstancesRepoAssumption == NoInstance \notin Instances

Fields == {"presence", "idle", "lastExecuted"}

Key == [id : Instances, field : Fields]

VARIABLES
  records,  (* the keys of the bucket                                       *)
  op,       (* [Clients -> ...] the operation a client is in      *)
  target,   (* [Clients -> ...] its instance                                *)
  pc,       (* [Clients -> ...] its next bucket operation                   *)
  todo,     (* [Clients -> SUBSET Key] keys still to be read or purged      *)
  found,    (* [Clients -> SUBSET Key] keys read                            *)
  answer,   (* [Clients -> ...] what the operation returns                  *)
  listed,   (* history: [Clients -> SUBSET Key] what its listing saw        *)
  winners,  (* history: [Instances -> SUBSET Clients] Adds that created it  *)
  written   (* history: [Clients -> BOOLEAN] put since it began  *)

callVars == <<op, target, pc, todo, found, answer>>
vars == <<records, callVars, listed, winners, written>>

RecTransposed(i, f) == [id |-> f, field |-> i]  (* mutation *)

(* presenceKey, idleKey and lastExecutedKey of one instance.               *)
Rec(i, f) == [id |-> i, field |-> f]

(* The keys allKeys matches, for one instance.                             *)
AllKeys(i) == {k \in Key : k.id = i}

(* What Count and CountIdle count: one listing of presence keys, one of idle keys. *)
CountAll == {k.id : k \in records}  (* mutation: Count lists allKeys *)

Counted == {k.id : k \in {r \in records : r.field = "presence"}}

CountedIdle == {k.id : k \in {r \in records : r.field = "idle"}}

(* What Get and List make of an instance's keys, and List of all of them; the
   time itself is left out.                                                *)
NewFunctionInstance(i, keys) ==
  [id |-> i, busy |-> Rec(i, "idle") \notin keys, executed |-> Rec(i, "lastExecuted") \in keys]

Grouped(keys) == {NewFunctionInstance(i, keys) : i \in {k.id : k \in keys}}

Answers == {"none", "ok", "alreadyExists", "notFound", "error"}

TypeOK ==
  /\ records \subseteq Key
  /\ op \in [Clients -> {"none", "Add", "Get", "List", "Delete"}]
  /\ target \in [Clients -> Instances \cup {NoInstance}]
  /\ pc \in [Clients -> {"ready", "adding", "reading", "deleting", "answered"}]
  /\ todo \in [Clients -> SUBSET Key]
  /\ found \in [Clients -> SUBSET Key]
  /\ answer \in [Clients -> Answers]
  /\ listed \in [Clients -> SUBSET Key]
  /\ winners \in [Instances -> SUBSET Clients]
  /\ written \in [Clients -> BOOLEAN]

Init ==
  /\ records = {}
  /\ op = [c \in Clients |-> "none"]
  /\ target = [c \in Clients |-> NoInstance]
  /\ pc = [c \in Clients |-> "ready"]
  /\ todo = [c \in Clients |-> {}]
  /\ found = [c \in Clients |-> {}]
  /\ answer = [c \in Clients |-> "none"]
  /\ listed = [c \in Clients |-> {}]
  /\ winners = [i \in Instances |-> {}]
  /\ written = [c \in Clients |-> FALSE]

-----------------------------------------------------------------------------
(* Operations that take several bucket operations start with this.         *)
Call(c, o, i, next) ==
  /\ pc[c] = "ready"
  /\ op' = [op EXCEPT ![c] = o]
  /\ target' = [target EXCEPT ![c] = i]
  /\ pc' = [pc EXCEPT ![c] = next]

Finish(c, a) ==
  /\ pc' = [pc EXCEPT ![c] = "answered"]
  /\ answer' = [answer EXCEPT ![c] = a]

Put(k) ==
  /\ records' = records \cup {k}
  /\ written' = [c \in Clients |-> written[c] \/ target[c] = k.id]

Purge(k) == records' = records \ {k}

(* The caller has its answer; the operation's local variables are gone.    *)
Return(c) ==
  /\ pc[c] = "answered"
  /\ op' = [op EXCEPT ![c] = "none"]
  /\ target' = [target EXCEPT ![c] = NoInstance]
  /\ pc' = [pc EXCEPT ![c] = "ready"]
  /\ todo' = [todo EXCEPT ![c] = {}]
  /\ found' = [found EXCEPT ![c] = {}]
  /\ answer' = [answer EXCEPT ![c] = "none"]
  /\ listed' = [listed EXCEPT ![c] = {}]
  /\ written' = [written EXCEPT ![c] = FALSE]
  /\ UNCHANGED <<records, winners>>

(* Mutation: presence is stored with Put.                                  *)
AddPuts(c, i) ==
  /\ Call(c, "Add", i, "adding")
  /\ Put(Rec(i, "presence"))
  /\ winners' = [winners EXCEPT ![i] = @ \cup {c}]
  /\ UNCHANGED <<todo, found, answer, listed>>

(* Add: Create stores the presence record or says that there is one.       *)
Add(c, i) ==
  /\ Rec(i, "presence") \notin records
  /\ Call(c, "Add", i, "adding")
  /\ Put(Rec(i, "presence"))
  /\ winners' = [winners EXCEPT ![i] = @ \cup {c}]
  /\ UNCHANGED <<todo, found, answer, listed>>

AddExists(c, i) ==
  /\ Rec(i, "presence") \in records
  /\ Call(c, "Add", i, "answered")
  /\ answer' = [answer EXCEPT ![c] = "alreadyExists"]
  /\ UNCHANGED <<records, todo, found, listed, winners, written>>

(* Add ends with SetBusy(false), which puts the idle record.               *)
PutIdle(c, a) ==
  /\ pc[c] = "adding"
  /\ Put(Rec(target[c], "idle"))
  /\ Finish(c, a)
  /\ UNCHANGED <<op, target, todo, found, listed, winners>>

AddIdle(c) == PutIdle(c, "ok")

(* The record is stored, but its acknowledgement does not come back.       *)
AddIdleUnheard(c) == PutIdle(c, "error")

(* Mutation: busy and idle are mixed up.                                   *)
SetBusySwapped(i, busy) ==
  /\ \/ ~ busy /\ Purge(Rec(i, "idle")) /\ UNCHANGED written
     \/ busy /\ Put(Rec(i, "idle"))
  /\ UNCHANGED <<callVars, listed, winners>>

(* SetBusy and SetLastExecuted are one bucket operation, so it does not matter
   which goroutine calls them; neither asks whether the instance exists.   *)
SetBusy(i, busy) ==
  /\ \/ busy /\ Purge(Rec(i, "idle")) /\ UNCHANGED written
     \/ ~ busy /\ Put(Rec(i, "idle"))
  /\ UNCHANGED <<callVars, listed, winners>>

SetLastExecuted(i) ==
  /\ Put(Rec(i, "lastExecuted"))
  /\ UNCHANGED <<callVars, listed, winners>>

(* Bucket.All: the lister is created, which fixes the keys to get.         *)
ListKeys(c, o, i, keys) ==
  /\ Call(c, o, i, "reading")
  /\ todo' = [todo EXCEPT ![c] = keys]
  /\ listed' = [listed EXCEPT ![c] = keys]
  /\ UNCHANGED <<records, found, answer, winners, written>>

Get(c, i) == ListKeys(c, "Get", i, records \cap AllKeys(i))

List(c) == ListKeys(c, "List", NoInstance, records)

(* Mutation: only the presence record is looked for.                       *)
DeletePresence(c, i) == ListKeys(c, "Delete", i, records \cap {Rec(i, "presence")})

Delete(c, i) == ListKeys(c, "Delete", i, records \cap AllKeys(i))

(* listKeys gets the next key.                                             *)
ReadKey(c) ==
  /\ pc[c] = "reading"
  /\ \E k \in todo[c] \cap records :
       /\ todo' = [todo EXCEPT ![c] = @ \ {k}]
       /\ found' = [found EXCEPT ![c] = @ \cup {k}]
  /\ UNCHANGED <<records, op, target, pc, answer, listed, winners, written>>

(* Mutation: a key that is gone by now is left out.                        *)
ReadMissingSkips(c) ==
  /\ pc[c] = "reading"
  /\ todo[c] \ records # {}
  /\ todo' = [todo EXCEPT ![c] = @ \cap records]
  /\ UNCHANGED <<records, op, target, pc, found, answer, listed, winners, written>>

(* A listed key is gone by now: Get takes ErrKeyNotFound for a missing
   instance, List and Delete fail.                                         *)
ReadMissing(c) ==
  /\ pc[c] = "reading"
  /\ todo[c] \ records # {}
  /\ Finish(c, IF op[c] = "Get" THEN "notFound" ELSE "error")
  /\ UNCHANGED <<records, op, target, todo, found, listed, winners, written>>

(* All keys are read: Get and List build their result, Delete goes on.     *)
ReadDone(c) ==
  /\ pc[c] = "reading"
  /\ todo[c] = {}
  /\ \/ /\ op[c] = "List" \/ (op[c] = "Get" /\ found[c] # {})
        /\ Finish(c, "ok")
        /\ UNCHANGED todo
     \/ /\ op[c] # "List" /\ found[c] = {}
        /\ Finish(c, "notFound")
        /\ UNCHANGED todo
     \/ /\ op[c] = "Delete" /\ found[c] # {}
        /\ pc' = [pc EXCEPT ![c] = "deleting"]
        /\ todo' = [todo EXCEPT ![c] = found[c]]
        /\ UNCHANGED answer
  /\ UNCHANGED <<records, op, target, found, listed, winners, written>>

DeleteKey(c) ==
  /\ pc[c] = "deleting"
  /\ \E k \in todo[c] :
       /\ Purge(k)
       /\ todo' = [todo EXCEPT ![c] = @ \ {k}]
       /\ winners' = IF k.field = "presence" THEN [winners EXCEPT ![k.id] = {}]
                     ELSE winners
  /\ UNCHANGED <<op, target, pc, found, answer, listed, written>>

DeleteDone(c) ==
  /\ pc[c] = "deleting"
  /\ todo[c] = {}
  /\ Finish(c, "ok")
  /\ UNCHANGED <<records, op, target, todo, found, listed, winners, written>>

(* The next bucket operation fails without effect, or the client's process
   dies: what the operation has done so far stays.  (A Create, or a Delete of
   a key, that has its effect and returns an error is that step, then Fail.) *)
Fail(c) ==
  /\ pc[c] \in {"adding", "reading", "deleting"}
  /\ Finish(c, "error")
  /\ UNCHANGED <<records, op, target, todo, found, listed, winners, written>>

Next ==
  \/ \E i \in Instances :
       \/ \E busy \in BOOLEAN : SetBusy(i, busy)
       \/ SetLastExecuted(i)
  \/ \E c \in Clients :
       \/ \E i \in Instances : Add(c, i) \/ AddExists(c, i) \/ Get(c, i) \/ Delete(c, i)
       \/ List(c)
       \/ AddIdle(c) \/ AddIdleUnheard(c) \/ ReadKey(c) \/ ReadMissing(c) \/ ReadDone(c)
       \/ DeleteKey(c) \/ DeleteDone(c) \/ Fail(c) \/ Return(c)

Spec == Init /\ [][Next]_vars

-----------------------------------------------------------------------------
(* Of all the Adds of an instance, concurrent and half-failed ones included,
   only one creates it until a Delete takes its presence away: the others are
   told that it exists.                                                    *)
OneWinner ==
  \A i \in Instances :
    /\ \A c, d \in winners[i] : c = d
    /\ winners[i] # {} <=> Rec(i, "presence") \in records

(* Get and List answer with the instances, and whether they are busy, as they
   were in the bucket at one moment, that of the listing, though the records
   are read one after the other.                                           *)
ReadsAreSnapshots ==
  \A c \in Clients :
    (op[c] \in {"Get", "List"} /\ answer[c] = "ok") => Grouped(found[c]) = Grouped(listed[c])

(* A Delete that succeeds, with no record of the instance written since it
   began, leaves no record of it: none that CountIdle would still count, none
   that a later Get would take for the instance.                           *)
DeleteLeavesNothing ==
  \A c \in Clients :
    (op[c] = "Delete" /\ answer[c] = "ok" /\ ~ written[c])
      => records \cap AllKeys(target[c]) = {}

(* instances_repo_test.go: Get, "when instance exists", "returns the
   instance"; ErrInstanceNotFound is for "when instance does not exist".  An
   instance that is there before and after is never answered for as missing. *)
ExistingIsFound ==
  [][\A c \in Clients :
       (op[c] = "Get" /\ answer[c] = "none" /\ answer'[c] = "notFound")
         => ~ \E i \in Instances :
                i = target[c] /\ Rec(i, "presence") \in listed[c] \cap records]_vars

=============================================================================
