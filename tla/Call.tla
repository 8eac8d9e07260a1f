-------------------------------- MODULE Call --------------------------------
(***************************************************************************)
(* What Invoker.Invoke promises its caller, without the queue, the         *)
(* goroutines and the pods: the call is made once; while and after it is   *)
(* in progress the function may end for it, well or with an error; the     *)
(* call returns once, with data or with ErrFunctionErrored only if the     *)
(* function has ended that way, or with an error of the system.            *)
(***************************************************************************)
CONSTANTS
  Calls,    (* the calls of Invoke                                     *)
  Kinds,    (* how a handler may end                                   *)
  Failures, (* the other ways a call may return                        *)
  Pending   (* "has not returned", neither a kind nor a failure        *)

VARIABLES
  called,   (* the calls made                                          *)
  executed, (* [Calls -> SUBSET Kinds] how the function ended for them *)
  returned  (* [Calls -> ...] what they returned                       *)

vars == <<called, executed, returned>>

Init ==
  /\ called = {}
  /\ executed = [c \in Calls |-> {}]
  /\ returned = [c \in Calls |-> Pending]

Begin(c) ==
  /\ c \notin called
  /\ called' = called \cup {c}
  /\ UNCHANGED <<executed, returned>>

Execute(c, k) ==
  /\ c \in called
  /\ executed' = [executed EXCEPT ![c] = @ \cup {k}]
  /\ UNCHANGED <<called, returned>>

InProgress(c) == c \in called /\ returned[c] = Pending

Return(c, v) ==
  /\ InProgress(c)
  /\ v \in executed[c] \cup Failures
  /\ returned' = [returned EXCEPT ![c] = v]
  /\ UNCHANGED <<called, executed>>

(* The caller's process dies with every call it has in progress.           *)
Crash(v) ==
  /\ v \in Failures
  /\ returned' = [c \in Calls |-> IF InProgress(c) THEN v ELSE returned[c]]
  /\ UNCHANGED <<called, executed>>

Next ==
  \/ \E c \in Calls :
       \/ Begin(c)
       \/ \E k \in Kinds : Execute(c, k)
       \/ \E v \in Kinds \cup Failures : Return(c, v)
  \/ \E v \in Failures : Crash(v)

Spec == Init /\ [][Next]_vars

(* Every call that was made returns.                                       *)
EveryCallReturns == \A c \in Calls : c \in called ~> returned[c] # Pending

=============================================================================
