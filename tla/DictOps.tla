--------------------------------- MODULE DictOps ---------------------------------
(***************************************************************************)
(* One key of a named modal.Dict used by concurrent tasks through Dict     *)
(* handles (modal-rust/src/dict.rs) and the SDK's dict RPCs, each under    *)
(* the transient retry (modal-rust-sdk/src/ops/dict.rs, retry.rs).         *)
(*                                                                         *)
(* Each task makes calls of its own choice, one at a time, and writes its  *)
(* own value.  Clones of a handle share a client, locked for a whole call. *)
(* An RPC attempt is answered, lost before the server saw it, or lost      *)
(* after the server applied it; a dropped future looks like the last lost  *)
(* attempt.  The server is the map of the testkit's store.rs.              *)
(*                                                                         *)
(* Abstracted: keys are independent, so one stands for all; the pickle     *)
(* codec; `contains` and `len` (reads like `get`); the expiry of entries   *)
(* after a week; `delete`, after which every call of the handle fails.     *)
(***************************************************************************)
EXTENDS Naturals

CONSTANTS Tasks,
          Handles, Handle,  \* the handle of each task
          Ops,              \* the calls each task makes
          MaxAttempts,      \* tries of one RPC (RetryPolicy: 8)
          Absent, None

AllOps == {"get", "put", "put_if_absent", "pop", "clear"}

HandleType == Handle \in [Tasks -> Handles]
OpsType == Ops \in [Tasks -> SUBSET AllOps]
MaxAttemptsType == MaxAttempts \in Nat \ {0}
NoValues == Absent \notin Tasks /\ None \notin Tasks /\ None # Absent

VARIABLES
  pc,       \* where each task's call is
  op,       \* the call
  attempt,  \* try number of its RPC
  client,   \* handle -> the task that holds its client
  entry,    \* server: the value under the key
  result,   \* what the call returned: a value, Absent, or put_if_absent's flag
  did,      \* history: the values the call inserted if absent, or popped
  undone    \* history: values that a put, pop or clear took away

call == <<pc, op, attempt>>
vars == <<call, client, entry, result, did, undone>>

-------------------------------------------------------------------------------
Ended == {"done", "failed"}
Values == Tasks \cup {Absent}

Init == /\ pc = [t \in Tasks |-> "idle"]
        /\ op = [t \in Tasks |-> None]
        /\ attempt = [t \in Tasks |-> 1]
        /\ client = [h \in Handles |-> None]
        /\ entry = Absent
        /\ result = [t \in Tasks |-> None]
        /\ did = [t \in Tasks |-> {}]
        /\ undone = {}

Call(t, o) == /\ pc[t] \in {"idle"} \cup Ended
              /\ pc' = [pc EXCEPT ![t] = "lock"]
              /\ op' = [op EXCEPT ![t] = o]
              /\ result' = [result EXCEPT ![t] = None]
              /\ did' = [did EXCEPT ![t] = {}]
              /\ UNCHANGED <<attempt, client, entry, undone>>

Lock(t) == /\ pc[t] = "lock"
           /\ client[Handle[t]] = None
           /\ client' = [client EXCEPT ![Handle[t]] = t]
           /\ pc' = [pc EXCEPT ![t] = "rpc"]
           /\ UNCHANGED <<op, attempt, entry, result, did, undone>>

(* Mutant: the guard outlives a failed call.                               *)
KeepClient(t, outcome) ==
  /\ pc' = [pc EXCEPT ![t] = outcome]
  /\ client' = IF outcome = "failed" THEN client
               ELSE [client EXCEPT ![Handle[t]] = None]
  /\ attempt' = [attempt EXCEPT ![t] = 1]
  /\ UNCHANGED op
Return(t, outcome) == /\ pc' = [pc EXCEPT ![t] = outcome]
                      /\ client' = [client EXCEPT ![Handle[t]] = None]
                      /\ attempt' = [attempt EXCEPT ![t] = 1]
                      /\ UNCHANGED op

(* retry_transient: the same request again, or the error.                  *)
Lost(t) == /\ \/ /\ attempt[t] < MaxAttempts
                 /\ attempt' = [attempt EXCEPT ![t] = @ + 1]
                 /\ UNCHANGED <<pc, op, client>>
              \/ Return(t, "failed")
           /\ UNCHANGED result

LostRequest(t) == /\ pc[t] = "rpc"
                  /\ Lost(t)
                  /\ UNCHANGED <<entry, did, undone>>

Answer(t, value) == /\ Return(t, "done")
                    /\ result' = [result EXCEPT ![t] = value]

-------------------------------------------------------------------------------
(* DictGet.                                                                *)
DictGet(t) == /\ pc[t] = "rpc" /\ op[t] = "get"
              /\ Answer(t, entry)
              /\ UNCHANGED <<entry, did, undone>>

(* Mutant: `if_not_exists` is not sent.                                    *)
UpdateAlways(t, if_not_exists) == entry' = t
(* The server's update.                                                    *)
Update(t, if_not_exists) ==
  entry' = IF if_not_exists /\ entry # Absent THEN entry ELSE t

(* DictUpdate: put ignores the `created` flag, put_if_absent returns it.   *)
DictUpdate(t) ==
  LET if_not_exists == op[t] = "put_if_absent"
  IN /\ pc[t] = "rpc" /\ op[t] \in {"put", "put_if_absent"}
     /\ Update(t, if_not_exists)
     /\ did' = [did EXCEPT ![t] =
                  IF if_not_exists /\ entry = Absent THEN {t} ELSE @]
     /\ undone' = (IF if_not_exists THEN undone ELSE undone \cup {entry}) \ {t}
     /\ Lost(t) \/ Answer(t, IF if_not_exists THEN entry = Absent ELSE t)

(* DictPop: remove and return.                                             *)
DictPop(t) == /\ pc[t] = "rpc" /\ op[t] = "pop"
              /\ entry' = Absent
              /\ did' = [did EXCEPT ![t] = @ \cup ({entry} \ {Absent})]
              /\ undone' = undone \cup {entry}
              /\ Lost(t) \/ Answer(t, entry)

DictClear(t) == /\ pc[t] = "rpc" /\ op[t] = "clear"
                /\ entry' = Absent
                /\ undone' = undone \cup {entry}
                /\ Lost(t) \/ Answer(t, Absent)
                /\ UNCHANGED did

Rpc(t) == DictGet(t) \/ DictUpdate(t) \/ DictPop(t) \/ DictClear(t)

Next == \E t \in Tasks : \/ \E o \in Ops[t] : Call(t, o)
                         \/ Lock(t) \/ LostRequest(t) \/ Rpc(t)

Spec == Init /\ [][Next]_vars

(* tokio's Mutex is first come, first served, and every attempt is         *)
(* answered or found lost.                                                 *)
Fairness == \A t \in Tasks : SF_vars(Lock(t)) /\ WF_vars(Rpc(t))
FairSpec == Spec /\ Fairness

-------------------------------------------------------------------------------
(* Types of every variable.                                                *)
TypeOK == /\ pc \in [Tasks -> {"idle", "lock", "rpc"} \cup Ended]
          /\ op \in [Tasks -> AllOps \cup {None}]
          /\ attempt \in [Tasks -> 1 .. MaxAttempts]
          /\ client \in [Handles -> Tasks \cup {None}]
          /\ entry \in Values
          /\ result \in [Tasks -> Values \cup {None} \cup BOOLEAN]
          /\ did \in [Tasks -> SUBSET Tasks]
          /\ undone \subseteq Values

(* put_if_absent as an election: the one task that was told it inserted    *)
(* the value is the one whose value is stored, until a put, pop or clear   *)
(* takes it away, whatever was lost and sent again (dict.rs:172-175).      *)
Won(t) == /\ pc[t] = "done" /\ op[t] = "put_if_absent" /\ result[t] = TRUE
WinnerStored == \A t \in Tasks : Won(t) /\ t \notin undone => entry = t

(* A call reports what it did: put_if_absent whether it inserted, pop the  *)
(* value it removed and None only if there was none (dict.rs:172-175,      *)
(* 181): sending it again after a lost answer is safe (retry.rs:15-18).    *)
CallReportsEffect ==
  \A t \in Tasks : pc[t] = "done" =>
    /\ op[t] = "put_if_absent" => (result[t] = TRUE <=> did[t] # {})
    /\ op[t] = "pop" => did[t] = {result[t]} \ {Absent}

(* A call has not returned; no failed call leaves the clones of its handle *)
(* without a client.                                                       *)
InFlight(t) == pc[t] \in {"lock", "rpc"}
===============================================================================
