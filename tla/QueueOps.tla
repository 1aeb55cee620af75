-------------------------------- MODULE QueueOps --------------------------------
(***************************************************************************)
(* A named modal.Queue used by concurrent tasks through Queue handles      *)
(* (modal-rust/src/queue.rs) and the SDK's queue RPCs, each under the      *)
(* transient retry (modal-rust-sdk/src/ops/queue.rs, retry.rs).            *)
(*                                                                         *)
(* Clones of a handle share one Mutex<ModalClient>, held for a whole call: *)
(* a blocking get holds it for its whole poll loop.  An RPC attempt is     *)
(* answered, lost before the server saw it, or lost after the server       *)
(* applied it; a future may be dropped at an await with the same effects.  *)
(* The server is the FIFO of the testkit's store.rs.                       *)
(*                                                                         *)
(* Abstracted: time (a get with a timeout finds its deadline passed or     *)
(* not; the 50 s window is one QueueGet), partitions, the 5,000 item cap,  *)
(* the pickle codec (an item decodes or it does not), `len`, and           *)
(* `delete`, after which every call of the handle fails.                   *)
(***************************************************************************)
EXTENDS Naturals, Sequences, FiniteSets, SequencesExt

CONSTANTS Producers, Consumers, Cleaners,
          Handles, Handle,  \* the handle of each task
          Batch,            \* what each producer puts
          Bad,              \* items the consumers' type cannot be decoded from
          Forever,          \* consumers that get with `timeout = None`
          MaxValues,        \* largest n of get_many
          MaxAttempts,      \* tries of one RPC (RetryPolicy: 8)
          None

Tasks == Producers \cup Consumers \cup Cleaners
Items == UNION {Range(Batch[p]) : p \in Producers}

RolesType == /\ Producers \cap Consumers = {}
             /\ Producers \cap Cleaners = {}
             /\ Consumers \cap Cleaners = {}
HandleType == Handle \in [Tasks -> Handles] /\ None \notin Tasks
(* An item is one position of one batch.                                   *)
BatchType == /\ \A p \in Producers : Batch[p] \in Seq(Range(Batch[p]))
             /\ \A p \in Producers : IsInjective(Batch[p])
             /\ \A p, q \in Producers :
                  p # q => Range(Batch[p]) \cap Range(Batch[q]) = {}
BoundsType == {MaxValues, MaxAttempts} \subseteq Nat \ {0}
ConsumersType == Forever \subseteq Consumers /\ Bad \subseteq Items

VARIABLES
  pc,       \* where each task's call is
  attempt,  \* try number of its RPC
  n,        \* a get's n_values
  late,     \* a get's deadline has passed
  client,   \* handle -> the task that holds its client
  queue,    \* server: the queue
  took,     \* history: what the server popped for a get, all attempts
  got,      \* what a get returned
  log       \* history: every item the server popped, in order

call == <<pc, attempt, n, late>>
history == <<took, got, log>>
vars == <<call, client, queue, history>>

-------------------------------------------------------------------------------
Ok == {"done", "got", "none"}
Ended == Ok \cup {"codec_error", "failed"}

Init == /\ pc = [t \in Tasks |-> "idle"]
        /\ attempt = [t \in Tasks |-> 1]
        /\ n = [t \in Tasks |-> 1]
        /\ late = [t \in Tasks |-> FALSE]
        /\ client = [h \in Handles |-> None]
        /\ queue = <<>>
        /\ took = [c \in Consumers |-> <<>>]
        /\ got = [c \in Consumers |-> <<>>]
        /\ log = <<>>

(* put / put_many / put_raw: an empty batch returns at once.               *)
CallPut(p) == /\ pc[p] = "idle"
              /\ pc' = [pc EXCEPT ![p] = IF Batch[p] = <<>> THEN "done" ELSE "lock"]
              /\ UNCHANGED <<attempt, n, late, client, queue, history>>

CallClear(x) == /\ pc[x] = "idle"
                /\ pc' = [pc EXCEPT ![x] = "lock"]
                /\ UNCHANGED <<attempt, n, late, client, queue, history>>

(* get (one value) and get_many; a consumer may call any number of times.  *)
CallGet(c) == /\ pc[c] \in {"idle"} \cup Ended
              /\ pc' = [pc EXCEPT ![c] = "lock"]
              /\ \E k \in 1 .. MaxValues : n' = [n EXCEPT ![c] = k]
              /\ took' = [took EXCEPT ![c] = <<>>]
              /\ got' = [got EXCEPT ![c] = <<>>]
              /\ UNCHANGED <<attempt, late, client, queue, log>>

(* The deadline of a get runs from here: `Some(ZERO)` has passed already.  *)
Lock(t) == /\ pc[t] = "lock"
           /\ client[Handle[t]] = None
           /\ client' = [client EXCEPT ![Handle[t]] = t]
           /\ pc' = [pc EXCEPT ![t] = "rpc"]
           /\ attempt' = [attempt EXCEPT ![t] = 1]
           /\ \E zero \in IF t \in Consumers \ Forever THEN BOOLEAN ELSE {FALSE} :
                late' = [late EXCEPT ![t] = zero]
           /\ UNCHANGED <<n, queue, history>>

(* The call ends, its locals are gone, and the client is given back.       *)
Return(t, outcome) == /\ pc' = [pc EXCEPT ![t] = outcome]
                      /\ client' = [client EXCEPT ![Handle[t]] = None]
                      /\ attempt' = [attempt EXCEPT ![t] = 1]
                      /\ n' = [n EXCEPT ![t] = 1]
                      /\ late' = [late EXCEPT ![t] = FALSE]

(* Mutant: one retry too many.                                             *)
LostOnceMore(t) == \/ /\ attempt[t] <= MaxAttempts
                      /\ attempt' = [attempt EXCEPT ![t] = @ + 1]
                      /\ UNCHANGED <<pc, n, late, client>>
                   \/ Return(t, "failed")
(* retry_transient: the same request again, or the error; a dropped future *)
(* looks the same.                                                         *)
Lost(t) == \/ /\ attempt[t] < MaxAttempts
              /\ attempt' = [attempt EXCEPT ![t] = @ + 1]
              /\ UNCHANGED <<pc, n, late, client>>
           \/ Return(t, "failed")

LostRequest(t) == /\ pc[t] = "rpc"
                  /\ Lost(t)
                  /\ UNCHANGED <<queue, history>>

-------------------------------------------------------------------------------
(* Mutant: the values are pushed to the front, one by one.                 *)
PutFirst(p) == /\ pc[p] = "rpc"
               /\ queue' = Reverse(Batch[p]) \o queue
               /\ Lost(p) \/ Return(p, "done")
               /\ UNCHANGED history
QueuePut(p) == /\ pc[p] = "rpc"
               /\ queue' = queue \o Batch[p]
               /\ Lost(p) \/ Return(p, "done")
               /\ UNCHANGED history

QueueClear(x) == /\ pc[x] = "rpc"
                 /\ queue' = <<>>
                 /\ Lost(x) \/ Return(x, "done")
                 /\ UNCHANGED history

(* decode_values, first_decoded: the first bad item aborts the batch.      *)
Deliver(c, values) ==
  IF Range(values) \cap Bad # {}
    THEN Return(c, "codec_error") /\ UNCHANGED got
    ELSE /\ Return(c, "got")
         /\ got' = [got EXCEPT ![c] = values]

(* Mutant: the server waits for a full batch.                              *)
QueueGetFull(c) ==
  /\ pc[c] = "rpc" /\ n[c] <= Len(queue)
  /\ LET values == SubSeq(queue, 1, n[c])
     IN /\ queue' = SubSeq(queue, n[c] + 1, Len(queue))
        /\ took' = [took EXCEPT ![c] = @ \o values]
        /\ log' = log \o values
        /\ \/ Lost(c) /\ UNCHANGED got
           \/ Deliver(c, values)
(* QueueGet pops up to n values ...                                        *)
QueueGet(c) ==
  /\ pc[c] = "rpc"
  /\ \E k \in 1 .. n[c] :
       LET values == SubSeq(queue, 1, k)
       IN /\ k <= Len(queue)
          /\ queue' = SubSeq(queue, k + 1, Len(queue))
          /\ took' = [took EXCEPT ![c] = @ \o values]
          /\ log' = log \o values
          /\ \/ Lost(c) /\ UNCHANGED got
             \/ Deliver(c, values)

(* ... or answers empty at the end of its window; queue_get_blocking then  *)
(* looks at the deadline.                                                  *)
WindowCloses(c) ==
  /\ pc[c] = "rpc" /\ queue = <<>>
  /\ \/ late[c] /\ Return(c, "none")
     \/ /\ ~late[c]
        /\ attempt' = [attempt EXCEPT ![c] = 1]
        /\ UNCHANGED <<pc, n, late, client>>
  /\ UNCHANGED <<queue, history>>

Elapse(c) == /\ pc[c] = "rpc" /\ c \notin Forever /\ ~late[c]
             /\ late' = [late EXCEPT ![c] = TRUE]
             /\ UNCHANGED <<pc, attempt, n, client, queue, history>>

Answer(t) == \/ t \in Producers /\ QueuePut(t)
             \/ t \in Cleaners /\ QueueClear(t)
             \/ t \in Consumers /\ (QueueGet(t) \/ WindowCloses(t))

Next == \/ \E p \in Producers : CallPut(p)
        \/ \E x \in Cleaners : CallClear(x)
        \/ \E c \in Consumers : CallGet(c) \/ Elapse(c)
        \/ \E t \in Tasks : Lock(t) \/ LostRequest(t) \/ Answer(t)

Spec == Init /\ [][Next]_vars

(* tokio's Mutex is first come, first served; every attempt is answered or *)
(* found lost (keepalive); deadlines pass.  Nobody has to call.            *)
Fairness == /\ \A t \in Tasks : SF_vars(Lock(t)) /\ WF_vars(Answer(t))
            /\ \A c \in Consumers : WF_vars(Elapse(c))
FairSpec == Spec /\ Fairness

-------------------------------------------------------------------------------
(* Types of every variable.                                                *)
TypeOK == /\ pc \in [Tasks -> {"idle", "lock", "rpc"} \cup Ended]
          /\ attempt \in [Tasks -> 1 .. MaxAttempts]
          /\ n \in [Tasks -> 1 .. MaxValues]
          /\ late \in [Tasks -> BOOLEAN]
          /\ client \in [Handles -> Tasks \cup {None}]
          /\ queue \in Seq(Items)
          /\ took \in [Consumers -> Seq(Items)]
          /\ got \in [Consumers -> Seq(Items)]
          /\ log \in Seq(Items)

(* put_many pushes in order: whatever is lost, repeated or cleared, no     *)
(* item leaves the queue before an earlier item of its batch has left it   *)
(* for the first time (queue.rs:161, "Push many values in order").         *)
PutOrder ==
  \A p \in Producers : \A i, j \in DOMAIN Batch[p] :
    i < j => \A m \in DOMAIN log : log[m] = Batch[p][j] =>
               \E l \in 1 .. m - 1 : log[l] = Batch[p][i]

(* The retry bounds the copies: an item leaves the queue at most once per  *)
(* try of its put (retry.rs:33-56).                                        *)
CopiesBounded ==
  \A i \in Items : Cardinality({m \in DOMAIN log : log[m] = i}) <= MaxAttempts

(* A get hands over everything its answered attempt popped, in order: no   *)
(* value of the batch is dropped between the wire and the caller           *)
(* (queue.rs:180-183, get_many).                                           *)
HandsOverBatch ==
  \A c \in Consumers : pc[c] = "got" => got[c] # <<>> /\ IsSuffix(got[c], took[c])

(* A call that has to return: any but a get without a timeout, on a handle *)
(* that no such get holds (queue.rs:23-25).                                *)
Patient(t) == t \notin Forever /\ \A f \in Forever : Handle[f] # Handle[t]
InFlight(t) == Patient(t) /\ pc[t] \in {"lock", "rpc"}

(* A get without a timeout that waits, and a queue that is not dry: they   *)
(* do not last together (queue.rs:23, "block until an item arrives").      *)
Blocked(c) == c \in Forever /\ pc[c] = "rpc"
===============================================================================
