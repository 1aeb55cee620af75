--------------------------------- MODULE Invoke ---------------------------------
(***************************************************************************)
(* One invocation of a function by the SDK (modal-rust-sdk/src/ops/        *)
(* invoke.rs, ops/transport.rs, retry.rs): FunctionMap, the                *)
(* FunctionPutInputs fallback or fan-out, and the FunctionGetOutputs poll, *)
(* every RPC under the transient retry, against a server that queues       *)
(* inputs, runs them and keeps a stream of outputs.                        *)
(*                                                                         *)
(* The client is sequential: its `&mut self` is the facade's locked        *)
(* client.  An RPC attempt is answered, lost before the server saw it, or  *)
(* lost after the server applied it.  The stream is external: a retried    *)
(* put may or may not be deduplicated (transport.rs:87), and a get with    *)
(* clear_on_success lets the server expire, soon after, "*any* remaining   *)
(* outputs" (proto/api.proto:2099).                                        *)
(*                                                                         *)
(* Abstracted: backoff times; payloads (an input is its ordinal, and so is *)
(* its output); codec errors and blob results, which end the call like a   *)
(* failed output; outputs of unspecified status, which a poll skips;       *)
(* MaxAttempts bounds RetryPolicy.max_attempts (8).                        *)
(***************************************************************************)
EXTENDS Naturals, Sequences, FiniteSets, SequencesExt, FiniteSetsExt

CONSTANTS N,            \* inputs of a map
          MaxAttempts,  \* tries of one RPC
          Kinds,        \* subset of {"remote", "spawn", "map", "spawn_map"}
          None

NType == N \in Nat \ {0}
MaxAttemptsType == MaxAttempts \in Nat \ {0}
NoCall == None \notin Nat
KindsType == Kinds \subseteq {"remote", "spawn", "map", "spawn_map"}

VARIABLES
  kind,      \* the call shape
  pc,        \* the client's program counter
  attempt,   \* try number of the RPC in progress
  late,      \* the poll's deadline has elapsed
  call,      \* function_call_id
  cursor,    \* last_entry_id, as a stream position
  got,       \* collected outputs, by ordinal
  opened,    \* server: calls opened so far
  queued,    \* server: call -> ordinal -> copies waiting to run
  outputs,   \* server: call -> stream of [idx, ok]
  expiring,  \* server: calls with an expiry pending
  expired,   \* server: call -> stream entries already dropped
  ran        \* history: executions of each ordinal's input

client == <<kind, pc, attempt, late, call, cursor, got>>
work == <<queued, outputs, ran>>
expiry == <<expiring, expired>>
server == <<opened, work, expiry>>
vars == <<client, server>>

-------------------------------------------------------------------------------
Ordinals == 0 .. N - 1
Calls == 1 .. MaxAttempts
IsMap == kind \in {"map", "spawn_map"}
Awaits == kind \in {"remote", "map"}
Want == IF IsMap THEN Ordinals ELSE {0}
Polled == {"ok", "failed", "deadline"}
Ended == Polled \cup {"spawned", "not_enqueued"}
Rpcs == {"map", "put", "poll"}

Init == /\ kind \in Kinds
        /\ pc = "map"
        /\ attempt = 1
        /\ late = FALSE
        /\ call = None
        /\ cursor = 0
        /\ got = [i \in Ordinals |-> None]
        /\ opened = 0
        /\ queued = [c \in Calls |-> [i \in Ordinals |-> 0]]
        /\ outputs = [c \in Calls |-> <<>>]
        /\ expiring = {}
        /\ expired = [c \in Calls |-> 0]
        /\ ran = [i \in Ordinals |-> 0]

(* An RPC answered: the next one starts with its first attempt.            *)
GoOn(to) == pc' = to /\ attempt' = 1

GiveUp == /\ pc' = IF pc = "poll" THEN "failed" ELSE "not_enqueued"
          /\ attempt' = 1

(* Mutant: one retry too many.                                             *)
RetryOnceMore == \/ /\ attempt <= MaxAttempts
                    /\ attempt' = attempt + 1
                    /\ UNCHANGED pc
                 \/ GiveUp
(* retry_transient: try again, or return the error (a terminal one, the    *)
(* attempt cap, the retry deadline).                                       *)
Retry == \/ /\ attempt < MaxAttempts
            /\ attempt' = attempt + 1
            /\ UNCHANGED pc
         \/ GiveUp

(* The attempt is lost on the way, whatever the server did with it.        *)
Lost == Retry /\ UNCHANGED <<kind, late, call, cursor, got>>

(* At the top of the poll loop the deadline is looked at before a request. *)
MayCall == pc \in Rpcs /\ ~(pc = "poll" /\ attempt = 1 /\ late)

LostRequest == MayCall /\ Lost /\ UNCHANGED server

-------------------------------------------------------------------------------
(* Enqueue the given ordinals; the server may recognise the ones it has.   *)
Seen(c) == {i \in Ordinals : queued[c][i] > 0 \/
                             \E e \in Range(outputs[c]) : e.idx = i}
Enqueue(c, ordinals) ==
  \E added \in {ordinals, ordinals \ Seen(c)} :
    queued' = [queued EXCEPT ![c] =
                 [i \in Ordinals |-> @[i] + IF i \in added THEN 1 ELSE 0]]

AfterEnqueue == IF Awaits THEN "poll" ELSE "spawned"

(* Mutant: the input is taken to be enqueued whatever the echo says.       *)
NoFallback(pipelined) == IF IsMap THEN "put" ELSE AfterEnqueue
(* Fix #3: an input that was not echoed back was not enqueued.             *)
AfterMap(pipelined) == IF pipelined THEN AfterEnqueue ELSE "put"

(* FunctionMap: a new call, with the input of a unary call pipelined if    *)
(* the server takes it.  It carries no idempotency token.                  *)
FunctionMap ==
  /\ pc = "map"
  /\ opened' = opened + 1
  /\ \E pipelined \in IF IsMap THEN {FALSE} ELSE BOOLEAN :
       /\ IF pipelined THEN Enqueue(opened', Want) ELSE UNCHANGED queued
       /\ \/ Lost
          \/ /\ call' = opened'
             /\ GoOn(AfterMap(pipelined))
             /\ UNCHANGED <<kind, late, cursor, got>>
  /\ UNCHANGED <<outputs, ran, expiry>>

(* FunctionPutInputs: the server may take only some of the inputs (its     *)
(* queue is full), which fails the call.                                   *)
FunctionPutInputs ==
  /\ pc = "put"
  /\ \E taken \in SUBSET Want :
       /\ Enqueue(call, taken)
       /\ \/ Lost
          \/ /\ GoOn(IF taken = Want THEN AfterEnqueue ELSE "not_enqueued")
             /\ UNCHANGED <<kind, late, call, cursor, got>>
  /\ UNCHANGED <<opened, outputs, ran, expiry>>

(* FunctionCall::get, any number of times, on the handle of a spawn.       *)
Get == /\ kind \in {"spawn", "spawn_map"}
       /\ pc \in {"spawned"} \cup Polled
       /\ GoOn("poll")
       /\ late' = FALSE
       /\ cursor' = 0
       /\ got' = [i \in Ordinals |-> None]
       /\ UNCHANGED <<kind, call, server>>

-------------------------------------------------------------------------------
(* What one poll waits for: ordinal 0 (start_idx = end_idx = 0 for a get), *)
(* or every output of the map, unfiltered.                                 *)
Awaited == IF kind = "map" THEN Ordinals ELSE {0}
Output(p) == outputs[call][p]
Available == {p \in 1 .. Len(outputs[call]) :
                p > cursor /\ p > expired[call] /\ Output(p).idx \in Awaited}
MaxValues == IF kind = "map" THEN N ELSE 1

(* map_cbor: keyed by the output's ordinal; duplicates are idempotent.     *)
Collect(window) ==
  [i \in Ordinals |-> IF \E p \in window : Output(p).idx = i THEN i ELSE got[i]]

(* The first failure ends the call.                                        *)
Consume(window) ==
  IF \E p \in window : ~Output(p).ok
    THEN GoOn("failed") /\ UNCHANGED got
    ELSE /\ got' = Collect(window)
         /\ GoOn(IF \A i \in Awaited : got'[i] # None THEN "ok" ELSE "poll")

(* One FunctionGetOutputs window: some of the available outputs, at most   *)
(* max_values of them, or nothing within the long-poll timeout.            *)
FunctionGetOutputs ==
  /\ pc = "poll" /\ MayCall
  /\ \/ /\ Available = {}
        /\ GoOn("poll")
        /\ UNCHANGED <<kind, late, call, cursor, got, server>>
     \/ \E window \in (SUBSET Available) \ {{}} :
          /\ Cardinality(window) <= MaxValues
          /\ \A p \in Available : p < Max(window) => p \in window
          /\ expiring' = expiring \cup {call}
          /\ \/ Lost
             \/ /\ cursor' = Max(window)
                /\ Consume(window)
                /\ UNCHANGED <<kind, late, call>>
          /\ UNCHANGED <<opened, work, expired>>

(* Mutant: every window starts the clock again.                            *)
RestartClock == /\ pc = "poll" /\ attempt = 1 /\ late
                /\ late' = FALSE
                /\ UNCHANGED <<kind, pc, attempt, call, cursor, got, server>>
Deadline == /\ pc = "poll" /\ attempt = 1 /\ late
            /\ pc' = "deadline"
            /\ UNCHANGED <<kind, attempt, late, call, cursor, got, server>>

Elapse == /\ pc = "poll" /\ ~late
          /\ late' = TRUE
          /\ UNCHANGED <<kind, pc, attempt, call, cursor, got, server>>

-------------------------------------------------------------------------------
(* A container runs one queued input; its output, a success or a failure,  *)
(* joins the call's stream.                                                *)
Run(c, i) ==
  /\ queued[c][i] > 0
  /\ queued' = [queued EXCEPT ![c][i] = @ - 1]
  /\ ran' = [ran EXCEPT ![i] = @ + 1]
  /\ \E ok \in BOOLEAN :
       outputs' = [outputs EXCEPT ![c] = Append(@, [idx |-> i, ok |-> ok])]
  /\ UNCHANGED <<client, opened, expiry>>

(* The server drops what a cleared stream holds.                           *)
Expire(c) == /\ c \in expiring
             /\ expiring' = expiring \ {c}
             /\ expired' = [expired EXCEPT ![c] = Len(outputs[c])]
             /\ UNCHANGED <<client, opened, work>>

ClientStep == \/ LostRequest \/ FunctionMap \/ FunctionPutInputs
              \/ FunctionGetOutputs \/ Deadline

Next == \/ ClientStep \/ Get \/ Elapse
        \/ \E c \in Calls : Expire(c) \/ \E i \in Ordinals : Run(c, i)

Spec == Init /\ [][Next]_vars

(* The client is polled and every RPC attempt ends: keepalives (30s, 20s)  *)
(* turn a dead connection into a lost attempt.  Time passes.  No input has *)
(* to run, no output to expire.                                            *)
Fairness == WF_vars(ClientStep) /\ WF_vars(Elapse)
FairSpec == Spec /\ Fairness

-------------------------------------------------------------------------------
(* Types of every variable.                                                *)
TypeOK == /\ kind \in Kinds
          /\ pc \in Rpcs \cup Ended
          /\ attempt \in 1 .. MaxAttempts
          /\ late \in BOOLEAN
          /\ call \in Calls \cup {None}
          /\ cursor \in Nat
          /\ got \in [Ordinals -> Ordinals \cup {None}]
          /\ opened \in 0 .. MaxAttempts
          /\ queued \in [Calls -> [Ordinals -> Nat]]
          /\ outputs \in [Calls -> Seq([idx : Ordinals, ok : BOOLEAN])]
          /\ expiring \subseteq Calls
          /\ expired \in [Calls -> Nat]
          /\ ran \in [Ordinals -> Nat]

(* A collected map is in input order and every input ran: reordered,       *)
(* duplicated and redelivered outputs change nothing (invoke.rs:604-616;   *)
(* function.rs for_each, "a returned Ok(()) means all N ran").             *)
OrderedResults ==
  pc = "ok" => \A i \in Awaited : got[i] = i /\ ran[i] > 0

(* The client polls a call only when every input of it was enqueued under  *)
(* that call: fix #3, and the same for a lost answer to the put            *)
(* (invoke.rs:4-11).                                                       *)
EnqueuedBeforePoll ==
  pc \in {"poll", "spawned"} => Want \subseteq Seen(call)

(* The retry bounds what an invocation can execute: every execution of an  *)
(* input is accounted for by an attempt of the map or of the put           *)
(* (transport.rs:70-75, the double-enqueue caveat).                        *)
RunsBounded == \A i \in Ordinals : ran[i] <= 2 * MaxAttempts - 1

(* An invocation has not returned: no result, no error, no deadline.       *)
InFlight == pc \in Rpcs
===============================================================================
