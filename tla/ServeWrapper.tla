------------------------------ MODULE ServeWrapper ------------------------------
(***************************************************************************)
(* One warm container: the Python wrapper (remote/wrapper.py, and          *)
(* deploy/wrapper.py, whose handler is the same), its persistent           *)
(* `modal_runner --serve` children and the runtime's serve loop            *)
(* (modal-rust-runtime/src/lib.rs run_serve_with_io).                      *)
(*                                                                         *)
(* A caller is one execution of the Python handler, or the module import   *)
(* (Boot) that primes the child before the memory snapshot.  A frame is    *)
(* named by the caller that wrote it, a child by the caller that spawned   *)
(* it (a caller spawns at most one).  <<e, x>> is the envelope of running  *)
(* entrypoint e on input x.  What a request prints to stdout is in the     *)
(* pipe before its envelope, at most one line of it.                       *)
(*                                                                         *)
(* The container's setup is fixed when the image is built or the function  *)
(* created: its environment flags, what user code prints, and how many     *)
(* threads it has.  threads = 1 is a container without input concurrency;  *)
(* threads > 1 is what `max_concurrent_inputs` asks Modal for.             *)
(***************************************************************************)
EXTENDS Naturals, Sequences, FiniteSets

CONSTANTS Inputs,      \* handler executions of this container
          Describes,   \* those called for the describe sentinel
          Boot,        \* the module import
          None, Blank, Noise, Nack,
          Setups       \* the containers to consider

ASSUME InputsType == IsFiniteSet(Inputs) /\ Describes \subseteq Inputs /\ Boot \notin Inputs
ASSUME Marks == /\ None \notin Inputs \cup {Boot}
                /\ Blank # Nack
                /\ \A c \in Inputs \cup {Boot} : <<c, c>> \notin {Blank, Nack}
ASSUME SetupsType ==
  Setups \subseteq [threads : Nat \ {0},    \* inputs in the handler at once
                    serving : BOOLEAN,      \* MODAL_RUST_SERVE
                    priming : BOOLEAN,      \* MODAL_RUST_SNAPSHOT_PRIME
                    bestEffort : BOOLEAN,   \* MODAL_RUST_SNAPSHOT_BEST_EFFORT
                    prints : SUBSET {Blank, Noise}]  \* what user code prints

VARIABLES
  setup,   \* the container's setup
  pc,      \* where each caller is
  proc,    \* its local variable `proc`
  SERVE,   \* the module global _SERVE
  child,   \* each serve child: not spawned, up, or dead
  stdin,   \* each child's stdin pipe: frames
  stdout,  \* each child's stdout pipe: lines
  infile,  \* /tmp/in.json: whose input it holds
  ran,     \* history: how often each caller's request was executed
  result   \* the line each caller got

pipes == <<stdin, stdout>>
children == <<child, pipes>>
vars == <<setup, pc, proc, SERVE, children, infile, ran, result>>

-------------------------------------------------------------------------------
Callers == Inputs \cup {Boot}
Active == {"check", "popen", "bind", "write", "read", "file", "exec", "describe"}
Ended == {"returned", "raised"}
Lines == {Blank, Noise, Nack} \cup (Callers \X Callers)

Up(c) == child[c] = "up"
Usable(p) == p # None /\ Up(p)
Alive == {c \in Callers : Up(c)}

Init == /\ setup \in Setups
        /\ pc = [c \in Callers |->
                   IF c \in Inputs THEN "queued"
                   ELSE IF setup.serving /\ setup.priming THEN "check" ELSE "returned"]
        /\ proc = [c \in Callers |-> None]
        /\ SERVE = None
        /\ child = [c \in Callers |-> "none"]
        /\ stdin = [c \in Callers |-> <<>>]
        /\ stdout = [c \in Callers |-> <<>>]
        /\ infile = None
        /\ ran = [c \in Callers |-> 0]
        /\ result = [c \in Callers |-> None]

Goto(c, from, to) == /\ pc[c] = from
                     /\ pc' = [pc EXCEPT ![c] = to]

Ran(c) == ran' = [ran EXCEPT ![c] = @ + 1]

-------------------------------------------------------------------------------
(* handler: Modal calls it once the module has been imported.              *)
Start(i) ==
  /\ pc[Boot] = "returned"
  /\ Cardinality({j \in Inputs : pc[j] \in Active}) < setup.threads
  /\ Goto(i, "queued", IF i \in Describes THEN "describe"
                       ELSE IF setup.serving THEN "check" ELSE "file")
  /\ UNCHANGED <<proc, SERVE, children, infile, ran, result>>

(* Mutant: a child is spawned for each call.                               *)
CheckNever(c) == /\ Goto(c, "check", "popen")
                 /\ UNCHANGED <<proc, SERVE, children, infile, ran, result>>
(* _serve_child: `_SERVE is not None and _SERVE.poll() is None` ...        *)
Check(c) ==
  /\ Goto(c, "check", IF Usable(SERVE) THEN "bind" ELSE "popen")
  /\ UNCHANGED <<proc, SERVE, children, infile, ran, result>>

(* ... else spawn; another thread may have done so since the check.        *)
Popen(c) == /\ Goto(c, "popen", "bind")
            /\ SERVE' = c
            /\ child' = [child EXCEPT ![c] = "up"]
            /\ UNCHANGED <<proc, pipes, infile, ran, result>>

(* return _SERVE: the global is read again.                                *)
Bind(c) == /\ Goto(c, "bind", "write")
           /\ proc' = [proc EXCEPT ![c] = SERVE]
           /\ UNCHANGED <<SERVE, children, infile, ran, result>>

(* proc.stdin.write and flush.                                             *)
Write(c) == /\ Goto(c, "write", "read")
            /\ Usable(proc[c])
            /\ stdin' = [stdin EXCEPT ![proc[c]] = Append(@, c)]
            /\ UNCHANGED <<proc, SERVE, child, stdout, infile, ran, result>>

(* _snapshot_prime_fail: raise at import, or drop the child and go on.     *)
PrimeFails == /\ pc' = [pc EXCEPT ![Boot] =
                          IF setup.bestEffort THEN "returned" ELSE "raised"]
              /\ SERVE' = IF setup.bestEffort THEN None ELSE SERVE

(* Mutant: the call goes back to a fresh serve child.                      *)
RespawnForIt(c) == /\ SERVE' = None
                   /\ pc' = [pc EXCEPT ![c] = "check"]
(* The serve child is dropped and the call falls back to a one-shot exec.  *)
FallBack(c) == /\ SERVE' = None
               /\ pc' = [pc EXCEPT ![c] = "file"]

Broken(c) == IF c = Boot THEN PrimeFails ELSE FallBack(c)

(* EPIPE, or the child was dropped by another thread before the bind.      *)
WriteFails(c) == /\ pc[c] = "write"
                 /\ ~Usable(proc[c])
                 /\ Broken(c)
                 /\ UNCHANGED <<proc, children, infile, ran, result>>

(* The next line of the pipe is taken for this call's envelope.            *)
Accept(c, line) ==
  /\ line # Blank
  /\ IF c = Boot /\ line # <<Boot, Boot>>
       THEN PrimeFails
       ELSE pc' = [pc EXCEPT ![c] = "returned"] /\ UNCHANGED SERVE
  /\ result' = [result EXCEPT ![c] = line]

(* proc.stdout.readline gave a line.                                       *)
Read(c) == LET p == proc[c]
               line == Head(stdout[p])
           IN /\ pc[c] = "read" /\ stdout[p] # <<>>
              /\ stdout' = [stdout EXCEPT ![p] = Tail(@)]
              /\ \/ Accept(c, line)
                 \/ line = Blank /\ Broken(c) /\ UNCHANGED result
              /\ UNCHANGED <<proc, child, stdin, infile, ran>>

(* Mutants: a slow child is taken for a dead one; the read is retried.     *)
ReadTimesOut(c) == /\ pc[c] = "read" /\ stdout[proc[c]] = <<>>
                   /\ Broken(c)
                   /\ UNCHANGED <<proc, children, infile, ran, result>>
ReadAgain(c) == /\ pc[c] = "read" /\ stdout[proc[c]] = <<>>
                /\ ~Up(proc[c])
                /\ UNCHANGED vars
(* ... or end of file: the child is gone and its output is drained.        *)
ReadEof(c) == /\ pc[c] = "read" /\ stdout[proc[c]] = <<>>
              /\ ~Up(proc[c])
              /\ Broken(c)
              /\ UNCHANGED <<proc, children, infile, ran, result>>

-------------------------------------------------------------------------------
(* _run_one_shot: the input goes through a fixed file name ...             *)
WriteFile(i) == /\ Goto(i, "file", "exec")
                /\ infile' = i
                /\ UNCHANGED <<proc, SERVE, children, ran, result>>

(* Mutant: the raw output of the wrong kind is returned.                   *)
OneShotRaw(i) == /\ Goto(i, "exec", "returned")
                 /\ Ran(i)
                 /\ result' = [result EXCEPT ![i] = infile]
                 /\ UNCHANGED <<proc, SERVE, children, infile>>
(* ... and everything the process wrote to stdout is the result.           *)
OneShot(i) == /\ Goto(i, "exec", "returned")
              /\ Ran(i)
              /\ \E line \in {<<i, infile>>} \cup (setup.prints \ {Blank}) :
                    result' = [result EXCEPT ![i] = line]
              /\ UNCHANGED <<proc, SERVE, children, infile>>

(* The fresh process dies with no output, having run the call or not.      *)
OneShotDies(i) == /\ Goto(i, "exec", "raised")
                  /\ Ran(i) \/ UNCHANGED ran
                  /\ UNCHANGED <<proc, SERVE, children, infile, result>>

(* _run_describe: one-shot, off the serve child.                           *)
Describe(i) == /\ \/ /\ Goto(i, "describe", "returned")
                     /\ result' = [result EXCEPT ![i] = <<i, i>>]
                  \/ /\ Goto(i, "describe", "raised")
                     /\ UNCHANGED result
               /\ UNCHANGED <<proc, SERVE, children, infile, ran>>

-------------------------------------------------------------------------------
(* The serve loop: one frame, one line; panics, bad frames and unknown     *)
(* entrypoints are envelopes too.  A prime answers with its ack.           *)
Answer(frame) == {<<frame, frame>>} \cup (IF frame = Boot THEN {Nack} ELSE {})

(* Mutant: the prime arm does not `continue` into the next frame.          *)
ServeFallsThrough(c) ==
  LET frame == Head(stdin[c])
  IN /\ Up(c) /\ stdin[c] # <<>>
     /\ stdin' = [stdin EXCEPT ![c] = Tail(@)]
     /\ \E line \in Answer(frame) :
           stdout' = [stdout EXCEPT ![c] =
             Append(@, line) \o (IF frame = Boot THEN <<Noise>> ELSE <<>>)]
     /\ Ran(frame)
     /\ UNCHANGED <<pc, proc, SERVE, child, infile, result>>
Serve(c) ==
  LET frame == Head(stdin[c])
  IN /\ Up(c) /\ stdin[c] # <<>>
     /\ stdin' = [stdin EXCEPT ![c] = Tail(@)]
     /\ \E line \in Answer(frame),
           printed \in {<<>>} \cup {<<l>> : l \in setup.prints} :
              stdout' = [stdout EXCEPT ![c] = @ \o printed \o <<line>>]
     /\ Ran(frame)
     /\ UNCHANGED <<pc, proc, SERVE, child, infile, result>>

(* The child process dies (abort, out of memory, exit called by user       *)
(* code): idle or before a frame ran, or after it ran and before its line. *)
Dies(c) == /\ Up(c)
           /\ child' = [child EXCEPT ![c] = "dead"]
           /\ \/ UNCHANGED ran
              \/ stdin[c] # <<>> /\ Ran(Head(stdin[c]))
           /\ UNCHANGED <<pc, proc, SERVE, pipes, infile, result>>

Handle(c) == \/ Check(c) \/ Popen(c) \/ Bind(c)
             \/ Write(c) \/ WriteFails(c)
             \/ Read(c) \/ ReadEof(c)

Exec(i) == OneShot(i) \/ OneShotDies(i)

Next == /\ \/ \E i \in Inputs : \/ Start(i) \/ WriteFile(i)
                                \/ Exec(i) \/ Describe(i)
           \/ \E c \in Callers : Handle(c) \/ Serve(c) \/ Dies(c)
        /\ UNCHANGED setup

Spec == Init /\ [][Next]_vars

(* Python runs its threads, the child process reads its stdin, and user    *)
(* code returns (Modal's function timeout ends it otherwise); neither a    *)
(* new input nor a crash is ever forced.                                   *)
Fairness ==
  /\ \A i \in Inputs : /\ WF_vars(WriteFile(i) /\ UNCHANGED setup)
                       /\ WF_vars(Exec(i) /\ UNCHANGED setup)
                       /\ WF_vars(Describe(i) /\ UNCHANGED setup)
  /\ \A c \in Callers : /\ WF_vars(Handle(c) /\ UNCHANGED setup)
                        /\ WF_vars(Serve(c) /\ UNCHANGED setup)
FairSpec == Spec /\ Fairness

-------------------------------------------------------------------------------
(* Types of every variable.                                                *)
TypeOK == /\ setup \in Setups
          /\ pc \in [Callers -> {"queued"} \cup Active \cup Ended]
          /\ proc \in [Callers -> Callers \cup {None}]
          /\ SERVE \in Callers \cup {None}
          /\ child \in [Callers -> {"none", "up", "dead"}]
          /\ stdin \in [Callers -> Seq(Callers)]
          /\ stdout \in [Callers -> Seq(Lines)]
          /\ infile \in Inputs \cup {None}
          /\ ran \in [Callers -> Nat]
          /\ result \in [Callers -> Lines \cup {None}]

(* A call that returns returns its own envelope, whatever children died    *)
(* before or during it: a line left in a pipe is never taken for a later   *)
(* call's answer (wrapper.py:27-29, the per-call (entrypoint, input) ->    *)
(* envelope contract).                                                     *)
(* The wrapper keeps this only for a container of one thread whose user    *)
(* code leaves stdout alone (`Alone`).                                     *)
OwnEnvelope == \A i \in Inputs : pc[i] = "returned" => result[i] = <<i, i>>

Alone == setup.threads = 1 /\ setup.prints = {}
OwnEnvelopeAlone == Alone => OwnEnvelope

(* At most one serve child is up: `#[enter]` state is not loaded twice at  *)
(* the same time (wrapper.py:24, "ONE persistent child per warm            *)
(* container").  A child that refused the prime is not counted: a best     *)
(* effort drops it without waiting for its end (deploy/wrapper.py:150-154).*)
Refused == IF result[Boot] = Nack THEN {Boot} ELSE {}
OneLiveChild == Alone => Cardinality(Alive \ Refused) <= 1

(* A call is executed at most twice, and twice only when the serve child   *)
(* that had it died (wrapper.py:347, fall back "on any pipe/child          *)
(* failure").                                                              *)
RerunOnlyAfterDeath ==
  Alone => \A i \in Inputs : /\ ran[i] <= 2
                             /\ ran[i] = 2 => child[proc[i]] = "dead"

(* A container of one thread and silent user code keeps its promise: one   *)
(* input at a time, executed only while its handler waits for it, answered *)
(* by an execution of its own or raising (ContainerService; wrapper.py:    *)
(* 343-369, "never lose a call to a broken serve child").                  *)
Stage(i) == CASE pc[i] = "queued" -> "queued"
              [] pc[i] \in Active -> "inside"
              [] pc[i] = "returned" -> "answered"
              [] OTHER -> "raised"
Service == INSTANCE ContainerService WITH
             single <- Alone,
             stage <- [i \in Inputs |-> Stage(i)],
             runs <- [i \in Inputs |-> ran[i]],
             reply <- [i \in Inputs |-> result[i]]
ServiceSpec == Service!Spec

(* Every call that reached the handler is answered or raises: a caller     *)
(* never waits for a line no child will write (wrapper.py:362, EOF).       *)
EveryInputAnswered ==
  \A i \in Inputs : pc[i] \in Active ~> pc[i] \in Ended
===============================================================================
