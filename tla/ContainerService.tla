---------------------------- MODULE ContainerService ----------------------------
(***************************************************************************)
(* What a warm container promises (remote/wrapper.py), without children,   *)
(* pipes or files: it takes one input at a time; it executes an input only *)
(* while that input is in the handler, and at most twice, "never lose a    *)
(* call to a broken serve child"; an input is answered once, by the        *)
(* envelope of its own execution, or its handler raises. A describe is     *)
(* answered without executing anything.                                    *)
(*                                                                         *)
(* Only a container of one thread, whose user code leaves stdout alone,    *)
(* promises this (`single`); of any other nothing is said here.            *)
(***************************************************************************)
EXTENDS Naturals

CONSTANTS Inputs, Describes, None

VARIABLES single,  \* whether the container makes the promise
          stage,   \* each input: queued, inside, answered or raised
          runs,    \* how often each was executed
          reply    \* <<i, i>>: the envelope of executing i on its input

Init == /\ single \in BOOLEAN
        /\ stage = [i \in Inputs |-> "queued"]
        /\ runs = [i \in Inputs |-> 0]
        /\ reply = [i \in Inputs |-> None]

(* The handler is called.                                                  *)
Begin(i) == /\ stage[i] = "queued"
            /\ \A j \in Inputs : stage[j] # "inside"
            /\ stage' = [stage EXCEPT ![i] = "inside"]
            /\ UNCHANGED <<runs, reply>>

(* A runner executes the request; the first one may die of it.             *)
Again(i) == /\ i \notin Describes
            /\ runs[i] < 2
            /\ runs' = [runs EXCEPT ![i] = @ + 1]
Execute(i) == /\ stage[i] = "inside"
              /\ Again(i)
              /\ UNCHANGED <<stage, reply>>

(* The handler returns, at once with an execution if that is one-shot ...  *)
Answer(i) == /\ stage[i] = "inside"
             /\ stage' = [stage EXCEPT ![i] = "answered"]
             /\ Again(i) \/ UNCHANGED runs
             /\ i \in Describes \/ runs'[i] > 0
             /\ reply' = [reply EXCEPT ![i] = <<i, i>>]

(* ... or raises: the fresh process of the fallback died, too.             *)
Raise(i) == /\ stage[i] = "inside"
            /\ stage' = [stage EXCEPT ![i] = "raised"]
            /\ Again(i) \/ UNCHANGED runs
            /\ UNCHANGED reply

Next == /\ UNCHANGED single
        /\ single => \E i \in Inputs : Begin(i) \/ Execute(i) \/ Answer(i) \/ Raise(i)

Spec == Init /\ [][Next]_<<single, stage, runs, reply>>
===============================================================================
