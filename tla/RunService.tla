------------------------------ MODULE RunService ------------------------------
(***************************************************************************)
(* What the RUN path of App (`.remote()`, `.spawn()`, `.map()`) promises   *)
(* its callers, without locks, memo cells or RPCs: an entrypoint becomes   *)
(* invokable once and stays invokable, and a call that runs, runs as the   *)
(* Modal function that was created for its own entrypoint.                 *)
(***************************************************************************)
CONSTANTS Tasks,        \* one task per user call
          Entrypoints,  \* registry names
          NoEp          \* "ran nothing"

VARIABLES invokable,    \* entrypoints whose function calls can reach
          ranAs         \* ranAs[t]: the entrypoint whose config t's call ran with

vars == <<invokable, ranAs>>

Init == /\ invokable = {}
        /\ ranAs = [t \in Tasks |-> NoEp]

(* A provisioning finished: one more entrypoint can be invoked.            *)
Provide(e) == /\ e \notin invokable
              /\ invokable' = invokable \cup {e}
              /\ UNCHANGED ranAs

(* A call runs, under the config of an entrypoint that is invokable.       *)
Run(t, e) == /\ ranAs[t] = NoEp
             /\ e \in invokable
             /\ ranAs' = [ranAs EXCEPT ![t] = e]
             /\ UNCHANGED invokable

Next == \/ \E e \in Entrypoints : Provide(e)
        \/ \E t \in Tasks, e \in Entrypoints : Run(t, e)

Spec == Init /\ [][Next]_vars
===============================================================================
