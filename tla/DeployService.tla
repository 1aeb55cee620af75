----------------------------- MODULE DeployService -----------------------------
(***************************************************************************)
(* What `App::deploy` and `App::call` promise about one stable app name    *)
(* (modal-rust/src/deploy.rs): the name always stands for one whole        *)
(* version of the program, a deploy replaces it at once, and a call        *)
(* resolves its entrypoint in the version the name stands for at that      *)
(* moment, or is told that there is none.                                  *)
(***************************************************************************)
CONSTANTS Callers, Versions, Names,
          NamesIn,     \* the entrypoints of a version
          None

VARIABLES current,     \* the deployed version
          answer       \* what each caller's name was resolved to

Init == /\ current = None
        /\ answer = [c \in Callers |-> None]

(* Re-deploys REPLACE under the name (deploy.rs:44-46).                    *)
Replace(v) == /\ current' = v
              /\ UNCHANGED answer

(* `from_name` on the tag of the entrypoint.                               *)
Lookup(c, n) ==
  /\ answer[c] = None
  /\ answer' = [answer EXCEPT ![c] =
       [name |-> n,
        version |-> IF current # None /\ n \in NamesIn[current]
                      THEN current ELSE None]]
  /\ UNCHANGED current

Next == \/ \E v \in Versions : Replace(v)
        \/ \E c \in Callers, n \in Names : Lookup(c, n)

Spec == Init /\ [][Next]_<<current, answer>>
================================================================================
