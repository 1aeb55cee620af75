-------------------------------- MODULE MCDeploy --------------------------------
(***************************************************************************)
(* Instances of Deploy: a project whose source goes through four versions, *)
(* the third with an option that is refused and the fourth with a source   *)
(* that does not compile.                                                  *)
(***************************************************************************)
EXTENDS Deploy, TLC

CONSTANTS d1, d2, c1, n1, n2, g1, g2, w1, w2, s1, s2

MCTag        == (n1 :> g1) @@ (n2 :> g2)
MCWebAttr    == (n1 :> w1) @@ (n2 :> w2)
MCServerAttr == (n1 :> s1) @@ (n2 :> s2)

Plain == [parses |-> TRUE, min |-> None, max |-> None,
          window |-> None, inputs |-> None, target |-> None]
Entry(n, kind) == [name |-> n, kind |-> kind, env |-> None, secrets |-> {},
                   options |-> Plain, snapshot |-> FALSE, pip |-> {},
                   image |-> FALSE]

Scaled  == [Plain EXCEPT !.min = 0, !.max = 1, !.inputs = 2, !.target = 2]
Refused == [Plain EXCEPT !.target = 1]

MCProgram ==
  << << [Entry(n1, "plain") EXCEPT !.env = 1, !.image = TRUE, !.pip = {"numpy"},
                                   !.snapshot = TRUE, !.secrets = {"key"}],
        Entry(n2, "endpoint") >>,
     << [Entry(n1, "server") EXCEPT !.env = 2, !.options = Scaled] >>,
     << Entry(n1, "endpoint"), [Entry(n2, "plain") EXCEPT !.options = Refused] >>,
     << Entry(n1, "plain") >> >>
================================================================================
