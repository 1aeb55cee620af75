------------------------------- MODULE MCDictOps -------------------------------
(* An instance of DictOps: three tasks, two of them with clones of one     *)
(* handle; two compete with put_if_absent.                                 *)
EXTENDS DictOps, TLC

CONSTANTS a, b, c, h1, h2

TwoHandles == (a :> h1) @@ (b :> h1) @@ (c :> h2)
MixedOps == (a :> {"put_if_absent", "pop"}) @@ (b :> {"get", "clear"})
              @@ (c :> {"put_if_absent", "put"})
===============================================================================
