------------------------------- MODULE MCRunApp -------------------------------
(***************************************************************************)
(* Instances of RunApp: sanitize_object_tag on names it keeps apart, and   *)
(* on two names ("a b" and "a/b", remote.rs:805) it maps to the same tag.  *)
(***************************************************************************)
EXTENDS RunApp, TLC

CONSTANTS e1, e2, g1, g2

DistinctTag  == (e1 :> g1) @@ (e2 :> g2)
CollidingTag == [e \in {e1, e2} |-> g1]
===============================================================================
