------------------------------ MODULE MCObjects ------------------------------
(* Objects with small sets of users, and what its parts must eventually do *)
(* under the fairness of each.                                             *)
EXTENDS Objects, TLC

CONSTANTS a, b, c, h1, h2, p1, c1, c2, x1, t1, t2

(* A producer of a batch of two, a consumer and a cleaner with clones of   *)
(* one handle, and a consumer that waits forever with a handle of its own. *)
MCQueueHandle == (p1 :> h1) @@ (c1 :> h1) @@ (x1 :> h1) @@ (c2 :> h2)
MCBatch == p1 :> <<"a", "b">>
MCBad == {"b"}

(* Three tasks, two of them with clones of one handle; two compete with    *)
(* put_if_absent.                                                          *)
MCDictHandle == (a :> h1) @@ (b :> h1) @@ (c :> h2)
MCOps == (a :> {"put_if_absent", "pop"}) @@ (b :> {"get", "clear"})
           @@ (c :> {"put_if_absent", "put"})

(* Two uploads of one tree, an empty file and one of two equal blocks,     *)
(* with one local write under them.                                        *)
MCTrees == {(a :> <<1, 1>>) @@ (b :> <<>>)}

-------------------------------------------------------------------------------
(* The fairness of each part; the k-th step of one part and of another are *)
(* never of one behaviour, so they share a condition.                      *)
QueueTask == <<p1, c1, x1, c2>>
DictTask == <<a, b, c>>
VolumeTask == <<t1, t2>>
Steps(k) == \/ OnQueue(Q!Answer(QueueTask[k]))
            \/ k \in DOMAIN DictTask /\ OnDict(D!Rpc(DictTask[k]))
            \/ k \in DOMAIN VolumeTask /\ OnVolume(V!Step(VolumeTask[k]))
Locks(k) == \/ OnQueue(Q!Lock(QueueTask[k]))
            \/ k \in DOMAIN DictTask /\ OnDict(D!Lock(DictTask[k]))
Fairness == /\ \A k \in DOMAIN QueueTask : WF_vars(Steps(k)) /\ SF_vars(Locks(k))
            /\ WF_vars(OnQueue(Q!Elapse(c1)))
FairSpec == Spec /\ Fairness

(* A get that waits forever ends if the queue does not run dry (QueueOps). *)
BlockedGetFindsItem ==
  <>[](part = "queue" /\ queue # <<>>) =>
    ((part = "queue" /\ Q!Blocked(c2)) ~> ~(part = "queue" /\ Q!Blocked(c2)))

(* Whatever is lost, every call returns: of a queue, unless it waits       *)
(* forever, of a dict, and every put into a volume.                        *)
InFlight(k) ==
  CASE part = "queue" -> Q!InFlight(QueueTask[k])
    [] part = "dict" -> D!InFlight(DictTask[k])
    [] part = "volume" -> k \in DOMAIN VolumeTask /\ V!InFlight(VolumeTask[k])
CallsReturn == \A k \in DOMAIN DictTask : InFlight(k) ~> ~InFlight(k)
===============================================================================
