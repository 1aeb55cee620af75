--------------------------------- MODULE Objects ---------------------------------
(***************************************************************************)
(* The shared objects of Modal side by side: each behaviour is one of the  *)
(* users of a queue (QueueOps), of the users of a dict (DictOps), or of    *)
(* uploads into a volume (VolumePut).  `part` says which; the parts share  *)
(* the variables whose names they share, and the variables of the others   *)
(* are None.                                                               *)
(***************************************************************************)
EXTENDS Naturals, Sequences, FiniteSets

CONSTANTS
  Producers, Consumers, Cleaners,         \* the users of the queue,
  QueueHandles, QueueHandle,              \* their handles,
  Batch, Bad, Forever, MaxValues,         \* and what they put and get
  Clients, DictHandles, DictHandle, Ops,  \* the users of the dict
  Uploaders, Files, Contents, Trees, MaxEdits,  \* the uploads
  MaxAttempts,                            \* tries of one RPC
  Absent, None

VARIABLES part, pc, attempt, client,
  late, got, queue, n, took, log,
  result, op, entry, did, undone,
  tree, force, round, hashed, missing, answers, volume, store, edits, written

-------------------------------------------------------------------------------
Q == INSTANCE QueueOps WITH Handles <- QueueHandles, Handle <- QueueHandle
D == INSTANCE DictOps WITH
       Tasks <- Clients, Handles <- DictHandles, Handle <- DictHandle
V == INSTANCE VolumePut WITH Tasks <- Uploaders

ASSUME QueueConstants == /\ Q!RolesType /\ Q!HandleType /\ Q!BatchType
                         /\ Q!BoundsType /\ Q!ConsumersType
ASSUME DictConstants == D!HandleType /\ D!OpsType /\ D!MaxAttemptsType /\ D!NoValues
ASSUME VolumeConstants == V!BoundsType /\ V!TreesType /\ V!NoContent

-------------------------------------------------------------------------------
(* The variables by the part that owns them; pc, attempt and client are    *)
(* shared.                                                                 *)
queues == <<late, got, queue, n, took, log>>
dicts == <<result, op, entry, did, undone>>
puts == <<tree, force, round, hashed, missing, answers, volume, store, edits, written>>
vars == <<part, pc, attempt, client, queues, dicts, puts>>

NoQueues == /\ late = None /\ got = None /\ queue = None
            /\ n = None /\ took = None /\ log = None
NoDicts == result = None /\ op = None /\ entry = None /\ did = None /\ undone = None
NoPuts == /\ tree = None /\ force = None /\ round = None /\ hashed = None
          /\ missing = None /\ answers = None
          /\ volume = None /\ store = None /\ edits = None /\ written = None

Init == \/ part = "queue" /\ Q!Init /\ NoDicts /\ NoPuts
        \/ part = "dict" /\ D!Init /\ NoQueues /\ NoPuts
        \/ part = "volume" /\ V!Init /\ NoQueues /\ NoDicts /\ client = None

OnQueue(A) == part = "queue" /\ A /\ UNCHANGED <<part, dicts, puts>>
OnDict(A) == part = "dict" /\ A /\ UNCHANGED <<part, queues, puts>>
OnVolume(A) == part = "volume" /\ A /\ UNCHANGED <<part, client, queues, dicts>>

Next == OnQueue(Q!Next) \/ OnDict(D!Next) \/ OnVolume(V!Next)
Spec == Init /\ [][Next]_vars

-------------------------------------------------------------------------------
(* Types of every part.                                                    *)
TypeOK == \/ part = "queue" /\ Q!TypeOK
          \/ part = "dict" /\ D!TypeOK
          \/ part = "volume" /\ V!TypeOK

(* A batch leaves the queue in its order, in no more copies than its put   *)
(* had tries, and what a get popped is handed over whole (QueueOps).       *)
BatchesWhole == part = "queue" => Q!PutOrder /\ Q!CopiesBounded /\ Q!HandsOverBatch

(* The one winner of put_if_absent is stored until it is taken away        *)
(* (DictOps).                                                              *)
WinnerStored == part = "dict" => D!WinnerStored

(* A put that returns Ok was committed by the server, and only a local     *)
(* write under an upload makes one report that it diverged (VolumePut).    *)
PutReports == part = "volume" => V!OkCommitted /\ V!DivergesOnlyIfEdited

(* Without force nothing in a volume is replaced (VolumePut).              *)
NoOverwrite == [][part = "volume" => V!ReplacesOnlyByForce]_vars
===============================================================================
