------------------------------ MODULE MountUpload ------------------------------
(***************************************************************************)
(* The source upload (modal-rust-sdk/src/ops/local_dir.rs 253-437,         *)
(* ops/blob.rs): the collected files are deduplicated by content, each     *)
(* content is probed, uploaded and confirmed by one of at most Width       *)
(* concurrent tasks over clones of the client, and only then is the mount  *)
(* created from the descriptors.  The first failure drops the JoinSet,     *)
(* which aborts the other tasks wherever they are.                         *)
(*                                                                         *)
(* Server, external: a content it was sent becomes visible to a probe at   *)
(* some later time, or never (local_dir.rs:58-61); an attempt may be lost  *)
(* before or after it is applied.                                          *)
(*                                                                         *)
(* Abstracted: a content is its own sha; ids; Large contents go through    *)
(* BlobCreate and a presigned PUT.  MaxAttempts bounds the tries of one    *)
(* RPC or PUT, Probes the probes of the ten minutes of one file.           *)
(***************************************************************************)
EXTENDS Naturals, Sequences, FiniteSets

CONSTANTS Contents, Large, Width, MaxAttempts, MaxProbes,
          FileLists,  \* what a walk collects: sequences of [path, content]
          None

Requests == {"probe", "blob", "object", "upload", "confirm"}

BoundsType == {Width, MaxAttempts} \subseteq Nat \ {0} /\ MaxProbes \in Nat
FileListsType == \A l \in FileLists : /\ l \in Seq({l[i] : i \in DOMAIN l})
                                      /\ \A i \in DOMAIN l : l[i].content \in Contents
NoStep == None \notin Requests \cup {"done", "failed", "joined"}

VARIABLES
  files,     \* the collected files, in walk order
  phase,     \* the caller: "collect", "upload", "mount" or an end
  queue,     \* contents no task has taken yet
  step,      \* content -> program counter of its task, or None
  tries,     \* content -> try of its request
  probes,    \* content -> completion probes so far
  sent,      \* server: contents received, not yet visible
  visible,   \* server: contents a probe finds
  mounts     \* server: file lists of the mounts created

uploads == <<queue, step, tries, probes>>
server == <<sent, visible, mounts>>
vars == <<files, phase, uploads, server>>

-------------------------------------------------------------------------------
Ended == {"ok", "duplicate", "empty", "error"}
Running == {c \in Contents : step[c] \notin {None, "joined"}}
Wanted == {files[i].content : i \in DOMAIN files}

Init == /\ files \in FileLists
        /\ phase = "collect"
        /\ queue = {}
        /\ step = [c \in Contents |-> None]
        /\ tries = [c \in Contents |-> 1]
        /\ probes = [c \in Contents |-> 0]
        /\ sent = {}
        /\ visible \in SUBSET Contents
        /\ mounts = {}

Paths == {files[i].path : i \in DOMAIN files}
FirstOf(c) == CHOOSE i \in DOMAIN files :
                files[i].content = c /\ \A j \in 1 .. i - 1 : files[j].content # c

(* finalize_mount and the first half of upload_files: nothing to upload    *)
(* and two files at one path are refused, and every content is queued      *)
(* once; the first Width are started.                                      *)
Before(c) == {d \in Wanted : FirstOf(d) < FirstOf(c)}
Collect ==
  /\ phase = "collect"
  /\ LET first == {c \in Wanted : Cardinality(Before(c)) < Width}
     IN CASE files = <<>> -> phase' = "empty" /\ UNCHANGED <<queue, step>>
          [] Cardinality(Paths) < Len(files) ->
               phase' = "duplicate" /\ UNCHANGED <<queue, step>>
          [] OTHER ->
               /\ phase' = "upload"
               /\ step' = [c \in Contents |-> IF c \in first THEN "probe" ELSE None]
               /\ queue' = Wanted \ first
  /\ UNCHANGED <<files, tries, probes, server>>

(* The next content is started when a task is joined; when all are, the    *)
(* mount is created.                                                       *)
Join(c) ==
  /\ phase = "upload" /\ step[c] = "done"
  /\ IF queue = {}
       THEN /\ step' = [step EXCEPT ![c] = "joined"]
            /\ phase' = IF Running = {c} THEN "mount" ELSE phase
            /\ UNCHANGED queue
       ELSE /\ \E d \in queue :
                 /\ Before(d) \cap queue = {}
                 /\ step' = [step EXCEPT ![c] = "joined", ![d] = "probe"]
                 /\ queue' = queue \ {d}
            /\ UNCHANGED phase
  /\ UNCHANGED <<files, tries, probes, server>>

(* A failed task ends the upload; the JoinSet is dropped with the others.  *)
JoinFailed(c) ==
  /\ phase = "upload" /\ step[c] = "failed"
  /\ phase' = "error"
  /\ step' = [d \in Contents |-> None]
  /\ queue' = {}
  /\ UNCHANGED <<files, tries, probes, server>>

-------------------------------------------------------------------------------
Goes(c, label) == /\ step' = [step EXCEPT ![c] = label]
                  /\ tries' = [tries EXCEPT ![c] = 1]

(* The attempt is lost; a terminal answer fails the task.                  *)
Lost(c) == \/ /\ tries[c] < MaxAttempts
              /\ tries' = [tries EXCEPT ![c] = @ + 1]
              /\ UNCHANGED step
           \/ Goes(c, "failed")

At(c, label) == phase = "upload" /\ step[c] = label /\ UNCHANGED <<files, phase, queue, mounts>>

(* The existence probe: what the server has is not sent again.             *)
Probe(c) ==
  /\ At(c, "probe")
  /\ \/ Goes(c, IF c \in visible THEN "done"
                ELSE IF c \in Large THEN "blob" ELSE "upload")
     \/ Lost(c)
  /\ UNCHANGED <<probes, sent, visible>>

(* BlobCreate; a multipart plan is refused.                                *)
BlobCreate(c) ==
  /\ At(c, "blob")
  /\ Goes(c, "object") \/ Lost(c)
  /\ UNCHANGED <<probes, sent, visible>>

(* The PUT of the object, retried on a 5xx, 429, timeout or refusal.       *)
PutObject(c) ==
  /\ At(c, "object")
  /\ Goes(c, "upload") \/ Lost(c)
  /\ UNCHANGED <<probes, sent, visible>>

(* MountPutFile with the data or the blob id.                              *)
PutFile(c) ==
  /\ At(c, "upload")
  /\ \/ Goes(c, "confirm") /\ sent' = sent \cup {c}
     \/ Lost(c) /\ sent' \in {sent, sent \cup {c}}
  /\ UNCHANGED <<probes, visible>>

(* Mutant: what was sent is taken to be there.                             *)
ConfirmAtOnce(c) == /\ At(c, "confirm")
                    /\ Goes(c, "done")
                    /\ UNCHANGED <<probes, sent, visible>>
(* The completion gate: probe until the server has it or time is up.       *)
Confirm(c) ==
  /\ At(c, "confirm")
  /\ \/ /\ Goes(c, CASE c \in visible -> "done"
                     [] c \notin visible /\ probes[c] < MaxProbes -> "confirm"
                     [] OTHER -> "failed")
        /\ probes' = [probes EXCEPT ![c] = IF @ < MaxProbes THEN @ + 1 ELSE @]
     \/ Lost(c) /\ UNCHANGED probes
  /\ UNCHANGED <<sent, visible>>

(* MountGetOrCreate with every descriptor, sorted by path.                 *)
Descriptors == {files[i] : i \in DOMAIN files}
CreateMount ==
  /\ phase = "mount"
  /\ \/ phase' = "ok" /\ mounts' = mounts \cup {Descriptors}
     \/ phase' = "error" /\ mounts' \in {mounts, mounts \cup {Descriptors}}
  /\ UNCHANGED <<files, uploads, sent, visible>>

(* The server's side: what it received can be probed from now on; a        *)
(* content of the source may also come from an upload by someone else.     *)
Appear(c) == /\ c \in (sent \cup Wanted) \ visible
             /\ visible' = visible \cup {c}
             /\ UNCHANGED <<files, phase, uploads, sent, mounts>>

TaskStep(c) == \/ Probe(c) \/ BlobCreate(c) \/ PutObject(c) \/ PutFile(c)
               \/ Confirm(c) \/ Join(c) \/ JoinFailed(c)
Next == Collect \/ CreateMount \/ \E c \in Contents : TaskStep(c) \/ Appear(c)

Spec == Init /\ [][Next]_vars
(* The runtime polls every task, and every try of a request ends.          *)
FairSpec == Spec /\ WF_vars(Collect) /\ WF_vars(CreateMount)
                 /\ \A c \in Contents : WF_vars(TaskStep(c))

-------------------------------------------------------------------------------
(* Types of every variable.                                                *)
TypeOK == /\ files \in FileLists
          /\ phase \in {"collect", "upload", "mount"} \cup Ended
          /\ queue \subseteq Contents
          /\ step \in [Contents -> Requests \cup {None, "done", "failed", "joined"}]
          /\ tries \in [Contents -> 1 .. MaxAttempts]
          /\ probes \in [Contents -> 0 .. MaxProbes]
          /\ sent \subseteq Contents /\ visible \subseteq Contents
          /\ mounts \subseteq {{l[i] : i \in DOMAIN l} : l \in FileLists}

(* A mount is created only of contents the server has confirmed: a build   *)
(* in the container never meets a source file that is not there            *)
(* (local_dir.rs:394-437).                                                 *)
MountWhole ==
  \A m \in mounts : /\ m = Descriptors
                    /\ \A f \in m : f.content \in visible

(* The upload has not ended, which the server may lose or never confirm.   *)
InFlight == phase \notin Ended
===============================================================================
