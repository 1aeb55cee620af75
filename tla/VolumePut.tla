------------------------------- MODULE VolumePut -------------------------------
(***************************************************************************)
(* Uploads into one Modal Volume (modal-rust-sdk/src/ops/volume.rs, the    *)
(* facade's Volume::put): plan the files, hash them into blocks, declare   *)
(* the blocks with VolumePutFiles2, PUT the ones the server misses, and    *)
(* declare them once more with the answers of the PUTs.                    *)
(*                                                                         *)
(* Tasks are uploaders with clients of their own, of the same or of        *)
(* different local trees; a local file may be written between the time it  *)
(* is hashed and the time its block is read again for the PUT.  The server *)
(* is external: it commits a request whole, and what a PUT returns stands  *)
(* for the bytes that were sent (proto/api.proto:3952-4016).               *)
(*                                                                         *)
(* Abstracted: a block is its content, and a content is its own sha; modes *)
(* and sizes; the delays of the retries; MaxAttempts bounds the tries      *)
(* (RetryPolicy.max_attempts, 8), MaxEdits the local writes.               *)
(***************************************************************************)
EXTENDS Naturals, Sequences

CONSTANTS Tasks, Files, Contents, MaxAttempts, MaxEdits,
          Trees,   \* initial local trees, each in [Files -> Seq(Contents)]
          None

Manifests == [Files -> Seq(Contents)]
Missings == SUBSET (Files \X Nat)

BoundsType == MaxAttempts \in Nat \ {0} /\ MaxEdits \in Nat
TreesType == Trees \subseteq Manifests
NoContent == None \notin Contents /\ None \notin Seq(Contents)

VARIABLES
  tree,      \* task -> local file -> its blocks, as they are on disk
  force,     \* task -> overwrite existing files
  pc,        \* task -> program counter
  round,     \* task -> 0 or 1, the VolumePutFiles2 round
  attempt,   \* task -> try of the request in progress
  hashed,    \* task -> file -> its blocks so far, as hashed
  missing,   \* task -> missing blocks <<file, index>> still to be looked at
  answers,   \* task -> sha -> the content its PUT answer stands for, or None
  volume,    \* server: file -> committed blocks, or None
  store,     \* server: contents it holds
  edits,     \* local writes so far
  written    \* history: tasks whose declaration the server committed

task == <<pc, round, attempt, hashed, missing, answers>>
server == <<volume, store, written>>
vars == <<tree, force, task, server, edits>>

-------------------------------------------------------------------------------
Blocks(manifest) == UNION {{<<f, i>> : i \in DOMAIN manifest[f]} : f \in Files}
ContentsOf(manifest) == {manifest[b[1]][b[2]] : b \in Blocks(manifest)}
Ended == {"ok", "exists", "diverged", "error"}

Init == /\ tree \in [Tasks -> Trees]
        /\ force \in [Tasks -> BOOLEAN]
        /\ pc = [t \in Tasks |-> "hash"]
        /\ round = [t \in Tasks |-> 0]
        /\ attempt = [t \in Tasks |-> 1]
        /\ hashed = [t \in Tasks |-> [f \in Files |-> <<>>]]
        /\ missing = [t \in Tasks |-> {}]
        /\ answers = [t \in Tasks |-> [sha \in Contents |-> None]]
        /\ volume = [f \in Files |-> None]
        /\ store = {}
        /\ edits = 0
        /\ written = {}

GoTo(t, label) == /\ pc' = [pc EXCEPT ![t] = label]
                  /\ attempt' = [attempt EXCEPT ![t] = 1]

(* The files are read and hashed block by block, a file that was begun to  *)
(* its end; one of no blocks has nothing to read.                          *)
Left(t, f) == Len(hashed[t][f]) < Len(tree[t][f])
Hash(t) ==
  /\ pc[t] = "hash"
  /\ \/ \E f \in Files :
          /\ Left(t, f)
          /\ \A g \in Files \ {f} : Left(t, g) => hashed[t][g] = <<>>
          /\ hashed' = [hashed EXCEPT ![t][f] = Append(@, tree[t][f][Len(@) + 1])]
          /\ UNCHANGED <<pc, attempt>>
     \/ /\ \A f \in Files : ~Left(t, f)
        /\ GoTo(t, "declare")
        /\ UNCHANGED hashed
  /\ UNCHANGED <<tree, force, round, missing, answers, server, edits>>

(* A file that is gone or has shrunk fails the upload.                     *)
ReadFails(t) ==
  /\ pc[t] = "hash" \/ (pc[t] = "put" /\ missing[t] # {})
  /\ GoTo(t, "error")
  /\ UNCHANGED <<tree, force, round, hashed, missing, answers, server, edits>>

(* A local program writes a block of a file that is being uploaded.        *)
Edit(t) ==
  /\ edits < MaxEdits
  /\ pc[t] \notin Ended
  /\ edits' = edits + 1
  /\ \E b \in Blocks(tree[t]), c \in Contents :
       tree' = [tree EXCEPT ![t][b[1]][b[2]] = c]
  /\ UNCHANGED <<force, task, server>>

-------------------------------------------------------------------------------
(* The transient retry of a request or of a PUT: another try, or the error.*)
Retry(t) == \/ /\ attempt[t] < MaxAttempts
               /\ attempt' = [attempt EXCEPT ![t] = @ + 1]
               /\ UNCHANGED pc
            \/ GoTo(t, "error")
Lost(t) == Retry(t) /\ UNCHANGED <<round, hashed, missing, answers>>

(* The blocks the server has neither in its store nor by an answer of a    *)
(* PUT of those bytes.                                                     *)
Held(t) == store \cup
           {sha \in Contents : answers[t][sha] = sha}
Missing(t) == {b \in Blocks(hashed[t]) : hashed[t][b[1]][b[2]] \notin Held(t)}
There == {f \in Files : volume[f] # None}

(* Mutant: the request never asks to keep what exists.                     *)
Never(t) == FALSE
(* disallow_overwrite_existing_files.                                      *)
Disallow(t) == ~force[t]

(* The server refuses to overwrite; a declaration of what is there already *)
(* may pass as a no-op.                                                    *)
MayRefuse(t) == Disallow(t) /\ There # {}
MayCommit(t) == /\ Missing(t) = {}
                /\ Disallow(t) => \A f \in There : volume[f] = hashed[t][f]

(* Mutant: the blocks were PUT, so the files must be there.                *)
DoneAfterPut(t, m) == IF m = {} \/ round[t] = 1 THEN "ok" ELSE "put"
(* What the answer to a declaration means.                                 *)
AfterDeclare(t, m) == CASE m = {} -> "ok"
                        [] m # {} /\ round[t] = 0 -> "put"
                        [] OTHER -> "diverged"

Commit(t) == /\ volume' = hashed[t]
             /\ store' = store \cup ContentsOf(hashed[t])
             /\ written' = written \cup {t}

(* VolumePutFiles2, both rounds.                                           *)
VolumePutFiles2(t) ==
  /\ pc[t] = "declare"
  /\ UNCHANGED <<tree, force, edits>>
  /\ \/ /\ MayRefuse(t)
        /\ \/ GoTo(t, "exists") /\ UNCHANGED <<round, hashed, missing, answers>>
           \/ Lost(t)
        /\ UNCHANGED server
     \/ /\ MayCommit(t)
        /\ Commit(t)
        /\ \/ /\ GoTo(t, AfterDeclare(t, {}))
              /\ UNCHANGED <<round, hashed, missing, answers>>
           \/ Lost(t)
     \/ /\ Missing(t) # {}
        /\ \/ /\ GoTo(t, AfterDeclare(t, Missing(t)))
              /\ missing' = [missing EXCEPT ![t] = Missing(t)]
              /\ UNCHANGED <<round, hashed, answers>>
           \/ Lost(t)
        /\ UNCHANGED server
     \/ Lost(t) /\ UNCHANGED server

-------------------------------------------------------------------------------
(* Content that was PUT in this round is not PUT again.                    *)
AlreadyPut(t, sha) == answers[t][sha] # None

(* One missing block, in the order of the answer: its bytes are read from  *)
(* the file again and sent, unless its sha was.                            *)
PutBlock(t) ==
  /\ pc[t] = "put" /\ missing[t] # {}
  /\ \E b \in missing[t] :
       LET sha == hashed[t][b[1]][b[2]] IN
       IF AlreadyPut(t, sha)
         THEN /\ missing' = [missing EXCEPT ![t] = @ \ {b}]
              /\ UNCHANGED <<pc, round, attempt, hashed, answers>>
         ELSE \/ /\ answers' = [answers EXCEPT
                                   ![t][sha] = tree[t][b[1]][b[2]]]
                 /\ missing' = [missing EXCEPT ![t] = @ \ {b}]
                 /\ GoTo(t, "put")
                 /\ UNCHANGED <<round, hashed>>
              \/ Lost(t)
  /\ UNCHANGED <<tree, force, server, edits>>

(* Round 2 declares the same blocks with the answers of their PUTs.        *)
NextRound(t) ==
  /\ pc[t] = "put" /\ missing[t] = {}
  /\ round' = [round EXCEPT ![t] = @ + 1]
  /\ GoTo(t, "declare")
  /\ UNCHANGED <<tree, force, hashed, missing, answers, server, edits>>

Step(t) == Hash(t) \/ VolumePutFiles2(t) \/ PutBlock(t) \/ NextRound(t)
Next == \E t \in Tasks : Step(t) \/ Edit(t) \/ ReadFails(t)
Spec == Init /\ [][Next]_vars
(* Every try of a request ends (keepalive, timeouts).                      *)
FairSpec == Spec /\ \A t \in Tasks : WF_vars(Step(t))

-------------------------------------------------------------------------------
(* Types of every variable.                                                *)
TypeOK ==
  /\ tree \in [Tasks -> Manifests]
  /\ force \in [Tasks -> BOOLEAN]
  /\ pc \in [Tasks -> {"hash", "declare", "put"} \cup Ended]
  /\ round \in [Tasks -> {0, 1}]
  /\ attempt \in [Tasks -> 1 .. MaxAttempts]
  /\ hashed \in [Tasks -> Manifests]
  /\ missing \in [Tasks -> Missings]
  /\ \A t \in Tasks : pc[t] = "put" => missing[t] \subseteq Blocks(hashed[t])
  /\ answers \in [Tasks -> [Contents -> Contents \cup {None}]]
  /\ volume \in [Files -> Seq(Contents) \cup {None}]
  /\ store \subseteq Contents
  /\ edits \in 0 .. MaxEdits
  /\ written \subseteq Tasks

(* A put that returns Ok was committed by the server under its own         *)
(* declaration: the summary is never returned on the strength of the PUTs  *)
(* alone (volume.rs:359-366).                                              *)
OkCommitted == \A t \in Tasks : pc[t] = "ok" => t \in written

(* Only a file that changed under the upload keeps it from converging: the *)
(* answer of one PUT stands for every block of that content, in every file *)
(* of the declaration (volume.rs:325-328, 368-373, 389-403).               *)
DivergesOnlyIfEdited == \A t \in Tasks : pc[t] = "diverged" => edits > 0

(* Without force nothing is replaced by something else, whichever uploader *)
(* comes second and however often its request is sent again.               *)
ReplacesOnlyByForce ==
  \A f \in Files : volume[f] # None /\ volume'[f] # volume[f] =>
     \E t \in Tasks : force[t] /\ volume' = hashed[t]

(* A put has not returned: it has two rounds and bounded tries.            *)
InFlight(t) == pc[t] \notin Ended
===============================================================================
