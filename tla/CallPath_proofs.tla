----------------------------- MODULE CallPath_proofs -----------------------------
(***************************************************************************)
(* Proofs about the upload of a source, the wait for an image and the      *)
(* requests that are planned (the parts "mount", "join" and "plan" of      *)
(* CallPath), and the parts of a call together with those that have a      *)
(* module of proofs of their own.                                          *)
(***************************************************************************)
EXTENDS Caches_proofs, Invoke_proofs, Answers_proofs, SequenceTheorems

-------------------------------------------------------------------------------
(* The upload: nothing that is wanted is forgotten, a task that is done    *)
(* has seen its content on the server, and a mount waits for all of them.  *)
Covered == phase = "upload" => \A c \in M!Wanted : c \in queue \/ step[c] # None
Confirmed == \A c \in Contents : step[c] \in {"done", "joined"} => c \in visible
AllThere == phase = "mount" => M!Wanted \subseteq visible
MountInv == M!TypeOK /\ Covered /\ Confirmed /\ AllThere /\ M!MountWhole

LEMMA MountStarts == M!Init => MountInv
<1> SUFFICES ASSUME M!Init PROVE MountInv
  OBVIOUS
<1>1. M!TypeOK
  BY MountConstants DEF M!Init, M!TypeOK, M!BoundsType
<1>2. Covered /\ AllThere /\ M!MountWhole
  BY DEF M!Init, Covered, AllThere, M!MountWhole
<1>3. Confirmed
  BY MountConstants DEF M!Init, Confirmed, M!NoStep
<1> QED
  BY <1>1, <1>2, <1>3 DEF MountInv

(* What a walk collected is wanted, and a mount of it has a known shape.   *)
LEMMA Walked ==
  ASSUME M!TypeOK
  PROVE  /\ M!Wanted \subseteq Contents
         /\ M!Descriptors \in {{l[i] : i \in DOMAIN l} : l \in FileLists}
BY MountConstants DEF M!TypeOK, M!Wanted, M!Descriptors, M!FileListsType

(* A task goes on, tries again or fails; it is done only if the server was *)
(* seen to have its content.                                               *)
LEMMA TaskWent ==
  ASSUME MountInv, NEW c \in Contents, phase = "upload",
         step[c] \in M!Requests,
         UNCHANGED <<files, phase, queue, mounts>>,
         visible' = visible, sent' \subseteq Contents,
         probes' \in [Contents -> 0 .. MaxProbes],
         \/ \E l \in M!Requests \cup {"done", "failed"} :
              M!Goes(c, l) /\ (l = "done" => c \in visible)
         \/ M!Lost(c)
  PROVE  MountInv'
<1> USE MountConstants
<1>0. M!TypeOK /\ Covered /\ Confirmed /\ M!MountWhole
  BY DEF MountInv
<1>1. PICK l \in M!Requests \cup {"done", "failed"} :
        /\ step' = [step EXCEPT ![c] = l]
        /\ l = "done" => c \in visible
  <2>1. CASE \E l \in M!Requests \cup {"done", "failed"} :
               M!Goes(c, l) /\ (l = "done" => c \in visible)
    BY <2>1 DEF M!Goes
  <2>2. CASE M!Goes(c, "failed")
    <3>1. step' = [step EXCEPT ![c] = "failed"] /\ "failed" # "done"
      BY <2>2 DEF M!Goes
    <3>2. "failed" \in M!Requests \cup {"done", "failed"}
      OBVIOUS
    <3> QED
      BY <3>1, <3>2
  <2>3. CASE step' = step
    <3>1. step' = [step EXCEPT ![c] = step[c]]
      BY <1>0, <2>3 DEF M!TypeOK
    <3> QED
      BY <3>1 DEF M!Requests
  <2> QED
    BY <2>1, <2>2, <2>3 DEF M!Lost
<1>2. tries' \in [Contents -> 1 .. MaxAttempts]
  BY <1>0 DEF M!Goes, M!Lost, M!TypeOK, M!BoundsType
<1>3. /\ step' \in [Contents -> M!Requests \cup {None, "done", "failed", "joined"}]
      /\ step'[c] = l /\ \A d \in Contents \ {c} : step'[d] = step[d]
  BY <1>0, <1>1 DEF M!TypeOK
<1>4. M!TypeOK'
  BY <1>0, <1>2, <1>3 DEF M!TypeOK
<1>5. M!Wanted' = M!Wanted /\ M!Descriptors' = M!Descriptors /\ M!Wanted \subseteq Contents
  BY <1>0, Walked DEF M!Wanted, M!Descriptors
<1>6. Covered'
  <2>1. l # None
    BY DEF M!NoStep
  <2> QED
    BY <1>0, <1>3, <1>5, <2>1 DEF Covered
<1>7. Confirmed'
  BY <1>0, <1>1, <1>3 DEF Confirmed, M!Requests
<1>8. AllThere' /\ M!MountWhole'
  BY <1>0, <1>5 DEF AllThere, M!MountWhole
<1> QED
  BY <1>4, <1>6, <1>7, <1>8 DEF MountInv

(* Every content is queued or started once.                                *)
LEMMA CollectStep == MountInv /\ M!Collect => MountInv'
<1> SUFFICES ASSUME MountInv, M!Collect PROVE MountInv'
  OBVIOUS
<1> USE MountConstants
<1>0. M!TypeOK /\ Covered /\ Confirmed /\ M!MountWhole
  BY DEF MountInv
<1>1. /\ phase = "collect"
      /\ UNCHANGED <<files, tries, probes, sent, visible, mounts>>
  BY DEF M!Collect, M!server
<1>2. M!Wanted' = M!Wanted /\ M!Descriptors' = M!Descriptors /\ M!Wanted \subseteq Contents
  BY <1>0, <1>1, Walked DEF M!Wanted, M!Descriptors
<1>3. M!MountWhole'
  BY <1>0, <1>1, <1>2 DEF M!MountWhole
<1>4. CASE phase' \in {"empty", "duplicate"} /\ UNCHANGED <<queue, step>>
  <2>1. M!TypeOK'
    BY <1>0, <1>1, <1>4 DEF M!TypeOK, M!Ended
  <2>2. Covered' /\ AllThere' /\ Confirmed'
    BY <1>0, <1>1, <1>4 DEF Covered, AllThere, Confirmed
  <2> QED
    BY <1>3, <2>1, <2>2 DEF MountInv
<1>5. ASSUME NEW first \in SUBSET M!Wanted, phase' = "upload",
             step' = [c \in Contents |-> IF c \in first THEN "probe" ELSE None],
             queue' = M!Wanted \ first
      PROVE  MountInv'
  <2>1. M!TypeOK'
    BY <1>0, <1>1, <1>2, <1>5 DEF M!TypeOK, M!Requests
  <2>2. Covered'
    BY <1>2, <1>5 DEF Covered, M!NoStep, M!Requests
  <2>3. AllThere' /\ Confirmed'
    BY <1>5 DEF AllThere, Confirmed, M!NoStep
  <2> QED
    BY <1>3, <2>1, <2>2, <2>3 DEF MountInv
<1>6. \/ phase' \in {"empty", "duplicate"} /\ UNCHANGED <<queue, step>>
      \/ \E first \in SUBSET M!Wanted :
           /\ phase' = "upload"
           /\ step' = [c \in Contents |-> IF c \in first THEN "probe" ELSE None]
           /\ queue' = M!Wanted \ first
  <2> DEFINE started == {c \in M!Wanted : M!Cardinality(M!Before(c)) < Width}
  <2>1. CASE files = <<>>
    BY <2>1 DEF M!Collect
  <2>2. CASE files # <<>> /\ M!Cardinality(M!Paths) < Len(files)
    BY <2>2 DEF M!Collect
  <2>3. CASE ~(files = <<>>) /\ ~(M!Cardinality(M!Paths) < Len(files))
    <3>1. /\ phase' = "upload"
          /\ step' = [c \in Contents |-> IF c \in started THEN "probe" ELSE None]
          /\ queue' = M!Wanted \ started
      BY <2>3 DEF M!Collect
    <3> QED
      BY <3>1
  <2> QED
    BY <2>1, <2>2, <2>3
<1> QED
  BY <1>4, <1>5, <1>6

(* A task is joined: the next is started, or the last one makes the mount  *)
(* possible.                                                               *)
LEMMA JoinTaskStep == ASSUME MountInv, NEW c \in Contents, M!Join(c) PROVE MountInv'
<1> USE MountConstants
<1>0. M!TypeOK /\ Covered /\ Confirmed /\ M!MountWhole
  BY DEF MountInv
<1>1. /\ phase = "upload" /\ step[c] = "done"
      /\ UNCHANGED <<files, tries, probes, sent, visible, mounts>>
  BY DEF M!Join, M!server
<1>2. M!Wanted' = M!Wanted /\ M!Descriptors' = M!Descriptors /\ M!Wanted \subseteq Contents
  BY <1>0, <1>1, Walked DEF M!Wanted, M!Descriptors
<1>3. M!MountWhole'
  BY <1>0, <1>1, <1>2 DEF M!MountWhole
<1>4. c \in visible
  BY <1>0, <1>1 DEF Confirmed
<1>5. CASE queue = {}
  <2>1. /\ step' = [step EXCEPT ![c] = "joined"] /\ queue' = queue
        /\ phase' = IF M!Running = {c} THEN "mount" ELSE phase
    BY <1>5 DEF M!Join
  <2>2. /\ step' \in [Contents -> M!Requests \cup {None, "done", "failed", "joined"}]
        /\ step'[c] = "joined" /\ \A d \in Contents \ {c} : step'[d] = step[d]
    BY <1>0, <2>1 DEF M!TypeOK
  <2>3. M!TypeOK'
    BY <1>0, <1>1, <2>1, <2>2 DEF M!TypeOK
  <2>4. Covered'
    BY <1>0, <1>1, <1>2, <2>1, <2>2 DEF Covered, M!NoStep
  <2>5. Confirmed'
    BY <1>0, <1>1, <1>4, <2>2 DEF Confirmed
  <2>6. AllThere'
    <3> SUFFICES ASSUME M!Running = {c}, NEW d \in M!Wanted PROVE d \in visible
      BY <1>1, <1>2, <2>1 DEF AllThere
    <3>1. d = c \/ step[d] \in {None, "joined"}
      BY <1>2 DEF M!Running
    <3>2. step[d] # None
      BY <1>0, <1>1, <1>5 DEF Covered
    <3> QED
      BY <1>0, <1>2, <1>4, <3>1, <3>2 DEF Confirmed
  <2> QED
    BY <1>3, <2>3, <2>4, <2>5, <2>6 DEF MountInv
<1>6. CASE queue # {}
  <2>1. PICK d \in queue : /\ step' = [step EXCEPT ![c] = "joined", ![d] = "probe"]
                           /\ queue' = queue \ {d}
                           /\ phase' = phase
    BY <1>6 DEF M!Join
  <2>2. d \in Contents
    BY <1>0 DEF M!TypeOK
  <2>3. /\ step' \in [Contents -> M!Requests \cup {None, "done", "failed", "joined"}]
        /\ step'[d] = "probe" /\ step'[c] \in {"joined", "probe"}
        /\ \A e \in Contents \ {c, d} : step'[e] = step[e]
    BY <1>0, <2>1, <2>2 DEF M!TypeOK, M!Requests
  <2>4. M!TypeOK'
    BY <1>0, <1>1, <2>1, <2>3 DEF M!TypeOK
  <2>5. Covered'
    <3>1. "joined" # None /\ "probe" # None
      BY DEF M!NoStep, M!Requests
    <3> QED
      BY <1>0, <1>1, <1>2, <2>1, <2>3, <3>1 DEF Covered
  <2>6. Confirmed'
    BY <1>0, <1>1, <1>4, <2>3 DEF Confirmed
  <2>7. AllThere'
    BY <1>1, <2>1 DEF AllThere
  <2> QED
    BY <1>3, <2>4, <2>5, <2>6, <2>7 DEF MountInv
<1> QED
  BY <1>5, <1>6

(* Every step of an upload keeps the invariant.                            *)
LEMMA MountStep == MountInv /\ [M!Next]_M!vars => MountInv'
<1> SUFFICES ASSUME MountInv, [M!Next]_M!vars PROVE MountInv'
  OBVIOUS
<1> USE MountConstants
<1>0. M!TypeOK /\ Covered /\ Confirmed /\ AllThere /\ M!MountWhole
  BY DEF MountInv
<1>t. sent \subseteq Contents /\ probes \in [Contents -> 0 .. MaxProbes]
  BY <1>0 DEF M!TypeOK
<1>1. CASE UNCHANGED M!vars
  <2> USE <1>1 DEF M!vars, M!uploads, M!server
  <2>1. M!TypeOK'
    BY <1>0 DEF M!TypeOK
  <2>2. Covered' /\ Confirmed' /\ AllThere' /\ M!MountWhole'
    BY <1>0 DEF Covered, Confirmed, AllThere, M!MountWhole, M!Wanted, M!Descriptors
  <2> QED
    BY <2>1, <2>2 DEF MountInv
<1>2. CASE M!CreateMount
  <2>1. /\ phase = "mount" /\ phase' \in {"ok", "error"}
        /\ mounts' \in {mounts, mounts \cup {M!Descriptors}}
        /\ UNCHANGED <<files, queue, step, tries, probes, sent, visible>>
    BY <1>2 DEF M!CreateMount, M!uploads
  <2>2. M!TypeOK'
    BY <1>0, <2>1, Walked DEF M!TypeOK, M!Ended
  <2>3. Covered' /\ Confirmed' /\ AllThere'
    BY <1>0, <2>1 DEF Covered, Confirmed, AllThere
  <2>4. \A f \in M!Descriptors : f.content \in visible
    BY <1>0, <2>1 DEF AllThere, M!Wanted, M!Descriptors
  <2>5. M!MountWhole'
    <3>1. M!Descriptors' = M!Descriptors
      BY <2>1 DEF M!Descriptors
    <3> QED
      BY <1>0, <2>1, <2>4, <3>1 DEF M!MountWhole
  <2> QED
    BY <2>2, <2>3, <2>5 DEF MountInv
<1>3. ASSUME NEW c \in Contents, M!Appear(c) PROVE MountInv'
  <2>1. /\ visible' = visible \cup {c}
        /\ UNCHANGED <<files, phase, queue, step, tries, probes, sent, mounts>>
    BY <1>3 DEF M!Appear, M!uploads
  <2>2. M!TypeOK'
    BY <1>0, <2>1 DEF M!TypeOK
  <2>3. Covered' /\ Confirmed' /\ AllThere' /\ M!MountWhole'
    BY <1>0, <2>1
       DEF Covered, Confirmed, AllThere, M!MountWhole, M!Wanted, M!Descriptors
  <2> QED
    BY <2>2, <2>3 DEF MountInv
<1>4. ASSUME NEW c \in Contents, M!JoinFailed(c) PROVE MountInv'
  <2>1. /\ phase' = "error" /\ queue' = {} /\ step' = [d \in Contents |-> None]
        /\ UNCHANGED <<files, tries, probes, sent, visible, mounts>>
    BY <1>4 DEF M!JoinFailed, M!server
  <2>2. M!TypeOK'
    BY <1>0, <2>1 DEF M!TypeOK, M!Ended
  <2>3. Covered' /\ AllThere' /\ M!MountWhole'
    BY <1>0, <2>1 DEF Covered, AllThere, M!MountWhole, M!Descriptors
  <2>4. Confirmed'
    BY <2>1 DEF Confirmed, M!NoStep
  <2> QED
    BY <2>2, <2>3, <2>4 DEF MountInv
<1> DEFINE Later(c) == \/ \E l \in M!Requests \cup {"done", "failed"} :
                            M!Goes(c, l) /\ (l = "done" => c \in visible)
                       \/ M!Lost(c)
<1>5. ASSUME NEW c \in Contents, NEW label \in M!Requests, M!At(c, label),
             visible' = visible, sent' \subseteq Contents,
             probes' \in [Contents -> 0 .. MaxProbes], Later(c)
      PROVE  MountInv'
  <2>1. phase = "upload" /\ step[c] = label /\ UNCHANGED <<files, phase, queue, mounts>>
    BY <1>5 DEF M!At
  <2> QED
    BY <1>5, <2>1, TaskWent
<1>6. ASSUME NEW c \in Contents, M!Probe(c) PROVE MountInv'
  <2>1. Later(c)
    BY <1>6 DEF M!Probe, M!Requests
  <2>2. /\ M!At(c, "probe") /\ visible' = visible /\ sent' \subseteq Contents
        /\ probes' \in [Contents -> 0 .. MaxProbes]
    BY <1>t, <1>6 DEF M!Probe
  <2> HIDE DEF Later
  <2> QED
    BY <1>5, <2>1, <2>2 DEF M!Requests
<1>7. ASSUME NEW c \in Contents, M!BlobCreate(c) PROVE MountInv'
  <2>1. Later(c)
    BY <1>7 DEF M!BlobCreate, M!Requests
  <2>2. /\ M!At(c, "blob") /\ visible' = visible /\ sent' \subseteq Contents
        /\ probes' \in [Contents -> 0 .. MaxProbes]
    BY <1>t, <1>7 DEF M!BlobCreate
  <2> HIDE DEF Later
  <2> QED
    BY <1>5, <2>1, <2>2 DEF M!Requests
<1>8. ASSUME NEW c \in Contents, M!PutObject(c) PROVE MountInv'
  <2>1. Later(c)
    BY <1>8 DEF M!PutObject, M!Requests
  <2>2. /\ M!At(c, "object") /\ visible' = visible /\ sent' \subseteq Contents
        /\ probes' \in [Contents -> 0 .. MaxProbes]
    BY <1>t, <1>8 DEF M!PutObject
  <2> HIDE DEF Later
  <2> QED
    BY <1>5, <2>1, <2>2 DEF M!Requests
<1>9. ASSUME NEW c \in Contents, M!PutFile(c) PROVE MountInv'
  <2>1. Later(c)
    BY <1>9 DEF M!PutFile, M!Requests
  <2>2. /\ M!At(c, "upload") /\ visible' = visible /\ sent' \subseteq Contents
        /\ probes' \in [Contents -> 0 .. MaxProbes]
    BY <1>t, <1>9 DEF M!PutFile
  <2> HIDE DEF Later
  <2> QED
    BY <1>5, <2>1, <2>2 DEF M!Requests
<1>10. ASSUME NEW c \in Contents, M!Confirm(c) PROVE MountInv'
  <2>1. Later(c)
    BY <1>10 DEF M!Confirm, M!Requests
  <2>2. probes' \in [Contents -> 0 .. MaxProbes]
    BY <1>t, <1>10 DEF M!Confirm, M!BoundsType
  <2>3. M!At(c, "confirm") /\ visible' = visible /\ sent' \subseteq Contents
    BY <1>t, <1>10 DEF M!Confirm
  <2> HIDE DEF Later
  <2> QED
    BY <1>5, <2>1, <2>2, <2>3 DEF M!Requests
<1> HIDE DEF Later
<1> QED
  BY <1>1, <1>2, <1>3, <1>4, <1>6, <1>7, <1>8, <1>9, <1>10, CollectStep, JoinTaskStep
     DEF M!Next, M!TaskStep

-------------------------------------------------------------------------------
(* The wait: what was printed is a prefix of the log, the cursor and the   *)
(* window are inside it, and an entry with an id that was printed is not   *)
(* after the cursor, from which a window resumes.                          *)
Printed(m) == /\ J!Range(shown) = 1 .. m
              /\ m <= Len(entries) /\ cursor <= m
              /\ pc = "window" => cursor <= at /\ at <= m
Resumed == \A i \in DOMAIN shown : entries[shown[i]] => shown[i] <= cursor
OnceEach == \A i, j \in DOMAIN shown :
              i < j /\ shown[i] = shown[j] => ~entries[shown[i]]
JoinInv == /\ J!TypeOK /\ J!ReportedAsEnded
           /\ \E m \in Nat : Printed(m)
           /\ Resumed /\ OnceEach

LEMMA JoinStarts == J!Init => JoinInv
<1> SUFFICES ASSUME J!Init PROVE JoinInv
  OBVIOUS
<1> USE JoinConstants DEF J!BoundsType
<1>1. /\ pc = "create" /\ attempt = 1 /\ expired = FALSE /\ cursor = 0 /\ at = 0
      /\ shown = <<>> /\ entries = <<>> /\ result \in {"pending", "success", "failure"}
  BY DEF J!Init
<1>2. expired \in BOOLEAN
  BY <1>1
<1>3. /\ pc \in {"create", "poll", "window"} \cup J!Ended /\ attempt \in 1 .. MaxAttempts
      /\ cursor \in 0 .. Len(entries) /\ at \in 0 .. Len(entries)
      /\ shown \in Seq(1 .. MaxEntries)
  BY <1>1
<1>4. entries \in Seq(BOOLEAN) /\ Len(entries) <= MaxEntries
  BY <1>1
<1>5. J!TypeOK
  BY <1>1, <1>2, <1>3, <1>4 DEF J!TypeOK
<1>6. J!ReportedAsEnded /\ Resumed /\ OnceEach
  BY <1>1 DEF J!ReportedAsEnded, Resumed, OnceEach
<1>7. Printed(0)
  BY <1>1 DEF Printed, J!Range
<1> QED
  BY <1>5, <1>6, <1>7 DEF JoinInv

(* An item is the next entry of its window: new, or seen before without an *)
(* id.                                                                     *)
LEMMA ItemStep == JoinInv /\ J!Item => JoinInv'
<1> SUFFICES ASSUME JoinInv, J!Item PROVE JoinInv'
  OBVIOUS
<1> USE JoinConstants DEF J!BoundsType
<1>0. J!TypeOK /\ J!ReportedAsEnded /\ Resumed /\ OnceEach
  BY DEF JoinInv
<1>1. PICK m \in Nat : Printed(m)
  BY DEF JoinInv
<1> DEFINE k == at + 1
<1>2. /\ pc = "window" /\ at < Len(entries) /\ at' = k
      /\ shown' = Append(shown, k)
      /\ cursor' = (IF entries[k] THEN k ELSE cursor)
      /\ UNCHANGED <<pc, attempt, expired, entries, result>>
  BY DEF J!Item, J!Advance, J!server
<1>3. /\ at \in 0 .. Len(entries) /\ cursor \in 0 .. Len(entries)
      /\ Len(entries) \in Nat /\ Len(entries) <= MaxEntries
      /\ shown \in Seq(1 .. MaxEntries)
  BY <1>0 DEF J!TypeOK
<1>4. /\ k \in Nat /\ k \in 1 .. Len(entries) /\ k \in 1 .. MaxEntries
      /\ cursor < k /\ k <= m + 1 /\ m <= Len(entries)
  BY <1>1, <1>2, <1>3 DEF Printed
<1>5. k = at + 1
  OBVIOUS
<1> HIDE DEF k
<1>6. /\ shown' \in Seq(1 .. MaxEntries)
      /\ Len(shown) \in Nat
      /\ DOMAIN shown = 1 .. Len(shown)
      /\ DOMAIN shown' = 1 .. Len(shown) + 1
      /\ shown'[Len(shown) + 1] = k
      /\ \A i \in DOMAIN shown : shown'[i] = shown[i]
  BY <1>2, <1>3, <1>4
<1>7. \A i \in DOMAIN shown' : i \in DOMAIN shown \/ i = Len(shown) + 1
  BY <1>6
<1>8. \A i \in DOMAIN shown : shown[i] \in Nat
  BY <1>3
<1>9. J!TypeOK'
  <2>1. cursor' \in 0 .. Len(entries') /\ at' \in 0 .. Len(entries')
    BY <1>2, <1>3, <1>4
  <2> QED
    BY <1>0, <1>2, <1>6, <2>1 DEF J!TypeOK
<1>10. J!ReportedAsEnded'
  BY <1>2 DEF J!ReportedAsEnded
<1>11. \E n \in Nat : Printed(n)'
  <2>1. PICK n \in Nat : /\ 1 .. n = (1 .. m) \cup {k}
                         /\ n <= Len(entries) /\ k <= n
    <3> DEFINE longer == IF k <= m THEN m ELSE k
    <3>1. longer \in Nat /\ 1 .. longer = (1 .. m) \cup {k}
          /\ longer <= Len(entries) /\ k <= longer
      BY <1>4
    <3> HIDE DEF longer
    <3> QED
      BY <3>1
  <2>2. J!Range(shown)' = J!Range(shown) \cup {k}
    <3>1. \A i \in DOMAIN shown : i \in DOMAIN shown'
      BY <1>6
    <3>2. Len(shown) + 1 \in DOMAIN shown'
      BY <1>6
    <3> QED
      BY <1>6, <1>7, <3>1, <3>2 DEF J!Range
  <2>3. J!Range(shown)' = 1 .. n
    BY <1>1, <2>1, <2>2 DEF Printed
  <2>4. cursor' <= n /\ cursor' <= at' /\ at' <= n
    BY <1>2, <1>3, <1>4, <2>1
  <2>5. Printed(n)'
    BY <1>2, <2>1, <2>3, <2>4 DEF Printed
  <2> QED
    BY <2>1, <2>5
<1>12. Resumed'
  <2> SUFFICES ASSUME NEW i \in DOMAIN shown', entries[shown'[i]]
               PROVE  shown'[i] <= cursor'
    BY <1>2 DEF Resumed
  <2>1. CASE i = Len(shown) + 1
    BY <1>2, <1>4, <1>6, <2>1
  <2>2. CASE i \in DOMAIN shown
    <3>1. shown[i] <= cursor /\ cursor <= cursor' /\ shown[i] \in Nat
      BY <1>0, <1>2, <1>3, <1>4, <1>6, <1>8, <2>2 DEF Resumed
    <3>2. cursor \in Nat /\ cursor' \in Nat
      BY <1>2, <1>3, <1>4
    <3> QED
      BY <1>6, <2>2, <3>1, <3>2
  <2> QED
    BY <1>7, <2>1, <2>2
<1>13. OnceEach'
  <2> SUFFICES ASSUME NEW i \in DOMAIN shown', NEW j \in DOMAIN shown',
                      i < j, shown'[i] = shown'[j]
               PROVE  ~entries[shown'[i]]
    BY <1>2 DEF OnceEach
  <2>1. i \in DOMAIN shown
    BY <1>6
  <2>2. CASE j \in DOMAIN shown
    BY <1>0, <1>6, <2>1, <2>2 DEF OnceEach
  <2>3. CASE j = Len(shown) + 1
    <3>1. shown[i] = k
      BY <1>6, <2>1, <2>3
    <3>2. ~(k <= cursor)
      BY <1>3, <1>4
    <3> QED
      BY <1>0, <1>6, <2>1, <3>1, <3>2 DEF Resumed
  <2> QED
    BY <1>7, <2>2, <2>3
<1> QED
  BY <1>9, <1>10, <1>11, <1>12, <1>13 DEF JoinInv

(* The log grows: what was printed stays where it is.                      *)
LEMMA LogStep == JoinInv /\ J!Log => JoinInv'
<1> SUFFICES ASSUME JoinInv, J!Log PROVE JoinInv'
  OBVIOUS
<1> USE JoinConstants DEF J!BoundsType
<1>0. J!TypeOK /\ J!ReportedAsEnded /\ Resumed /\ OnceEach
  BY DEF JoinInv
<1>1. PICK m \in Nat : Printed(m)
  BY DEF JoinInv
<1>2. PICK id \in BOOLEAN : entries' = Append(entries, id)
  BY DEF J!Log
<1>3. /\ Len(entries) < MaxEntries
      /\ UNCHANGED <<pc, attempt, expired, cursor, at, shown, result>>
  BY DEF J!Log, J!client
<1>4. entries \in Seq(BOOLEAN) /\ Len(entries) \in Nat
  BY <1>0 DEF J!TypeOK
<1>5. /\ entries' \in Seq(BOOLEAN) /\ Len(entries') = Len(entries) + 1
      /\ \A p \in 1 .. Len(entries) : entries'[p] = entries[p]
  BY <1>2, <1>4
<1>6. J!TypeOK'
  <2>1. cursor' \in 0 .. Len(entries') /\ at' \in 0 .. Len(entries') /\ Len(entries') <= MaxEntries
    BY <1>0, <1>3, <1>4, <1>5 DEF J!TypeOK
  <2> QED
    BY <1>0, <1>3, <1>5, <2>1 DEF J!TypeOK
<1>7. \A i \in DOMAIN shown : entries'[shown[i]] = entries[shown[i]]
  <2> SUFFICES ASSUME NEW i \in DOMAIN shown PROVE shown[i] \in 1 .. Len(entries)
    BY <1>5
  <2>1. shown[i] \in 1 .. m /\ m <= Len(entries)
    BY <1>1 DEF Printed, J!Range
  <2> QED
    BY <1>4, <2>1
<1>8. J!ReportedAsEnded'
  BY <1>0, <1>3 DEF J!ReportedAsEnded
<1>9. Resumed' /\ OnceEach'
  BY <1>0, <1>3, <1>7 DEF Resumed, OnceEach
<1>10. Printed(m)'
  <2>1. J!Range(shown)' = J!Range(shown)
    BY <1>3 DEF J!Range
  <2>2. m <= Len(entries')
    BY <1>1, <1>4, <1>5 DEF Printed
  <2> QED
    BY <1>1, <1>3, <2>1, <2>2 DEF Printed
<1> QED
  BY <1>6, <1>8, <1>9, <1>10 DEF JoinInv

(* A step that prints nothing: a window opens at the cursor, ends, or the  *)
(* wait does, as the build did.                                            *)
LEMMA QuietStep ==
  ASSUME JoinInv, UNCHANGED <<cursor, shown, entries>>,
         pc' \in {"create", "poll", "window"} \cup J!Ended,
         attempt' \in 1 .. MaxAttempts, expired' \in BOOLEAN,
         at' \in {at, cursor},
         pc' = "window" => at' = cursor \/ (pc = "window" /\ at' = at),
         result' \in {"pending", "success", "failure"},
         result' = result \/ result = "pending",
         pc' = "built" => (pc = "built" \/ result = "success") /\ result' = result,
         pc' = "failed" => (pc = "failed" \/ result = "failure") /\ result' = result
  PROVE  JoinInv'
<1> USE JoinConstants DEF J!BoundsType
<1>0. J!TypeOK /\ J!ReportedAsEnded /\ Resumed /\ OnceEach
  BY DEF JoinInv
<1>1. PICK m \in Nat : Printed(m)
  BY DEF JoinInv
<1>2. cursor \in 0 .. Len(entries) /\ at \in 0 .. Len(entries)
  BY <1>0 DEF J!TypeOK
<1>3. J!TypeOK'
  BY <1>0, <1>2 DEF J!TypeOK
<1>4. J!ReportedAsEnded'
  BY <1>0 DEF J!ReportedAsEnded
<1>5. Resumed' /\ OnceEach'
  BY <1>0 DEF Resumed, OnceEach
<1>6. Printed(m)'
  <2>1. J!Range(shown)' = J!Range(shown)
    BY DEF J!Range
  <2>2. pc' = "window" => cursor <= at' /\ at' <= m
    BY <1>1, <1>2 DEF Printed
  <2> QED
    BY <1>1, <2>1, <2>2 DEF Printed
<1> QED
  BY <1>3, <1>4, <1>5, <1>6 DEF JoinInv

(* Every step of a wait, and of the build, keeps the invariant.            *)
LEMMA JoinStep == JoinInv /\ [J!Next]_J!vars => JoinInv'
<1> SUFFICES ASSUME JoinInv, [J!Next]_J!vars PROVE JoinInv'
  OBVIOUS
<1>0. J!TypeOK /\ J!ReportedAsEnded
  BY DEF JoinInv
<1>t. /\ pc \in {"create", "poll", "window"} \cup J!Ended /\ attempt \in 1 .. MaxAttempts
      /\ expired \in BOOLEAN /\ result \in {"pending", "success", "failure"}
  BY <1>0 DEF J!TypeOK
<1> USE DEF J!server, J!client
<1>1. CASE UNCHANGED J!vars
  BY <1>t, <1>0, <1>1, QuietStep DEF J!vars, J!ReportedAsEnded
<1>2. CASE J!ImageGetOrCreate
  <2>1. /\ UNCHANGED <<expired, cursor, at, shown, entries, result>> /\ pc = "create"
        /\ attempt' \in 1 .. MaxAttempts
        /\ pc' \in {"create", "poll", "built", "failed", "error"}
        /\ pc' = "built" => result = "success"
        /\ pc' = "failed" => result = "failure"
    BY <1>t, <1>2, JoinConstants DEF J!ImageGetOrCreate, J!AfterResult, J!BoundsType
  <2> QED
    BY <1>t, <2>1, QuietStep DEF J!Ended
<1>3. CASE J!OpenWindow
  BY <1>t, <1>3, QuietStep DEF J!OpenWindow, J!Ended
<1>4. CASE J!Deadline
  BY <1>t, <1>4, QuietStep DEF J!Deadline, J!Ended
<1>5. CASE J!Terminal
  <2>1. /\ UNCHANGED <<attempt, expired, cursor, at, shown, entries, result>>
        /\ pc' \in {"built", "failed", "poll"}
        /\ pc' = "built" => result = "success"
        /\ pc' = "failed" => result = "failure"
    BY <1>t, <1>5 DEF J!Terminal, J!AfterResult
  <2> QED
    BY <1>t, <2>1, QuietStep DEF J!Ended
<1>6. CASE J!WindowEnds
  BY <1>t, <1>6, QuietStep DEF J!WindowEnds, J!Ended
<1>7. CASE J!Elapse
  <2>1. /\ UNCHANGED <<pc, attempt, cursor, at, shown, entries, result>>
        /\ pc \in {"poll", "window"} /\ expired' \in BOOLEAN
    BY <1>7 DEF J!Elapse
  <2> QED
    BY <1>t, <2>1, QuietStep DEF J!Ended
<1>8. CASE J!Finish
  <2>1. /\ UNCHANGED <<pc, attempt, expired, cursor, at, shown, entries>>
        /\ result = "pending" /\ result' \in {"pending", "success", "failure"}
        /\ pc \notin {"built", "failed"}
    BY <1>0, <1>8 DEF J!Finish, J!ReportedAsEnded
  <2> QED
    BY <1>t, <2>1, QuietStep DEF J!Ended
<1> QED
  BY <1>1, <1>2, <1>3, <1>4, <1>5, <1>6, <1>7, <1>8, ItemStep, LogStep
     DEF J!Next, J!ClientStep

(* What was printed has no gap, and no entry with an id twice.             *)
LEMMA JoinPromises == JoinInv => J!TypeOK /\ J!ReportedAsEnded /\ J!LogsWhole
<1> SUFFICES ASSUME JoinInv PROVE J!LogsWhole
  BY DEF JoinInv
<1>1. PICK m \in Nat : J!Range(shown) = 1 .. m
  BY DEF JoinInv, Printed
<1>2. shown \in Seq(1 .. MaxEntries)
  BY DEF JoinInv, J!TypeOK
<1>3. CASE shown = <<>>
  <2>1. J!Range(shown) = {}
    BY <1>3 DEF J!Range
  <2> QED
    BY <1>3, <2>1 DEF J!LogsWhole, JoinInv, OnceEach
<1>4. CASE shown # <<>>
  <2>1. m >= 1
    <3>1. 1 \in DOMAIN shown
      BY <1>2, <1>4
    <3>2. shown[1] \in 1 .. m
      BY <1>1, <3>1 DEF J!Range
    <3> QED
      BY <3>2
  <2>2. J!Max(1 .. m) = m
    <3>1. m \in 1 .. m /\ \A y \in 1 .. m : m >= y
      BY <2>1
    <3>2. J!Max(1 .. m) \in 1 .. m /\ \A y \in 1 .. m : J!Max(1 .. m) >= y
      BY <3>1 DEF J!Max
    <3> QED
      BY <3>1, <3>2
  <2> QED
    BY <1>1, <1>4, <2>2 DEF J!LogsWhole, JoinInv, OnceEach
<1> QED
  BY <1>3, <1>4

-------------------------------------------------------------------------------
(* What is sent (part "plan"): a dry run and a deploy make the same        *)
(* inputs, and provision does the same with them; what a dry run of a call *)
(* notes down has one request more, at its head, since the call found its  *)
(* app from connect. That is so however many requests there are: appending *)
(* to both keeps it so (Led), and so does stopping at the first failure.   *)
Sequence(s) == \E S : s \in Seq(S)

LEMMA IsSequence ==
  ASSUME NEW s, B!IsSeq(s)
  PROVE  Sequence(s)
<1>1. PICK n \in Nat : s = [i \in 1 .. n |-> s[i]]
  BY DEF B!IsSeq
<1> DEFINE S == {s[i] : i \in 1 .. n}
<1>2. \A i \in 1 .. n : s[i] \in S
  OBVIOUS
<1> HIDE DEF S
<1>3. s \in [1 .. n -> S]
  BY <1>1, <1>2
<1>4. s \in Seq(S)
  BY <1>3
<1> QED
  BY <1>4 DEF Sequence

LEMMA Joins ==
  ASSUME NEW s, NEW t, Sequence(s), Sequence(t)
  PROVE  Sequence(s \o t)
<1>1. PICK S : s \in Seq(S)
  BY DEF Sequence
<1>2. PICK T : t \in Seq(T)
  BY DEF Sequence
<1>3. s \in Seq(S \cup T) /\ t \in Seq(S \cup T)
  BY <1>1, <1>2
<1>4. s \o t \in Seq(S \cup T)
  BY <1>3
<1> QED
  BY <1>4 DEF Sequence

LEMMA Singles ==
  /\ Sequence(<<>>)
  /\ \A do, arg : Sequence(B!Req(do, arg))
  /\ \A cond, s : Sequence(s) => Sequence(B!When(cond, s))
<1>1. Sequence(<<>>)
  <2>1. <<>> \in Seq({})
    OBVIOUS
  <2> QED
    BY <2>1 DEF Sequence
<1>2. ASSUME NEW do, NEW arg PROVE Sequence(B!Req(do, arg))
  <2>1. B!Req(do, arg) \in Seq({[do |-> do, arg |-> arg]})
    BY DEF B!Req
  <2> QED
    BY <2>1 DEF Sequence
<1>3. ASSUME NEW cond, NEW s, Sequence(s) PROVE Sequence(B!When(cond, s))
  BY <1>1, <1>3 DEF B!When
<1> QED
  BY <1>1, <1>2, <1>3

(* The function that flattens n sequences exists for every n, each from    *)
(* the one before it, and what it joins is a sequence.                     *)
Flattens(f, seqs, n) ==
  f = [i \in 1 .. n |-> IF i = 1 THEN seqs[i] ELSE f[i - 1] \o seqs[i]]

LEMMA Flattened ==
  ASSUME NEW seqs, NEW n \in Nat
  PROVE  \E f : Flattens(f, seqs, n)
<1> DEFINE Done(k) == \E f : Flattens(f, seqs, k)
           bad == {k \in Nat : ~Done(k)}
<1>1. Done(0)
  <2> DEFINE none == [i \in 1 .. 0 |-> <<>>]
             joined(i) == IF i = 1 THEN seqs[i] ELSE none[i - 1] \o seqs[i]
  <2>1. \A i \in 1 .. 0 : none[i] = joined(i)
    OBVIOUS
  <2>2. none = [i \in 1 .. 0 |-> joined(i)]
    <3> HIDE DEF joined
    <3> QED
      BY <2>1
  <2>3. Flattens(none, seqs, 0)
    <3> HIDE DEF none
    <3> QED
      BY <2>2 DEF Flattens
  <2> QED
    BY <2>3
<1>2. ASSUME NEW k \in Nat, Done(k) PROVE Done(k + 1)
  <2>1. PICK f : Flattens(f, seqs, k)
    BY <1>2
  <2> DEFINE next == [i \in 1 .. k + 1 |->
                        IF i = k + 1 THEN IF i = 1 THEN seqs[i] ELSE f[k] \o seqs[i]
                        ELSE f[i]]
             joined(i) == IF i = 1 THEN seqs[i] ELSE next[i - 1] \o seqs[i]
  <2>2. ASSUME NEW i \in 1 .. k + 1 PROVE next[i] = joined(i)
    <3>1. CASE i = k + 1
      <4>1. i # 1 => next[i - 1] = f[k]
        BY <3>1
      <4>2. next[i] = IF i = 1 THEN seqs[i] ELSE f[k] \o seqs[i]
        BY <3>1
      <4> HIDE DEF next
      <4> QED
        BY <4>1, <4>2
    <3>2. CASE i # k + 1
      <4>1. i \in 1 .. k /\ next[i] = f[i]
        BY <3>2
      <4>2. f[i] = IF i = 1 THEN seqs[i] ELSE f[i - 1] \o seqs[i]
        BY <2>1, <4>1 DEF Flattens
      <4>3. i # 1 => next[i - 1] = f[i - 1]
        BY <4>1
      <4> HIDE DEF next
      <4> QED
        BY <4>1, <4>2, <4>3
    <3> QED
      BY <3>1, <3>2
  <2>3. next = [i \in 1 .. k + 1 |-> joined(i)]
    <3> HIDE DEF joined
    <3> QED
      BY <2>2
  <2>4. Flattens(next, seqs, k + 1)
    <3> HIDE DEF next
    <3> QED
      BY <2>3 DEF Flattens
  <2> QED
    BY <2>4
<1>3. bad = {}
  <2> HIDE DEF Done
  <2> SUFFICES ASSUME bad # {} PROVE FALSE
    OBVIOUS
  <2>1. PICK m \in bad : \A k \in bad : m <= k
    BY LeastOf
  <2>2. m \in Nat \ {0} /\ ~Done(m)
    BY <1>1
  <2>3. m - 1 \in Nat /\ m - 1 \notin bad /\ m = (m - 1) + 1
    BY <2>1, <2>2
  <2> QED
    BY <1>2, <2>2, <2>3
<1> QED
  BY <1>3

LEMMA FlatSequence ==
  ASSUME NEW seqs, Sequence(seqs), \A i \in DOMAIN seqs : Sequence(seqs[i])
  PROVE  Sequence(B!FlattenSeq(seqs))
<1>1. CASE Len(seqs) = 0
  BY <1>1 DEF B!FlattenSeq
<1>2. CASE Len(seqs) # 0
  <2>1. PICK n \in Nat \ {0} : Len(seqs) = n /\ DOMAIN seqs = 1 .. n
    BY <1>2 DEF Sequence
  <2> DEFINE f == CHOOSE f : Flattens(f, seqs, n)
  <2>2. B!FlattenSeq(seqs) = f[n]
    BY <2>1 DEF B!FlattenSeq, Flattens
  <2>3. Flattens(f, seqs, n)
    BY Flattened
  <2> HIDE DEF f
  <2> DEFINE bad == {i \in 1 .. n : ~Sequence(f[i])}
  <2>4. bad = {}
    <3> SUFFICES ASSUME bad # {} PROVE FALSE
      OBVIOUS
    <3>0. bad \subseteq Nat
      OBVIOUS
    <3>1. PICK m \in bad : \A k \in bad : m <= k
      <4> HIDE DEF bad
      <4> QED
        BY <3>0, LeastOf
    <3>2. f[m] = IF m = 1 THEN seqs[m] ELSE f[m - 1] \o seqs[m]
      BY <2>3 DEF Flattens
    <3>3. Sequence(seqs[m])
      BY <2>1
    <3>4. m # 1 => Sequence(f[m - 1])
      BY <3>1
    <3>5. Sequence(f[m])
      BY <3>2, <3>3, <3>4, Joins
    <3> QED
      BY <3>5
  <2> QED
    BY <2>2, <2>4
<1> QED
  BY <1>1, <1>2

LEMMA MappedSequence ==
  ASSUME NEW s, Sequence(s), NEW f, DOMAIN f = DOMAIN s, f = [i \in DOMAIN s |-> f[i]]
  PROVE  Sequence(f)
<1>1. PICK n \in Nat : DOMAIN s = 1 .. n
  BY DEF Sequence
<1>2. f \in Seq({f[i] : i \in DOMAIN s})
  BY <1>1
<1> QED
  BY <1>2 DEF Sequence

LEMMA RequestsOf ==
  ASSUME NEW ep, B!IsOptions(ep), NEW caching
  PROVE  Sequence(B!Secrets(ep)) /\ Sequence(B!Volumes(ep, caching))
<1>1. Sequence(ep.secrets) /\ Sequence(ep.volumes)
  BY IsSequence DEF B!IsOptions
<1> DEFINE asked == [i \in DOMAIN ep.secrets |-> B!Req("Secret", <<ep.secrets[i], ep.keys>>)]
           mounted == [i \in DOMAIN ep.volumes |->
                         IF caching /\ ep.volumes[i][1] = "/cache" THEN B!Failure
                         ELSE B!Req("Volume", ep.volumes[i][2])]
<1>2. Sequence(asked) /\ \A i \in DOMAIN asked : Sequence(asked[i])
  <2>1. \A i \in DOMAIN asked : Sequence(asked[i])
    BY Singles
  <2>2. DOMAIN asked = DOMAIN ep.secrets /\ asked = [i \in DOMAIN ep.secrets |-> asked[i]]
    OBVIOUS
  <2> HIDE DEF asked
  <2> QED
    BY <1>1, <2>1, <2>2, MappedSequence
<1>3. Sequence(mounted) /\ \A i \in DOMAIN mounted : Sequence(mounted[i])
  <2>1. \A i \in DOMAIN mounted : Sequence(mounted[i])
    BY Singles DEF B!Failure
  <2>2. DOMAIN mounted = DOMAIN ep.volumes /\ mounted = [i \in DOMAIN ep.volumes |-> mounted[i]]
    OBVIOUS
  <2> HIDE DEF mounted
  <2> QED
    BY <1>1, <2>1, <2>2, MappedSequence
<1>4. B!Secrets(ep) = B!FlattenSeq(asked) \o B!When(ep.env # <<>>, B!Req("InlineSecret", ep.name))
  BY DEF B!Secrets
<1>5. B!Volumes(ep, caching) = B!FlattenSeq(mounted)
  BY DEF B!Volumes
<1> HIDE DEF asked, mounted
<1>6. Sequence(B!FlattenSeq(asked)) /\ Sequence(B!FlattenSeq(mounted))
  BY <1>2, <1>3, FlatSequence
<1>7. Sequence(B!When(ep.env # <<>>, B!Req("InlineSecret", ep.name)))
  BY Singles
<1> QED
  BY <1>4, <1>5, <1>6, <1>7, Joins

(* What is led by the request for the app stays so.                        *)
AppRequest == B!Req("AppCreate", None)
Led(s, t) == Sequence(s) /\ t = AppRequest \o s

LEMMA LedOn ==
  ASSUME NEW s, NEW t, NEW r, Led(s, t), Sequence(r)
  PROVE  Led(s \o r, t \o r)
<1>1. PICK S : s \in Seq(S)
  BY DEF Led, Sequence
<1>2. PICK R0 : r \in Seq(R0)
  BY DEF Sequence
<1>3. PICK A : AppRequest \in Seq(A)
  BY Singles DEF AppRequest, Sequence
<1> DEFINE U == S \cup R0 \cup A
<1>4. s \in Seq(U) /\ r \in Seq(U) /\ AppRequest \in Seq(U)
  BY <1>1, <1>2, <1>3
<1> HIDE DEF U
<1>5. (AppRequest \o s) \o r = AppRequest \o (s \o r)
  BY <1>4, ConcatAssociative
<1>6. Sequence(s \o r)
  BY Joins DEF Led
<1> QED
  BY <1>5, <1>6 DEF Led

(* Where the sequences end, and what they are up to there.                 *)
LEMMA LedAt ==
  ASSUME NEW s, NEW t, Led(s, t)
  PROVE  \E n \in Nat :
           /\ Len(s) = n /\ DOMAIN s = 1 .. n
           /\ Len(t) = n + 1 /\ DOMAIN t = 1 .. n + 1
           /\ t[1].do = "AppCreate"
           /\ \A i \in 1 .. n : t[i + 1] = s[i]
<1>1. PICK S : s \in Seq(S)
  BY DEF Led, Sequence
<1> DEFINE app == [do |-> "AppCreate", arg |-> None]
           n == Len(s)
<1>2. t = <<app>> \o s
  BY DEF Led, AppRequest, B!Req
<1> HIDE DEF app
<1>3. s \in Seq(S \cup {app}) /\ <<app>> \in Seq(S \cup {app}) /\ Len(<<app>>) = 1 /\ <<app>>[1] = app
  BY <1>1
<1>4. /\ Len(t) = 1 + n
      /\ \A i \in 1 .. 1 + n : t[i] = IF i <= 1 THEN <<app>>[i] ELSE s[i - 1]
      /\ t \in Seq(S \cup {app})
  BY <1>2, <1>3, ConcatProperties
<1>5. n \in Nat /\ DOMAIN s = 1 .. n /\ DOMAIN t = 1 .. n + 1
  BY <1>1, <1>4
<1>6. t[1] = app
  BY <1>3, <1>4, <1>5
<1>7. \A i \in 1 .. n : t[i + 1] = s[i]
  BY <1>4, <1>5
<1>8. t[1].do = "AppCreate"
  BY <1>6 DEF app
<1>9. Len(t) = n + 1
  BY <1>4, <1>5
<1> HIDE DEF n
<1>10. Len(s) = n
  BY DEF n
<1> QED
  BY <1>5, <1>7, <1>8, <1>9, <1>10

LEMMA FirstOf ==
  ASSUME NEW I0, I0 \subseteq Nat, NEW m \in I0, \A k \in I0 : m <= k
  PROVE  (CHOOSE i \in I0 : \A j \in I0 : i <= j) = m
<1>1. \A i \in I0 : (\A j \in I0 : i <= j) => i = m
  OBVIOUS
<1> QED
  BY <1>1

LEMMA LedToFailure ==
  ASSUME NEW s, NEW t, Led(s, t)
  PROVE  Led(B!UpToFailure(s), B!UpToFailure(t))
<1>1. PICK n \in Nat :
        /\ Len(s) = n /\ DOMAIN s = 1 .. n
        /\ Len(t) = n + 1 /\ DOMAIN t = 1 .. n + 1
        /\ t[1].do = "AppCreate"
        /\ \A i \in 1 .. n : t[i + 1] = s[i]
  BY LedAt
<1> DEFINE bad == {i \in DOMAIN s : s[i].do = "fails"}
           badT == {i \in DOMAIN t : t[i].do = "fails"}
<1>2. \A i \in 1 .. n + 1 : i \in badT <=> i - 1 \in bad
  <2>1. 1 \notin badT
    BY <1>1
  <2>2. ASSUME NEW i \in 1 .. n + 1, i # 1 PROVE i \in badT <=> i - 1 \in bad
    <3>1. i - 1 \in 1 .. n /\ t[(i - 1) + 1] = s[i - 1] /\ (i - 1) + 1 = i
      BY <1>1, <2>2
    <3> QED
      BY <1>1, <3>1
  <2>3. 0 \notin bad
    BY <1>1
  <2> QED
    BY <2>1, <2>2, <2>3
<1>3. CASE bad = {}
  <2>1. badT = {}
    BY <1>1, <1>2, <1>3
  <2> QED
    BY <1>3, <2>1 DEF B!UpToFailure
<1>4. CASE bad # {}
  <2>0. bad \subseteq 1 .. n /\ badT \subseteq 1 .. n + 1
    BY <1>1
  <2>1. PICK m \in bad : \A k \in bad : m <= k
    <3>1. bad \subseteq Nat
      BY <2>0
    <3> HIDE DEF bad
    <3> QED
      BY <1>4, <3>1, LeastOf
  <2>2. m \in 1 .. n /\ m + 1 \in badT /\ badT # {}
    <3>1. m \in 1 .. n /\ m + 1 \in 1 .. n + 1 /\ (m + 1) - 1 = m
      BY <2>0
    <3> HIDE DEF bad, badT
    <3> QED
      BY <1>2, <3>1
  <2>3. \A k \in badT : m + 1 <= k
    <3> SUFFICES ASSUME NEW k \in badT PROVE m + 1 <= k
      OBVIOUS
    <3>1. k \in 1 .. n + 1
      BY <2>0
    <3> HIDE DEF bad, badT
    <3>2. m <= k - 1
      BY <1>2, <2>1, <3>1
    <3> QED
      BY <2>2, <3>1, <3>2
  <2>4. B!UpToFailure(s) = SubSeq(s, 1, m)
    <3>1. bad \subseteq Nat
      BY <2>0
    <3>2. (CHOOSE i \in bad : \A j \in bad : i <= j) = m
      <4> HIDE DEF bad
      <4> QED
        BY <2>1, <3>1, FirstOf
    <3> QED
      BY <1>4, <3>2 DEF B!UpToFailure
  <2>5. B!UpToFailure(t) = SubSeq(t, 1, m + 1)
    <3>1. badT \subseteq Nat
      BY <2>0
    <3>2. (CHOOSE i \in badT : \A j \in badT : i <= j) = m + 1
      <4> HIDE DEF bad, badT
      <4> QED
        BY <2>2, <2>3, <3>1, FirstOf
    <3> QED
      BY <2>2, <3>2 DEF B!UpToFailure
  <2>6. PICK S : s \in Seq(S)
    BY DEF Led, Sequence
  <2>7. SubSeq(s, 1, m) \in Seq(S)
    BY <1>1, <2>2, <2>6
  <2>8. SubSeq(t, 1, m + 1) = AppRequest \o SubSeq(s, 1, m)
    <3> DEFINE app == [do |-> "AppCreate", arg |-> None]
    <3>1. t = <<app>> \o s /\ AppRequest = <<app>>
      BY DEF Led, AppRequest, B!Req
    <3> HIDE DEF app
    <3>2. <<app>> \in Seq(S \cup {app}) /\ s \in Seq(S \cup {app})
      BY <2>6
    <3> QED
      BY <1>1, <2>2, <2>6, <3>1
  <2> QED
    BY <2>4, <2>5, <2>7, <2>8 DEF Led, Sequence
<1> QED
  BY <1>3, <1>4

LEMMA LedFailsAlike ==
  ASSUME NEW s, NEW t, Led(s, t)
  PROVE  B!Fails(s) <=> B!Fails(t)
<1>1. PICK n \in Nat :
        /\ Len(s) = n /\ DOMAIN s = 1 .. n
        /\ Len(t) = n + 1 /\ DOMAIN t = 1 .. n + 1
        /\ t[1].do = "AppCreate"
        /\ \A i \in 1 .. n : t[i + 1] = s[i]
  BY LedAt
<1>2. (s = <<>>) <=> n = 0
  <2>1. PICK S : s \in Seq(S)
    BY DEF Led, Sequence
  <2> QED
    BY <1>1, <2>1
<1>3. t # <<>>
  BY <1>1
<1>4. CASE n = 0
  <2>1. t[Len(t)].do # "fails"
    BY <1>1, <1>4
  <2> QED
    BY <1>2, <1>4, <2>1 DEF B!Fails, B!Last
<1>5. CASE n # 0
  <2>1. t[Len(t)] = s[Len(s)]
    BY <1>1, <1>5
  <2> QED
    BY <1>2, <1>3, <1>5, <2>1 DEF B!Fails, B!Last
<1> QED
  BY <1>4, <1>5

(* Provision sends the same requests to both planes where the closure and  *)
(* its stub are there, but for the app of a call.                          *)
Computable == [closure |-> "ok", stub |-> "ok"]
AreOptions(eps) == Sequence(eps) /\ \A i \in DOMAIN eps : B!IsOptions(eps[i])

LEMMA CallIsLed ==
  ASSUME NEW in, NEW env, AreOptions(in.eps), 1 \in DOMAIN in.eps
  PROVE  Led(B!Provision("live", "RUN", in, env, Computable),
             B!Provision("recording", "RUN", in, env, Computable))
<1> DEFINE first == in.eps[1]
           cargo == B!When(in.cache, B!Req("Volume", "cargo"))
           asked == B!Secrets(first)
           mounted == B!Volumes(first, in.cache)
           client == B!Req("Mount", "client")
           source == B!Req("Mount", "source")
           python == B!Req("Mount", "python")
           image == B!EnsureImage(B!RunSpec(in, env))
           creations == [i \in DOMAIN in.eps |-> B!Create("RUN", in, in.eps[i])]
           made == B!FlattenSeq(creations)
           rest(app) == app \o cargo \o asked \o mounted \o client \o source \o python
                        \o <<>> \o image \o made \o <<>>
<1>1. /\ B!EnsureSource("live", in, Computable) = source
      /\ B!EnsureSource("recording", in, Computable) = source
      /\ B!EnsureApp("live", "RUN") = <<>>
      /\ B!EnsureApp("recording", "RUN") = AppRequest
  BY DEF B!EnsureSource, B!EnsureApp, Computable, AppRequest
<1>2. /\ B!Provision("live", "RUN", in, env, Computable) = B!UpToFailure(rest(<<>>))
      /\ B!Provision("recording", "RUN", in, env, Computable) = B!UpToFailure(rest(AppRequest))
  BY <1>1, Zenon DEF B!Provision, B!When
<1>3. /\ Sequence(cargo) /\ Sequence(client) /\ Sequence(source) /\ Sequence(python)
      /\ Sequence(image) /\ Sequence(<<>>)
  BY Singles DEF B!EnsureImage
<1>4. Sequence(asked) /\ Sequence(mounted)
  BY RequestsOf DEF AreOptions
<1>5. Sequence(made)
  <2>1. ASSUME NEW i \in DOMAIN in.eps PROVE Sequence(creations[i])
    <3> DEFINE ep == in.eps[i]
               spec == B!FunctionSpec("RUN", in, ep)
    <3>1. creations[i] = B!Req("Precreate", ep.name) \o <<>>
                         \o (IF ep.valid THEN B!Req("Create", spec) ELSE B!Req("fails", None))
                         \o B!Req("Publish", "ephemeral")
      BY DEF B!Create, B!When, B!Failure
    <3> HIDE DEF ep, spec
    <3>2. Sequence(IF ep.valid THEN B!Req("Create", spec) ELSE B!Req("fails", None))
      BY Singles
    <3> QED
      BY <3>1, <3>2, Singles, Joins
  <2>2. Sequence(in.eps) /\ DOMAIN creations = DOMAIN in.eps
        /\ creations = [i \in DOMAIN in.eps |-> creations[i]]
    BY DEF AreOptions
  <2> HIDE DEF creations
  <2> QED
    BY <2>1, <2>2, MappedSequence, FlatSequence
<1> HIDE DEF cargo, asked, mounted, client, source, python, image, made
<1>6. Led(<<>>, AppRequest)
  <2>1. PICK A : AppRequest \in Seq(A)
    BY Singles DEF AppRequest, Sequence
  <2> QED
    BY <2>1, Singles, ConcatEmptySeq DEF Led
<1>7. Led(rest(<<>>), rest(AppRequest))
  BY <1>3, <1>4, <1>5, <1>6, LedOn
<1> QED
  BY <1>2, <1>7, LedToFailure

LEMMA DeployIsSame ==
  ASSUME NEW in, NEW env
  PROVE  B!Provision("live", "DEPLOY", in, env, Computable)
           = B!Provision("recording", "DEPLOY", in, env, Computable)
<1>1. /\ B!EnsureSource("live", in, Computable) = B!EnsureSource("recording", in, Computable)
      /\ B!EnsureApp("live", "DEPLOY") = B!EnsureApp("recording", "DEPLOY")
      /\ B!EnsurePrebuild("live", in, Computable) = B!EnsurePrebuild("recording", in, Computable)
  BY DEF B!EnsureSource, B!EnsureApp, B!EnsurePrebuild, Computable
<1> QED
  BY <1>1, Zenon DEF B!Provision, B!When

(* The two paths of a deploy fold the same image and fill in the same      *)
(* timeouts; without an endpoint no step is added.                         *)
LEMMA InputsSame ==
  ASSUME NEW config, NEW eps, NEW manual, AreOptions(eps), B!IsOptions(manual),
         \A i \in DOMAIN eps : eps[i].method = None,
         manual.timeout = None, manual.image = None, manual.method = None
  PROVE  B!DeployInputs(config, eps, manual) = B!DumpInputs(config, eps, manual)
<1> DEFINE timed(ep) == [ep EXCEPT !.timeout = B!Or(@, config.timeout)]
           plan == IF eps = <<>> THEN <<manual>> ELSE eps
           filled == [i \in DOMAIN plan |-> timed(plan[i])]
           folded == B!WithFunctionImage(config, plan)
<1>1. \A i \in DOMAIN plan : B!IsOptions(plan[i]) /\ plan[i].method = None
  BY DEF AreOptions
<1>2. \A i \in DOMAIN filled : filled[i].method = None
  BY <1>1 DEF B!IsOptions
<1>3. B!WithFunctionImage(config, eps) = folded
  <2>1. CASE eps = <<>>
    <3>1. {i \in DOMAIN eps : eps[i].image # None} = {}
      BY <2>1
    <3>2. {i \in DOMAIN plan : plan[i].image # None} = {}
      BY <2>1
    <3> QED
      BY <3>1, <3>2 DEF B!WithFunctionImage
  <2> QED
    BY <2>1
<1>4. B!AppendEndpointPip(folded, filled) = folded
  BY <1>2 DEF B!AppendEndpointPip
<1>5. B!DumpInputs(config, eps, manual) = B!Inputs(folded, FALSE, filled)
  BY DEF B!DumpInputs
<1>6. B!DeployInputs(config, eps, manual) = B!Inputs(folded, FALSE, filled)
  <2> DEFINE planned == IF eps = <<>> THEN <<[manual EXCEPT !.timeout = config.timeout]>>
                        ELSE [i \in DOMAIN eps |-> timed(eps[i])]
  <2>1. planned = filled
    <3>1. CASE eps = <<>>
      <4>1. B!Or(manual.timeout, config.timeout) = config.timeout
        BY DEF B!Or
      <4>2. timed(manual) = [manual EXCEPT !.timeout = config.timeout]
        BY <4>1
      <4>3. filled = [i \in 1 .. 1 |-> timed(manual)]
        BY <3>1
      <4> HIDE DEF timed
      <4> QED
        BY <3>1, <4>2, <4>3
    <3> QED
      BY <3>1
  <2>2. B!DeployInputs(config, eps, manual)
          = B!Inputs(B!AppendEndpointPip(B!WithFunctionImage(config, eps), planned), FALSE, planned)
    BY DEF B!DeployInputs
  <2> HIDE DEF planned, filled, folded
  <2> QED
    BY <1>3, <1>4, <2>1, <2>2
<1> QED
  BY <1>5, <1>6

LEMMA PlansAgree ==
  ASSUME NEW c, B!CaseType(c)
  PROVE  B!DumpMatchesLive(c)
<1> SUFFICES ASSUME c.disk = Computable,
                    \A i \in DOMAIN c.eps : c.eps[i].method = None,
                    c.manual.timeout = None, c.manual.image = None, c.manual.method = None
             PROVE  /\ c.eps # <<>> => B!Agree(c, "RUN")
                    /\ B!Agree(c, "DEPLOY")
  BY DEF B!DumpMatchesLive, Computable
<1>1. AreOptions(c.eps) /\ B!IsOptions(c.manual)
  BY IsSequence DEF B!CaseType, AreOptions
<1>2. ASSUME c.eps # <<>> PROVE B!Agree(c, "RUN")
  <2> DEFINE config == B!RunConfig(c.env, c.detected)
             in == B!RunInputs(config, c.eps[1])
             live == B!Live(c, "RUN")
             dump == B!Recorded(c, "RUN")
  <2>1. AreOptions(in.eps) /\ 1 \in DOMAIN in.eps
    <3>1. B!IsOptions(c.eps[1])
      BY <1>1, <1>2 DEF AreOptions, Sequence
    <3> DEFINE ep == [c.eps[1] EXCEPT !.timeout = B!Or(@, config.timeout)]
    <3>2. in.eps = <<ep>>
      BY DEF B!RunInputs, B!Inputs
    <3>3. B!IsOptions(ep)
      BY <3>1 DEF B!IsOptions
    <3> HIDE DEF ep
    <3>4. <<ep>> \in Seq({ep}) /\ DOMAIN <<ep>> = {1} /\ <<ep>>[1] = ep
      OBVIOUS
    <3>5. Sequence(<<ep>>)
      BY <3>4 DEF Sequence
    <3>6. AreOptions(<<ep>>)
      BY <3>3, <3>4, <3>5 DEF AreOptions
    <3> QED
      BY <3>2, <3>4, <3>6
  <2>2. /\ live = B!Provision("live", "RUN", in, c.env, Computable)
        /\ dump = B!Provision("recording", "RUN", in, c.env, Computable)
    BY DEF B!Live, B!Recorded
  <2> HIDE DEF in
  <2>3. Led(live, dump)
    BY <2>1, <2>2, CallIsLed
  <2>4. B!Fails(live) <=> B!Fails(dump)
    BY <2>3, LedFailsAlike
  <2> QED
    BY <2>3, <2>4 DEF B!Agree, Led, AppRequest
<1>3. B!Agree(c, "DEPLOY")
  <2> DEFINE config == B!DeployDefault(c.env)
             live == B!Live(c, "DEPLOY")
             dump == B!Recorded(c, "DEPLOY")
  <2>1. live = dump
    BY <1>1, InputsSame, DeployIsSame DEF B!Live, B!Recorded
  <2> QED
    BY <2>1 DEF B!Agree
<1> QED
  BY <1>2, <1>3

-------------------------------------------------------------------------------
(* The parts together. Those without states keep to their setting.         *)
CallPathInv == \/ part = "describe" /\ DescribeInv
               \/ part = "cache" /\ CacheInv
               \/ part = "invoke" /\ InvokeInv
               \/ part = "mount" /\ MountInv
               \/ part = "join" /\ JoinInv
               \/ part = "run" /\ RunnerInv
               \/ part \in DOMAIN Settings /\ setting \in Settings[part]

LEMMA Starts == Init => CallPathInv
BY DescribeStarts, CacheStarts, InvokeStarts, MountStarts, JoinStarts, RunnerStarts
   DEF Init, CallPathInv

LEMMA Steps == CallPathInv /\ [Next]_vars => CallPathInv'
<1> SUFFICES ASSUME CallPathInv, [Next]_vars PROVE CallPathInv'
  OBVIOUS
<1>0. part' = part /\ setting' = setting
  BY DEF Next, OnDescribe, OnCache, OnInvoke, OnMount, OnJoin, OnRun, vars
<1>1. CASE part = "describe" /\ DescribeInv
  <2>1. [D!Next]_D!vars
    <3>1. CASE UNCHANGED vars
      BY <3>1 DEF vars, describes, D!vars, D!target, D!cmd
    <3> QED
      BY <1>1, <3>1 DEF Next, OnDescribe, OnCache, OnInvoke, OnMount, OnJoin, OnRun
  <2> QED
    BY <1>0, <1>1, <2>1, DescribeStep DEF CallPathInv
<1>2. CASE part = "cache" /\ CacheInv
  <2>1. [C!Next]_C!vars
    <3>1. CASE UNCHANGED vars
      BY <3>1 DEF vars, caches, C!vars, C!local, C!volume
    <3> QED
      BY <1>2, <3>1 DEF Next, OnDescribe, OnCache, OnInvoke, OnMount, OnJoin, OnRun
  <2> QED
    BY <1>0, <1>2, <2>1, CacheStep DEF CallPathInv
<1>3. CASE part = "invoke" /\ InvokeInv
  <2>1. [I!Next]_I!vars
    <3>1. CASE UNCHANGED vars
      BY <3>1 DEF vars, invokes, I!vars, I!client, I!work, I!expiry, I!server
    <3> QED
      BY <1>3, <3>1 DEF Next, OnDescribe, OnCache, OnInvoke, OnMount, OnJoin, OnRun
  <2> QED
    BY <1>0, <1>3, <2>1, InvokeStep DEF CallPathInv
<1>4. CASE part = "mount" /\ MountInv
  <2>1. [M!Next]_M!vars
    <3>1. CASE UNCHANGED vars
      BY <3>1 DEF vars, sources, M!vars, M!uploads, M!server
    <3> QED
      BY <1>4, <3>1 DEF Next, OnDescribe, OnCache, OnInvoke, OnMount, OnJoin, OnRun
  <2> QED
    BY <1>0, <1>4, <2>1, MountStep DEF CallPathInv
<1>5. CASE part = "join" /\ JoinInv
  <2>1. [J!Next]_J!vars
    <3>1. CASE UNCHANGED vars
      BY <3>1 DEF vars, joins, J!vars, J!client, J!server
    <3> QED
      BY <1>5, <3>1 DEF Next, OnDescribe, OnCache, OnInvoke, OnMount, OnJoin, OnRun
  <2> QED
    BY <1>0, <1>5, <2>1, JoinStep DEF CallPathInv
<1>6. CASE part = "run" /\ RunnerInv
  <2>1. [R!Next]_R!vars
    <3>1. CASE UNCHANGED vars
      BY <3>1 DEF vars, runs, R!vars
    <3> QED
      BY <1>6, <3>1 DEF Next, OnDescribe, OnCache, OnInvoke, OnMount, OnJoin, OnRun
  <2> QED
    BY <1>0, <1>6, <2>1, RunnerStep DEF CallPathInv
<1>7. CASE part \in DOMAIN Settings /\ setting \in Settings[part]
  BY <1>0, <1>7 DEF CallPathInv
<1> QED
  BY <1>1, <1>2, <1>3, <1>4, <1>5, <1>6, <1>7 DEF CallPathInv

LEMMA Always == Spec => []CallPathInv
BY Starts, Steps, PTL DEF Spec

(* No setting is a part with states: what holds of a part holds there.     *)
LEMMA PartsKeep ==
  CallPathInv => /\ part = "describe" => DescribeInv
                 /\ part = "cache" => CacheInv
                 /\ part = "invoke" => InvokeInv
                 /\ part = "mount" => MountInv
                 /\ part = "join" => JoinInv
                 /\ part = "run" => RunnerInv
                 /\ part \in {"client", "results", "plan"} =>
                      part \in DOMAIN Settings /\ setting \in Settings[part]
BY PartsDiffer DEF CallPathInv

(* Every variable of a command, a container, an invocation, an upload, a   *)
(* wait and a runner keeps its type, whatever the others do and the        *)
(* network loses.                                                          *)
THEOREM TypeCorrect == Spec => []TypeOK
<1>1. CallPathInv => TypeOK
  BY PartsKeep, DescribePromises, CachePromises, InvokePromises, JoinPromises
     DEF TypeOK, MountInv, RunnerInv
<1> QED
  BY <1>1, Always, PTL

(* A command goes on with a manifest of its own package at the source it   *)
(* computed its key from, and with its own overrides (programmatic.rs:     *)
(* 343-376, describe_cache.rs:115-127), unless another actor moved in one  *)
(* of the windows racy records; for any number of commands and packages.   *)
THEOREM FreshManifests == Spec => []FreshManifest
<1>1. CallPathInv => FreshManifest
  BY PartsKeep, DescribePromises DEF FreshManifest
<1> QED
  BY <1>1, Always, PTL

(* A container serves calls with a binary that is whole and of its own     *)
(* source, built or from the cache on the Volume, wherever another one is  *)
(* killed while it publishes (wrapper.py:115-119, 162-163), if no two were *)
(* building that source at once; for any number of containers and sources. *)
THEOREM ExactRunners == Spec => []ExactRunner
<1>1. CallPathInv => ExactRunner
  BY PartsKeep, CachePromises DEF ExactRunner
<1> QED
  BY <1>1, Always, PTL

(* A map gathers its results in the order of its inputs, each of which ran *)
(* (invoke.rs:604-616), polls a call only when all are enqueued under it   *)
(* (invoke.rs:4-11), and no input runs more often than the tries of the    *)
(* map and of the put allow (transport.rs:70-75); for maps of any size and *)
(* any retry bound.                                                        *)
THEOREM WholeResults == Spec => []ResultsWhole
<1>1. CallPathInv => ResultsWhole
  BY PartsKeep, InvokePromises DEF ResultsWhole
<1> QED
  BY <1>1, Always, PTL

(* A mount names all the files and only content the server has             *)
(* (local_dir.rs:394-437), and a wait says of a build what became of it    *)
(* and prints its log without a gap, every entry with an id once           *)
(* (build.rs:84-92, 155); for any trees, logs and retry bounds.            *)
THEOREM ReportsTrue == Spec => []ReportsMatchServer
<1>1. CallPathInv => ReportsMatchServer
  BY PartsKeep, JoinPromises DEF ReportsMatchServer, MountInv
<1> QED
  BY <1>1, Always, PTL

(* The serve loop answers every frame that is not blank with one line, in  *)
(* their order, no panic line carries the message of another frame, and    *)
(* an ack without failures has loaded the class of every prime (lib.rs of  *)
(* modal-rust-runtime:974-1082), whatever handlers do; for any registry    *)
(* and any frames.                                                         *)
THEOREM RunnerAnswersInOrder == Spec => []RunnerAnswers
<1>1. CallPathInv => RunnerAnswers
  BY PartsKeep DEF RunnerAnswers, RunnerInv
<1> QED
  BY <1>1, Always, PTL

(* What --check-input says of an input every run of it agrees with (lib.rs *)
(* of modal-rust-runtime:889-926 and 1084-1131); --describe names every    *)
(* entrypoint with the config it was declared with (registration.rs:       *)
(* 550-608), as long as no function shares the name of a web server; and   *)
(* the command lines that the wrappers and the CLI build are parsed as     *)
(* what they were built from (wrapper.py:378, programmatic.rs:675), even   *)
(* if a name or an input looks like a flag.                                *)
THEOREM ChecksPredictRuns == Spec => []CheckPredictsRun
<1>1. R!BuiltCommandsParse(CommandNames, CommandValues)
  BY RunConstants, CommandsParse
<1>2. CallPathInv => CheckPredictsRun
  BY <1>1, PartsKeep DEF CheckPredictsRun, RunnerInv
<1> QED
  BY <1>2, Always, PTL

(* A client sends no tokens from a container, both variables if both are   *)
(* set, and otherwise the tokens of the one profile chosen, each but for   *)
(* its variable, to the server of the same profile or of its variable; and *)
(* doctor passes neither without credentials nor with a release profile    *)
(* that aborts (config.rs:86-120, 240-248, auth.rs:40-72,                  *)
(* doctor.rs:139-147); for any environment, profile files, servers and     *)
(* manifests.                                                              *)
THEOREM ClientsAreThemselves == Spec => []ConnectsAsItself
<1>1. ASSUME NEW s, s \in Settings["client"], "client" \in DOMAIN Settings
      PROVE  /\ Client!ConnectsAsItself(s.env, s.files, KindOf, Accepted)
             /\ Client!DoctorCatchesAbort(s.env, s.files, {"cargo", "rustc"}, s.chain)
  <2>1. Client!MachineType(s.files, s.chain)
    BY <1>1, SettingsType
  <2> QED
    BY <2>1, ClientIsItself, AbortIsCaught
<1>2. CallPathInv => ConnectsAsItself
  BY <1>1, PartsKeep DEF ConnectsAsItself
<1> QED
  BY <1>2, Always, PTL

(* Once delivered, a remote call of a connected handle tells its caller    *)
(* what a local one would, a fan-out what the calls would one by one, and  *)
(* for_each the same without reading values (function.rs:53-70, 130-146,   *)
(* 209-226); for inputs in any number that do or fail as they please.      *)
THEOREM RemoteIsLocal == Spec => []RemoteMirrorsLocal
<1>1. ASSUME NEW s, s \in Settings["results"], "results" \in DOMAIN Settings
      PROVE  Back!RemoteMirrorsLocal(s.h, s.c)
  BY <1>1, SettingsType, ResultsMirror
<1>2. CallPathInv => RemoteMirrorsLocal
  BY <1>1, PartsKeep DEF RemoteMirrorsLocal
<1> QED
  BY <1>2, Always, PTL

(* A dry run notes down, request by request, what a call or a deploy of    *)
(* the same configuration sends, and fails when they would (dump.rs:1-21,  *)
(* 502-640; control_plane.rs, provision): whatever the environment and the *)
(* options are, and however many entrypoints, secrets and volumes there    *)
(* are. The cases that are left out are those where the two are meant to   *)
(* differ, or do.                                                          *)
THEOREM DumpsMatch == Spec => []DumpMatchesLive
<1>1. ASSUME NEW s, s \in Settings["plan"], "plan" \in DOMAIN Settings
      PROVE  B!DumpMatchesLive(s)
  BY <1>1, SettingsType, PlansAgree
<1>2. CallPathInv => DumpMatchesLive
  BY <1>1, PartsKeep DEF DumpMatchesLive
<1> QED
  BY <1>2, Always, PTL
===============================================================================
