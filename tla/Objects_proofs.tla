------------------------------ MODULE Objects_proofs ------------------------------
(***************************************************************************)
(* Proofs about the shared objects.  In each part one invariant carries    *)
(* the properties; the parts are proved one after the other and joined at  *)
(* the end, where a step of one part leaves the claims about the others    *)
(* vacuous.                                                                *)
(***************************************************************************)
EXTENDS Objects, FiniteSetTheorems, TLAPS

-------------------------------------------------------------------------------
(* The dict: what each task was told, and what its call did.               *)
DictInv == D!TypeOK /\ D!WinnerStored

LEMMA DictStarts == D!Init => DictInv
  BY DictConstants
     DEF D!Init, DictInv, D!TypeOK, D!WinnerStored, D!Won, D!Values, D!Ended,
         D!AllOps, D!HandleType, D!MaxAttemptsType

(* Every step of a dict call keeps the types.                              *)
LEMMA DictTypes == D!TypeOK /\ [D!Next]_D!vars => D!TypeOK'
<1> SUFFICES ASSUME D!TypeOK, [D!Next]_D!vars PROVE D!TypeOK'
  OBVIOUS
<1> USE DictConstants
    DEF D!TypeOK, D!Values, D!Ended, D!HandleType, D!MaxAttemptsType, D!NoValues
<1>0. CASE UNCHANGED D!vars
  BY <1>0 DEF D!vars, D!call
<1>1. ASSUME NEW t \in Clients, NEW o \in Ops[t], D!Call(t, o) PROVE D!TypeOK'
  BY <1>1 DEF D!Call, D!OpsType, D!AllOps
<1>2. ASSUME NEW t \in Clients, D!Lock(t) PROVE D!TypeOK'
  BY <1>2 DEF D!Lock
<1>3. ASSUME NEW t \in Clients, D!Lost(t)
      PROVE /\ pc' \in [Clients -> {"idle", "lock", "rpc"} \cup D!Ended]
            /\ op' = op
            /\ attempt' \in [Clients -> 1 .. MaxAttempts]
            /\ client' \in [DictHandles -> Clients \cup {None}]
            /\ result' = result
  BY <1>3 DEF D!Lost, D!Return
<1>4. ASSUME NEW t \in Clients, NEW v \in D!Values \cup BOOLEAN, D!Answer(t, v)
      PROVE /\ pc' \in [Clients -> {"idle", "lock", "rpc"} \cup D!Ended]
            /\ op' = op
            /\ attempt' \in [Clients -> 1 .. MaxAttempts]
            /\ client' \in [DictHandles -> Clients \cup {None}]
            /\ result' \in [Clients -> D!Values \cup {None} \cup BOOLEAN]
  BY <1>4 DEF D!Answer, D!Return
<1>5. ASSUME NEW t \in Clients, D!LostRequest(t) PROVE D!TypeOK'
  BY <1>3, <1>5 DEF D!LostRequest
<1>6. ASSUME NEW t \in Clients, D!DictGet(t) PROVE D!TypeOK'
  BY <1>4, <1>6 DEF D!DictGet
<1>7. ASSUME NEW t \in Clients, D!DictUpdate(t) PROVE D!TypeOK'
  BY <1>3, <1>4, <1>7 DEF D!DictUpdate, D!Update
<1>8. ASSUME NEW t \in Clients, D!DictPop(t) PROVE D!TypeOK'
  BY <1>3, <1>4, <1>8 DEF D!DictPop
<1>9. ASSUME NEW t \in Clients, D!DictClear(t) PROVE D!TypeOK'
  BY <1>3, <1>4, <1>9 DEF D!DictClear
<1> QED
  BY <1>0, <1>1, <1>2, <1>5, <1>6, <1>7, <1>8, <1>9 DEF D!Next, D!Rpc

(* A call changes the entry of one that has won only together with undone; *)
(* the task that is told that it inserted has just found nothing there.    *)
LEMMA WinnerStep == D!TypeOK /\ D!WinnerStored /\ [D!Next]_D!vars => D!WinnerStored'
<1> SUFFICES ASSUME D!TypeOK, D!WinnerStored, [D!Next]_D!vars,
                    NEW w \in Clients, D!Won(w)', w \notin undone'
             PROVE  entry' = w
  BY DEF D!WinnerStored
<1> USE DictConstants DEF D!TypeOK, D!Values, D!NoValues, D!HandleType
<1>0. D!Won(w) /\ w \notin undone => entry = w
  BY DEF D!WinnerStored
<1>1. CASE UNCHANGED D!vars
  BY <1>0, <1>1 DEF D!vars, D!call, D!Won
<1>2. ASSUME NEW t \in Clients, NEW o \in Ops[t], D!Call(t, o) PROVE entry' = w
  BY <1>0, <1>2 DEF D!Call, D!Won
<1>3. ASSUME NEW t \in Clients, D!Lock(t) PROVE entry' = w
  BY <1>0, <1>3 DEF D!Lock, D!Won
<1>4. ASSUME NEW t \in Clients, pc[t] = "rpc", D!Lost(t)
      PROVE w # t /\ D!Won(w)
  BY <1>4 DEF D!Lost, D!Return, D!Won
<1>5. ASSUME NEW t \in Clients, NEW v, D!Answer(t, v)
      PROVE /\ w # t => D!Won(w)
            /\ w = t => op[t] = "put_if_absent" /\ v = TRUE
  BY <1>5 DEF D!Answer, D!Return, D!Won
<1>6. ASSUME NEW t \in Clients, D!LostRequest(t) PROVE entry' = w
  BY <1>0, <1>4, <1>6 DEF D!LostRequest
<1>7. ASSUME NEW t \in Clients, D!DictGet(t) PROVE entry' = w
  BY <1>0, <1>5, <1>7 DEF D!DictGet
<1>8. ASSUME NEW t \in Clients, D!DictUpdate(t) PROVE entry' = w
  <2>1. CASE op[t] = "put"
    BY <1>0, <1>4, <1>5, <1>8, <2>1 DEF D!DictUpdate, D!Update
  <2>2. CASE op[t] = "put_if_absent" /\ entry = Absent
    BY <1>0, <1>4, <1>5, <1>8, <2>2 DEF D!DictUpdate, D!Update
  <2>3. CASE op[t] = "put_if_absent" /\ entry # Absent
    BY <1>0, <1>4, <1>5, <1>8, <2>3 DEF D!DictUpdate, D!Update
  <2> QED
    BY <1>8, <2>1, <2>2, <2>3 DEF D!DictUpdate
<1>9. ASSUME NEW t \in Clients, D!DictPop(t) PROVE entry' = w
  BY <1>0, <1>4, <1>5, <1>9 DEF D!DictPop
<1>10. ASSUME NEW t \in Clients, D!DictClear(t) PROVE entry' = w
  BY <1>0, <1>4, <1>5, <1>10 DEF D!DictClear
<1> QED
  BY <1>1, <1>2, <1>3, <1>6, <1>7, <1>8, <1>9, <1>10 DEF D!Next, D!Rpc

-------------------------------------------------------------------------------
(* The uploads.  An upload is put before it is declared a second time; no  *)
(* more blocks are hashed than a file has, and a local write changes a     *)
(* block of a file, not the number of them.  Until one does, what was      *)
(* hashed is what is on disk, what a PUT answered is what was asked for,   *)
(* and only blocks that are still to be looked at are missing.             *)
SecondRound(t) == pc[t] = "put" \/ (pc[t] = "declare" /\ round[t] = 1)
Rounds == \A t \in Uploaders :
            /\ pc[t] \in {"hash", "put"} => round[t] = 0
            /\ pc[t] = "declare" /\ round[t] = 1 => missing[t] = {}
Shaped == \A t \in Uploaders : \A f \in Files :
            DOMAIN hashed[t][f] \subseteq DOMAIN tree[t][f]
Agrees(h, s) == \A i \in DOMAIN h : h[i] = s[i]
Unedited(t) == /\ \A f \in Files : Agrees(hashed[t][f], tree[t][f])
               /\ \A sha \in Contents : answers[t][sha] \in {None, sha}
               /\ SecondRound(t) => V!Missing(t) \subseteq missing[t]
Faithful == edits = 0 => \A t \in Uploaders : Unedited(t)
VolumeInv == /\ V!TypeOK /\ Rounds /\ Shaped /\ Faithful
             /\ V!OkCommitted /\ V!DivergesOnlyIfEdited

(* One more block of a file, read as it is on disk.                        *)
Appends(h, s, more) == /\ h \in Seq(Contents) /\ s \in Seq(Contents)
                       /\ Len(h) < Len(s) /\ more = Append(h, s[Len(h) + 1])
LEMMA OneMore ==
  ASSUME NEW h, NEW s, NEW more, Appends(h, s, more)
  PROVE  /\ more \in Seq(Contents)
         /\ DOMAIN more \subseteq DOMAIN s
         /\ Agrees(h, s) => Agrees(more, s)
<1>0. /\ h \in Seq(Contents) /\ s \in Seq(Contents)
      /\ Len(h) < Len(s) /\ more = Append(h, s[Len(h) + 1])
  BY DEF Appends
<1>1. PICK m \in Nat : m = Len(h) /\ DOMAIN h = 1 .. m
  BY <1>0
<1>2. PICK k \in Nat : k = Len(s) /\ DOMAIN s = 1 .. k
  BY <1>0
<1>3. m < k /\ m + 1 \in 1 .. k
  BY <1>0, <1>1, <1>2
<1>4. s[m + 1] \in Contents
  BY <1>0, <1>2, <1>3
<1>5. /\ more \in Seq(Contents) /\ DOMAIN more = 1 .. (m + 1)
      /\ more[m + 1] = s[m + 1]
      /\ \A i \in 1 .. m : more[i] = h[i]
  BY <1>0, <1>1, <1>4
<1>6. DOMAIN more \subseteq DOMAIN s
  BY <1>2, <1>3, <1>5
<1>7. ASSUME Agrees(h, s), NEW i \in DOMAIN more PROVE more[i] = s[i]
  <2>1. i \in 1 .. m \/ i = m + 1
    BY <1>5, <1>7
  <2> QED
    BY <1>1, <1>5, <1>7, <2>1 DEF Agrees
<1> QED
  BY <1>5, <1>6, <1>7 DEF Agrees

(* The blocks of files lie in Files \X Nat and hold contents.              *)
LEMMA BlocksOf ==
  ASSUME NEW m, m \in V!Manifests
  PROVE  /\ V!Blocks(m) \subseteq Files \X Nat
         /\ \A b \in V!Blocks(m) : /\ b[1] \in Files
                                   /\ b[2] \in DOMAIN m[b[1]]
                                   /\ m[b[1]][b[2]] \in Contents
         /\ V!ContentsOf(m) \subseteq Contents
<1>2. \A b \in V!Blocks(m) : \E f \in Files : \E i \in DOMAIN m[f] : b = <<f, i>>
  BY DEF V!Blocks
<1>3. \A f \in Files : \A i \in DOMAIN m[f] : i \in Nat /\ m[f][i] \in Contents
  BY DEF V!Manifests
<1>4. \A b \in V!Blocks(m) : /\ b[1] \in Files
                             /\ b[2] \in DOMAIN m[b[1]]
                             /\ m[b[1]][b[2]] \in Contents
                             /\ b \in Files \X Nat
  <2> SUFFICES ASSUME NEW f \in Files, NEW i \in DOMAIN m[f]
               PROVE  LET b == <<f, i>>
                      IN /\ b[1] \in Files
                         /\ b[2] \in DOMAIN m[b[1]]
                         /\ m[b[1]][b[2]] \in Contents
                         /\ b \in Files \X Nat
    BY <1>2
  <2> QED
    BY <1>3
<1>5. V!ContentsOf(m) \subseteq Contents
  BY <1>4 DEF V!ContentsOf
<1> QED
  BY <1>4, <1>5

LEMMA VolumeStarts == V!Init => VolumeInv
<1> SUFFICES ASSUME V!Init PROVE VolumeInv
  OBVIOUS
<1>1. V!TypeOK
  BY VolumeConstants
     DEF V!Init, V!TypeOK, V!BoundsType, V!TreesType, V!Missings, V!Manifests, V!Ended
<1>2. Rounds /\ Shaped /\ Faithful
  BY DEF V!Init, Rounds, Shaped, Faithful, Unedited, Agrees, SecondRound
<1>3. V!OkCommitted /\ V!DivergesOnlyIfEdited
  BY DEF V!Init, V!OkCommitted, V!DivergesOnlyIfEdited
<1> QED
  BY <1>1, <1>2, <1>3 DEF VolumeInv

(* What hashing does: to one file, or to nothing when all are done.        *)
LEMMA Hashed ==
  ASSUME V!TypeOK, NEW t \in Uploaders, V!Hash(t)
  PROVE  /\ hashed' \in [Uploaders -> V!Manifests]
         /\ \A u \in Uploaders \ {t} : hashed'[u] = hashed[u]
         /\ Shaped => Shaped'
         /\ \A f \in Files : Agrees(hashed[t][f], tree[t][f]) =>
                               Agrees(hashed'[t][f], tree[t][f])
<1>1. tree' = tree /\ hashed \in [Uploaders -> V!Manifests] /\ tree \in [Uploaders -> V!Manifests]
  BY DEF V!Hash, V!TypeOK
<1>2. CASE hashed' = hashed
  BY <1>1, <1>2 DEF Shaped
<1>3. ASSUME NEW f \in Files, V!Left(t, f),
             hashed' = [hashed EXCEPT ![t][f] = Append(@, tree[t][f][Len(@) + 1])]
      PROVE  /\ hashed' \in [Uploaders -> V!Manifests]
             /\ \A u \in Uploaders \ {t} : hashed'[u] = hashed[u]
             /\ Shaped => Shaped'
             /\ \A g \in Files : Agrees(hashed[t][g], tree[t][g]) =>
                                   Agrees(hashed'[t][g], tree[t][g])
  <2>1. PICK h, s, more : /\ h = hashed[t][f] /\ s = tree[t][f]
                          /\ more = Append(h, s[Len(h) + 1])
    OBVIOUS
  <2>2. Appends(h, s, more)
    BY <1>1, <1>3, <2>1 DEF V!Manifests, V!Left, Appends
  <2>3. /\ more \in Seq(Contents)
        /\ DOMAIN more \subseteq DOMAIN s
        /\ Agrees(h, s) => Agrees(more, s)
    BY <2>2, OneMore
  <2>4. hashed' = [hashed EXCEPT ![t][f] = more]
    BY <1>3, <2>1
  <2>5. /\ hashed' \in [Uploaders -> V!Manifests]
        /\ \A u \in Uploaders \ {t} : hashed'[u] = hashed[u]
        /\ \A g \in Files : hashed'[t][g] = IF g = f THEN more ELSE hashed[t][g]
    BY <1>1, <2>3, <2>4 DEF V!Manifests
  <2>6. \A g \in Files : Agrees(hashed[t][g], tree[t][g]) => Agrees(hashed'[t][g], tree[t][g])
    BY <2>1, <2>3, <2>5
  <2>7. ASSUME Shaped, NEW u \in Uploaders, NEW g \in Files
        PROVE  DOMAIN hashed'[u][g] \subseteq DOMAIN tree'[u][g]
    BY <1>1, <2>1, <2>3, <2>5, <2>7 DEF Shaped
  <2> QED
    BY <2>5, <2>6, <2>7 DEF Shaped
<1> QED
  BY <1>2, <1>3 DEF V!Hash

(* Every step of an upload keeps the types.                                *)
LEMMA VolumeTypes ==
  V!TypeOK /\ Rounds /\ Shaped /\ [V!Next]_V!vars => V!TypeOK'
<1> SUFFICES ASSUME V!TypeOK, Rounds, Shaped, [V!Next]_V!vars
             PROVE  V!TypeOK'
  OBVIOUS
<1> USE VolumeConstants
    DEF V!TypeOK, V!Ended, V!BoundsType, V!NoContent, V!server
<1>0. CASE UNCHANGED V!vars
  BY <1>0 DEF V!vars, V!task, V!Blocks
<1>1. ASSUME NEW t \in Uploaders, V!Hash(t) PROVE V!TypeOK'
  <2>1. /\ pc[t] = "hash"
        /\ \/ V!GoTo(t, "declare")
           \/ pc' = pc /\ attempt' = attempt
        /\ UNCHANGED <<tree, force, round, missing, answers, volume, store,
                       written, edits>>
    BY <1>1 DEF V!Hash
  <2>2. /\ hashed' \in [Uploaders -> V!Manifests]
        /\ \A u \in Uploaders \ {t} : hashed'[u] = hashed[u]
    BY <1>1, Hashed
  <2>3. /\ pc' \in [Uploaders -> {"hash", "declare", "put"} \cup V!Ended]
        /\ attempt' \in [Uploaders -> 1 .. MaxAttempts]
    <3>1. CASE V!GoTo(t, "declare")
      BY <3>1 DEF V!GoTo
    <3>2. CASE pc' = pc /\ attempt' = attempt
      BY <3>2
    <3> QED
      BY <2>1, <3>1, <3>2
  <2>4. \A u \in Uploaders : pc'[u] = "put" =>
          pc[u] = "put" /\ hashed'[u] = hashed[u] /\ missing'[u] = missing[u]
    BY <2>1, <2>2 DEF V!GoTo
  <2>5. \A u \in Uploaders : pc'[u] = "put" =>
          missing'[u] \subseteq V!Blocks(hashed[u])
    BY <2>4
  <2>6. \A u \in Uploaders : pc'[u] = "put" =>
          missing'[u] \subseteq V!Blocks(hashed'[u])
    BY <2>4, <2>5
  <2> QED
    BY <2>1, <2>2, <2>3, <2>6 DEF V!Blocks
<1>2. ASSUME NEW t \in Uploaders, V!Edit(t) PROVE V!TypeOK'
  <2>1. PICK b \in V!Blocks(tree[t]), c \in Contents :
          tree' = [tree EXCEPT ![t][b[1]][b[2]] = c]
    BY <1>2 DEF V!Edit
  <2>2. tree[t] \in V!Manifests
    OBVIOUS
  <2>3. b[1] \in Files /\ b[2] \in DOMAIN tree[t][b[1]]
    BY <2>2, BlocksOf
  <2>4. tree[t][b[1]] \in Seq(Contents)
    BY <2>3 DEF V!Manifests
  <2>5. [tree[t][b[1]] EXCEPT ![b[2]] = c] \in Seq(Contents)
    BY <2>3, <2>4
  <2>6. tree' \in [Uploaders -> V!Manifests]
    BY <2>1, <2>5 DEF V!Manifests
  <2> QED
    BY <1>2, <2>6 DEF V!Edit, V!task, V!Blocks
<1>3. ASSUME NEW t \in Uploaders, V!ReadFails(t) PROVE V!TypeOK'
  BY <1>3 DEF V!ReadFails, V!GoTo, V!Blocks
<1>4. ASSUME NEW t \in Uploaders, V!Lost(t)
      PROVE /\ pc' \in [Uploaders -> {"hash", "declare", "put"} \cup V!Ended]
            /\ attempt' \in [Uploaders -> 1 .. MaxAttempts]
            /\ UNCHANGED <<round, hashed, missing, answers>>
            /\ \A u \in Uploaders : pc'[u] = "put" => pc[u] = "put"
  <2>1. CASE /\ attempt[t] < MaxAttempts
             /\ attempt' = [attempt EXCEPT ![t] = @ + 1]
             /\ pc' = pc
    BY <1>4, <2>1 DEF V!Lost
  <2>2. CASE V!GoTo(t, "error")
    BY <1>4, <2>2 DEF V!Lost, V!GoTo
  <2> QED
    BY <1>4, <2>1, <2>2 DEF V!Lost, V!Retry
<1>5. ASSUME NEW t \in Uploaders, NEW l \in {"declare", "put"} \cup V!Ended,
             V!GoTo(t, l)
      PROVE /\ pc' \in [Uploaders -> {"hash", "declare", "put"} \cup V!Ended]
            /\ attempt' \in [Uploaders -> 1 .. MaxAttempts]
            /\ pc'[t] = l
            /\ \A u \in Uploaders \ {t} : pc'[u] = pc[u]
  BY <1>5 DEF V!GoTo
<1>6. ASSUME NEW t \in Uploaders, V!VolumePutFiles2(t) PROVE V!TypeOK'
  <2>1. /\ V!Blocks(hashed[t]) \subseteq Files \X Nat
        /\ hashed[t] \in V!Manifests
        /\ V!ContentsOf(hashed[t]) \subseteq Contents
    BY BlocksOf
  <2>2. V!Missing(t) \subseteq V!Blocks(hashed[t])
    BY DEF V!Missing
  <2>3. UNCHANGED <<tree, force, edits>>
    BY <1>6 DEF V!VolumePutFiles2
  <2>4. CASE V!Lost(t) /\ UNCHANGED V!server
    BY <1>4, <2>3, <2>4 DEF V!Blocks
  <2>5. CASE /\ V!GoTo(t, "exists") /\ UNCHANGED <<round, hashed, missing, answers>>
             /\ UNCHANGED V!server
    <3>1. \A u \in Uploaders : pc'[u] = "put" => pc[u] = "put"
      BY <1>5, <2>5
    <3> QED
      BY <1>5, <2>3, <2>5, <3>1 DEF V!Blocks
  <2>6. CASE /\ V!Commit(t)
             /\ \/ /\ V!GoTo(t, V!AfterDeclare(t, {}))
                   /\ UNCHANGED <<round, hashed, missing, answers>>
                \/ V!Lost(t)
    <3>1. /\ volume' \in [Files -> Seq(Contents) \cup {None}]
          /\ store' \subseteq Contents
          /\ written' \subseteq Uploaders
      BY <2>1, <2>6 DEF V!Commit, V!Manifests
    <3>2. V!AfterDeclare(t, {}) = "ok"
      BY DEF V!AfterDeclare
    <3>3. /\ pc' \in [Uploaders -> {"hash", "declare", "put"} \cup V!Ended]
          /\ attempt' \in [Uploaders -> 1 .. MaxAttempts]
          /\ UNCHANGED <<round, hashed, missing, answers>>
          /\ \A u \in Uploaders : pc'[u] = "put" => pc[u] = "put"
      <4>1. CASE V!Lost(t)
        BY <1>4, <4>1
      <4>2. CASE /\ V!GoTo(t, V!AfterDeclare(t, {}))
                 /\ UNCHANGED <<round, hashed, missing, answers>>
        BY <1>5, <3>2, <4>2
      <4> QED
        BY <2>6, <4>1, <4>2
    <3> QED
      BY <2>3, <3>1, <3>3 DEF V!Blocks
  <2>7. CASE /\ V!Missing(t) # {}
             /\ V!GoTo(t, V!AfterDeclare(t, V!Missing(t)))
             /\ missing' = [missing EXCEPT ![t] = V!Missing(t)]
             /\ UNCHANGED <<round, hashed, answers>>
             /\ UNCHANGED V!server
    <3>1. V!AfterDeclare(t, V!Missing(t)) \in {"put", "diverged"}
      BY <2>7 DEF V!AfterDeclare
    <3>2. missing' \in [Uploaders -> V!Missings]
      BY <2>1, <2>2, <2>7 DEF V!Missings
    <3>3. \A u \in Uploaders : pc'[u] = "put" =>
            missing'[u] \subseteq V!Blocks(hashed[u])
      BY <1>5, <2>2, <2>7, <3>1
    <3> QED
      BY <1>5, <2>3, <2>7, <3>1, <3>2, <3>3 DEF V!Blocks
  <2> QED
    BY <1>6, <2>4, <2>5, <2>6, <2>7 DEF V!VolumePutFiles2
<1>7. ASSUME NEW t \in Uploaders, V!PutBlock(t) PROVE V!TypeOK'
  <2>1. PICK b \in missing[t] :
          LET sha == hashed[t][b[1]][b[2]] IN
          IF V!AlreadyPut(t, sha)
            THEN /\ missing' = [missing EXCEPT ![t] = @ \ {b}]
                 /\ UNCHANGED <<pc, round, attempt, hashed, answers>>
            ELSE \/ /\ answers' = [answers EXCEPT ![t][sha] = tree[t][b[1]][b[2]]]
                    /\ missing' = [missing EXCEPT ![t] = @ \ {b}]
                    /\ V!GoTo(t, "put")
                    /\ UNCHANGED <<round, hashed>>
                 \/ V!Lost(t)
    BY <1>7 DEF V!PutBlock
  <2>2. UNCHANGED <<tree, force, volume, store, written, edits>> /\ pc[t] = "put"
    BY <1>7 DEF V!PutBlock
  <2>3. missing' = missing \/ missing' = [missing EXCEPT ![t] = @ \ {b}]
    BY <1>4, <2>1
  <2>4. missing' \in [Uploaders -> V!Missings]
        /\ \A u \in Uploaders : missing'[u] \subseteq missing[u]
    <3>1. missing \in [Uploaders -> V!Missings] /\ missing[t] \ {b} \in V!Missings
      BY DEF V!Missings
    <3>a. missing' = missing \/ \A u \in Uploaders : missing'[u] = IF u = t THEN missing[t] \ {b} ELSE missing[u]
      BY <2>3, <3>1
    <3> DEFINE some == V!Missings
    <3> HIDE DEF some
    <3>2. missing' \in [Uploaders -> some]
      <4>1. missing \in [Uploaders -> some] /\ missing[t] \ {b} \in some
        BY <3>1 DEF some
      <4> QED
        BY <2>3, <4>1
    <3>3. ASSUME NEW u \in Uploaders PROVE missing'[u] \subseteq missing[u]
      <4>1. missing'[u] \in {missing[u], missing[u] \ {b}}
        BY <3>a
      <4> QED
        BY <4>1
    <3> QED
      BY <3>2, <3>3 DEF some
  <2>5. /\ pc' \in [Uploaders -> {"hash", "declare", "put"} \cup V!Ended]
        /\ attempt' \in [Uploaders -> 1 .. MaxAttempts]
        /\ UNCHANGED <<round, hashed>>
        /\ \A u \in Uploaders : pc'[u] = "put" => pc[u] = "put"
    BY <1>4, <1>5, <2>1, <2>2
  <2>6. CASE answers' = answers
    BY <2>2, <2>4, <2>5, <2>6 DEF V!Blocks
  <2>7. CASE answers' = [answers EXCEPT
               ![t][hashed[t][b[1]][b[2]]] = tree[t][b[1]][b[2]]]
    <3>1. b \in V!Blocks(hashed[t])
      BY <2>2
    <3>2. b[1] \in Files /\ b[2] \in DOMAIN tree[t][b[1]]
      <4>1. PICK h : h = hashed[t]
        OBVIOUS
      <4>2. b \in V!Blocks(h) /\ h \in V!Manifests
        BY <3>1, <4>1
      <4>3. b[1] \in Files /\ b[2] \in DOMAIN h[b[1]]
        BY <4>2, BlocksOf
      <4>4. DOMAIN hashed[t][b[1]] \subseteq DOMAIN tree[t][b[1]]
        BY <3>1, <4>3 DEF Shaped
      <4> QED
        BY <4>1, <4>3, <4>4
    <3>3. tree[t][b[1]][b[2]] \in Contents
      BY <3>2 DEF V!Manifests
    <3>4. answers' \in [Uploaders -> [Contents -> Contents \cup {None}]]
      BY <2>7, <3>3
    <3> QED
      BY <2>2, <2>4, <2>5, <3>4 DEF V!Blocks
  <2> QED
    BY <1>4, <2>1, <2>6, <2>7
<1>8. ASSUME NEW t \in Uploaders, V!NextRound(t) PROVE V!TypeOK'
  BY <1>8 DEF V!NextRound, V!GoTo, V!Blocks, Rounds
<1> QED
  BY <1>0, <1>1, <1>2, <1>3, <1>6, <1>7, <1>8 DEF V!Next, V!Step

(* What one uploader's try or answer does to the counters of all.          *)
LEMMA Retried ==
  ASSUME V!TypeOK, NEW t \in Uploaders, V!Lost(t)
  PROVE  /\ UNCHANGED <<round, hashed, missing, answers>>
         /\ \A u \in Uploaders : pc'[u] = pc[u] \/ (u = t /\ pc'[u] = "error")
BY DEF V!TypeOK, V!Lost, V!Retry, V!GoTo

LEMMA WentTo ==
  ASSUME V!TypeOK, NEW t \in Uploaders, NEW l, V!GoTo(t, l)
  PROVE  pc'[t] = l /\ \A u \in Uploaders \ {t} : pc'[u] = pc[u]
BY DEF V!TypeOK, V!GoTo

(* The second declaration comes after the blocks, with none of them left.  *)
LEMMA RoundsStep == V!TypeOK /\ Rounds /\ [V!Next]_V!vars => Rounds'
<1> SUFFICES ASSUME V!TypeOK, Rounds, [V!Next]_V!vars PROVE Rounds'
  OBVIOUS
<1>1. CASE UNCHANGED V!vars
  BY <1>1 DEF V!vars, V!task, Rounds
<1> USE DEF Rounds
<1>2. ASSUME NEW t \in Uploaders, V!Hash(t) PROVE Rounds'
  <2>1. /\ pc[t] = "hash"
        /\ V!GoTo(t, "declare") \/ pc' = pc
        /\ UNCHANGED <<round, missing>>
    BY <1>2 DEF V!Hash
  <2> QED
    BY <2>1, WentTo
<1>3. ASSUME NEW t \in Uploaders, V!Edit(t) PROVE Rounds'
  BY <1>3 DEF V!Edit, V!task
<1>4. ASSUME NEW t \in Uploaders, V!ReadFails(t) PROVE Rounds'
  BY <1>4, WentTo DEF V!ReadFails
<1>5. ASSUME NEW t \in Uploaders, V!VolumePutFiles2(t) PROVE Rounds'
  <2>1. CASE V!Lost(t)
    BY <2>1, Retried
  <2>2. CASE \E l \in V!Ended : V!GoTo(t, l) /\ UNCHANGED <<round, missing>>
    BY <2>2, WentTo DEF V!Ended
  <2>3. CASE /\ V!Missing(t) # {}
             /\ V!GoTo(t, V!AfterDeclare(t, V!Missing(t)))
             /\ missing' = [missing EXCEPT ![t] = V!Missing(t)]
             /\ round' = round
    <3>1. \/ V!AfterDeclare(t, V!Missing(t)) = "put" /\ round[t] = 0
          \/ V!AfterDeclare(t, V!Missing(t)) = "diverged"
      BY <2>3 DEF V!AfterDeclare
    <3> QED
      BY <2>3, <3>1, WentTo DEF V!TypeOK
  <2>4. V!AfterDeclare(t, {}) = "ok"
    BY DEF V!AfterDeclare
  <2> QED
    BY <1>5, <2>1, <2>2, <2>3, <2>4 DEF V!VolumePutFiles2, V!Ended
<1>6. ASSUME NEW t \in Uploaders, V!PutBlock(t) PROVE Rounds'
  <2>1. /\ pc[t] = "put"
        /\ \/ pc' = pc /\ round' = round
           \/ V!GoTo(t, "put") /\ round' = round
           \/ V!Lost(t)
        /\ \A u \in Uploaders \ {t} : missing'[u] = missing[u]
    BY <1>6, Retried DEF V!PutBlock, V!TypeOK
  <2> QED
    BY <2>1, Retried, WentTo
<1>7. ASSUME NEW t \in Uploaders, V!NextRound(t) PROVE Rounds'
  BY <1>7, WentTo DEF V!NextRound, V!TypeOK
<1> QED
  BY <1>1, <1>2, <1>3, <1>4, <1>5, <1>6, <1>7 DEF V!Next, V!Step

(* Hashing stops at the end of a file, and a local write does not move it. *)
LEMMA ShapedStep == V!TypeOK /\ Shaped /\ [V!Next]_V!vars => Shaped'
<1> SUFFICES ASSUME V!TypeOK, Shaped, [V!Next]_V!vars PROVE Shaped'
  OBVIOUS
<1> USE DEF Shaped
<1>1. CASE UNCHANGED <<tree, hashed>>
  BY <1>1
<1>2. ASSUME NEW t \in Uploaders, V!Hash(t) PROVE Shaped'
  BY <1>2, Hashed
<1>3. ASSUME NEW t \in Uploaders, V!Edit(t) PROVE Shaped'
  <2>1. PICK b \in V!Blocks(tree[t]), c \in Contents :
          tree' = [tree EXCEPT ![t][b[1]][b[2]] = c]
    BY <1>3 DEF V!Edit
  <2>2. \A u \in Uploaders : \A g \in Files : DOMAIN tree'[u][g] = DOMAIN tree[u][g]
    BY <2>1 DEF V!TypeOK, V!Manifests
  <2>3. hashed' = hashed
    BY <1>3 DEF V!Edit, V!task
  <2> QED
    BY <2>2, <2>3
<1> QED
  BY <1>1, <1>2, <1>3, Retried
     DEF V!Next, V!Step, V!vars, V!task, V!ReadFails, V!VolumePutFiles2,
         V!PutBlock, V!NextRound

(* An upload that nothing happened to misses no more than before.          *)
LEMMA NoMoreMissing ==
  ASSUME NEW u \in Uploaders, store \subseteq store',
         hashed'[u] = hashed[u], answers'[u] = answers[u]
  PROVE  V!Missing(u)' \subseteq V!Missing(u)
BY DEF V!Missing, V!Held, V!Blocks

(* Without a local write a PUT answers what its block was hashed to, so    *)
(* every block that was looked at is held.                                 *)
LEMMA FaithfulStep ==
  /\ V!TypeOK /\ Rounds /\ Shaped /\ Faithful /\ [V!Next]_V!vars
  => Faithful'
<1> SUFFICES ASSUME V!TypeOK, Rounds, Shaped, Faithful,
                    [V!Next]_V!vars, edits' = 0,
                    NEW u \in Uploaders
             PROVE  Unedited(u)'
  BY DEF Faithful
<1> USE VolumeConstants DEF V!NoContent
<1>0. edits = 0 /\ tree' = tree /\ store \subseteq store' /\ ~(\E t \in Uploaders : V!Edit(t))
  <2>1. edits \in Nat
    BY DEF V!TypeOK, V!BoundsType
  <2>2. \A t \in Uploaders : ~V!Edit(t)
    BY <2>1 DEF V!Edit
  <2>3. store \subseteq store'
    BY <2>2 DEF V!Next, V!Step, V!vars, V!server, V!Hash, V!ReadFails,
                V!VolumePutFiles2, V!Commit, V!PutBlock, V!NextRound
  <2> QED
    BY <2>2, <2>3 DEF V!Next, V!Step, V!vars, V!Hash, V!ReadFails,
                      V!VolumePutFiles2, V!PutBlock, V!NextRound
<1>1. Unedited(u)
  BY <1>0 DEF Faithful
<1>2. CASE /\ hashed'[u] = hashed[u] /\ answers'[u] = answers[u]
           /\ missing'[u] = missing[u]
           /\ SecondRound(u)' => SecondRound(u)
  BY <1>0, <1>1, <1>2, NoMoreMissing DEF Unedited
<1>3. ASSUME NEW t \in Uploaders, u # t, V!Step(t) \/ V!ReadFails(t)
      PROVE  /\ hashed'[u] = hashed[u] /\ answers'[u] = answers[u]
             /\ missing'[u] = missing[u] /\ round'[u] = round[u]
             /\ pc'[u] = pc[u]
  <2>1. CASE V!Hash(t)
    BY <1>3, <2>1, WentTo, Hashed DEF V!Hash
  <2>2. CASE V!VolumePutFiles2(t)
    BY <1>3, <2>2, WentTo, Retried DEF V!VolumePutFiles2, V!TypeOK
  <2>3. CASE V!PutBlock(t)
    BY <1>3, <2>3, WentTo, Retried DEF V!PutBlock, V!TypeOK
  <2>4. CASE V!NextRound(t)
    BY <1>3, <2>4, WentTo DEF V!NextRound, V!TypeOK
  <2>5. CASE V!ReadFails(t)
    BY <1>3, <2>5, WentTo DEF V!ReadFails
  <2> QED
    BY <1>3, <2>1, <2>2, <2>3, <2>4, <2>5 DEF V!Step
<1>4. CASE UNCHANGED V!vars
  BY <1>2, <1>4 DEF V!vars, V!task, SecondRound
<1>5. ASSUME V!Hash(u) PROVE Unedited(u)'
  <2>1. /\ pc[u] = "hash"
        /\ V!GoTo(u, "declare") \/ pc' = pc
        /\ UNCHANGED <<round, answers>>
    BY <1>5 DEF V!Hash
  <2>2. \A g \in Files : Agrees(hashed'[u][g], tree[u][g])
    BY <1>1, <1>5, Hashed DEF Unedited
  <2>3. ~SecondRound(u)'
    BY <2>1, WentTo DEF Rounds, SecondRound
  <2> QED
    BY <1>0, <1>1, <2>1, <2>2, <2>3 DEF Unedited, Agrees
<1>6. ASSUME V!ReadFails(u) PROVE Unedited(u)'
  BY <1>2, <1>6, WentTo DEF V!ReadFails, SecondRound
<1>7. ASSUME V!VolumePutFiles2(u) PROVE Unedited(u)'
  <2>1. CASE V!Lost(u)
    BY <1>2, <2>1, Retried DEF SecondRound
  <2>2. CASE \E l \in V!Ended : V!GoTo(u, l) /\ UNCHANGED <<round, hashed, missing, answers>>
    BY <1>2, <2>2, WentTo DEF SecondRound, V!Ended
  <2>3. CASE /\ missing' = [missing EXCEPT ![u] = V!Missing(u)]
             /\ UNCHANGED <<hashed, answers>>
    BY <1>0, <1>1, <2>3, NoMoreMissing DEF Unedited, V!TypeOK
  <2>4. V!AfterDeclare(u, {}) = "ok"
    BY DEF V!AfterDeclare
  <2> QED
    BY <1>7, <2>1, <2>2, <2>3, <2>4 DEF V!VolumePutFiles2, V!Ended
<1>8. ASSUME V!PutBlock(u) PROVE Unedited(u)'
  <2>1. PICK b \in missing[u] :
          LET sha == hashed[u][b[1]][b[2]] IN
          IF V!AlreadyPut(u, sha)
            THEN /\ missing' = [missing EXCEPT ![u] = @ \ {b}]
                 /\ UNCHANGED <<pc, round, attempt, hashed, answers>>
            ELSE \/ /\ answers' = [answers EXCEPT ![u][sha] = tree[u][b[1]][b[2]]]
                    /\ missing' = [missing EXCEPT ![u] = @ \ {b}]
                    /\ V!GoTo(u, "put")
                    /\ UNCHANGED <<round, hashed>>
                 \/ V!Lost(u)
    BY <1>8 DEF V!PutBlock
  <2> DEFINE sha == hashed[u][b[1]][b[2]]
  <2>2. CASE V!Lost(u)
    BY <1>2, <2>2, Retried DEF SecondRound
  <2>3. pc[u] = "put" /\ SecondRound(u)
    BY <1>8 DEF V!PutBlock, SecondRound
  <2>4. /\ b[1] \in Files /\ sha \in Contents /\ sha = tree[u][b[1]][b[2]]
    <3>1. hashed[u] \in V!Manifests /\ b \in V!Blocks(hashed[u])
      BY <2>3 DEF V!TypeOK
    <3>2. b[1] \in Files /\ b[2] \in DOMAIN hashed[u][b[1]] /\ sha \in Contents
      BY <3>1, BlocksOf
    <3> QED
      BY <1>1, <3>2 DEF Unedited, Agrees
  <2>5. CASE V!AlreadyPut(u, sha) /\ ~V!Lost(u)
    <3>1. missing'[u] = missing[u] \ {b} /\ UNCHANGED <<hashed, answers>>
      BY <2>1, <2>5 DEF V!TypeOK
    <3>2. sha \in V!Held(u)
      BY <1>1, <2>4, <2>5 DEF Unedited, V!AlreadyPut, V!Held
    <3>3. b \notin V!Missing(u)
      BY <3>2 DEF V!Missing
    <3> QED
      BY <1>0, <1>1, <2>3, <3>1, <3>3, NoMoreMissing DEF Unedited
  <2>6. CASE ~V!AlreadyPut(u, sha) /\ ~V!Lost(u)
    <3>1. /\ missing'[u] = missing[u] \ {b} /\ hashed' = hashed
          /\ \A s \in Contents : answers'[u][s] = IF s = sha THEN sha ELSE answers[u][s]
      <4>1. /\ missing' = [missing EXCEPT ![u] = @ \ {b}] /\ hashed' = hashed
            /\ answers' = [answers EXCEPT ![u][sha] = sha]
        BY <2>1, <2>4, <2>6
      <4>2. /\ missing \in [Uploaders -> V!Missings] /\ sha \in Contents
            /\ answers \in [Uploaders -> [Contents -> Contents \cup {None}]]
        BY <2>4 DEF V!TypeOK
      <4> HIDE DEF sha
      <4> QED
        BY <4>1, <4>2
    <3>2. V!Held(u) \subseteq V!Held(u)' /\ sha \in V!Held(u)'
      BY <1>0, <2>4, <3>1 DEF V!Held
    <3>3. V!Missing(u)' \subseteq V!Missing(u) \ {b}
      BY <3>1, <3>2 DEF V!Missing, V!Blocks
    <3> QED
      BY <1>0, <1>1, <2>3, <3>1, <3>3 DEF Unedited
  <2> QED
    BY <2>2, <2>5, <2>6
<1>9. ASSUME V!NextRound(u) PROVE Unedited(u)'
  <2>1. SecondRound(u) /\ UNCHANGED <<hashed, missing, answers>>
    BY <1>9 DEF V!NextRound, SecondRound
  <2> QED
    BY <1>2, <2>1
<1>10. CASE \E t \in Uploaders \ {u} : V!Step(t) \/ V!ReadFails(t)
  BY <1>2, <1>3, <1>10 DEF SecondRound
<1> QED
  BY <1>0, <1>4, <1>5, <1>6, <1>7, <1>8, <1>9, <1>10 DEF V!Next, V!Step

(* "ok" is the answer to a commit, and "diverged" needs a missing block in *)
(* the second round, which only a local write can leave.                   *)
LEMMA ReportsStep == VolumeInv /\ [V!Next]_V!vars =>
                       V!OkCommitted' /\ V!DivergesOnlyIfEdited'
<1> SUFFICES ASSUME VolumeInv, [V!Next]_V!vars, NEW u \in Uploaders
             PROVE  /\ pc'[u] = "ok" => u \in written'
                    /\ pc'[u] = "diverged" => edits' > 0
  BY DEF V!OkCommitted, V!DivergesOnlyIfEdited
<1> USE DEF VolumeInv
<1>1. /\ pc[u] = "ok" => u \in written
      /\ pc[u] = "diverged" => edits > 0
  BY DEF V!OkCommitted, V!DivergesOnlyIfEdited
<1>2. edits \in Nat
  BY VolumeConstants DEF V!TypeOK, V!BoundsType
<1>3. CASE pc'[u] \notin {"ok", "diverged"}
  BY <1>3
<1>4. CASE pc'[u] = pc[u] /\ written \subseteq written' /\ edits' \in {edits, edits + 1}
  BY <1>1, <1>2, <1>4
<1>5. CASE UNCHANGED V!vars
  BY <1>4, <1>5 DEF V!vars, V!task, V!server
<1>6. ASSUME NEW t \in Uploaders, V!Hash(t) \/ V!Edit(t) \/ V!ReadFails(t)
                                  \/ V!PutBlock(t) \/ V!NextRound(t)
      PROVE  /\ pc'[u] \in {pc[u], "declare", "put", "error"}
             /\ written' = written /\ edits' \in {edits, edits + 1}
  <2>1. CASE V!Hash(t)
    BY <2>1, WentTo DEF V!Hash, V!server
  <2>2. CASE V!Edit(t)
    BY <2>2 DEF V!Edit, V!task, V!server
  <2>3. CASE V!ReadFails(t)
    BY <2>3, WentTo DEF V!ReadFails, V!server
  <2>4. CASE V!PutBlock(t)
    BY <2>4, WentTo, Retried DEF V!PutBlock, V!server
  <2>5. CASE V!NextRound(t)
    BY <2>5, WentTo DEF V!NextRound, V!server
  <2> QED
    BY <1>6, <2>1, <2>2, <2>3, <2>4, <2>5
<1>7. ASSUME NEW t \in Uploaders, V!VolumePutFiles2(t)
      PROVE  /\ pc'[u] = "ok" => u \in written'
             /\ pc'[u] = "diverged" => edits' > 0
  <2>1. edits' = edits /\ written \subseteq written' /\ pc[t] = "declare"
    BY <1>7 DEF V!VolumePutFiles2, V!server, V!Commit
  <2>2. CASE V!Lost(t)
    BY <1>1, <2>1, <2>2, Retried
  <2>3. CASE V!GoTo(t, "exists")
    BY <1>1, <2>1, <2>3, WentTo
  <2>4. CASE V!Commit(t) /\ V!GoTo(t, V!AfterDeclare(t, {}))
    <3>1. V!AfterDeclare(t, {}) = "ok" /\ t \in written'
      BY <2>4 DEF V!AfterDeclare, V!Commit
    <3> QED
      BY <1>1, <2>1, <2>4, <3>1, WentTo
  <2>5. CASE V!Missing(t) # {} /\ V!GoTo(t, V!AfterDeclare(t, V!Missing(t)))
    <3>1. V!AfterDeclare(t, V!Missing(t)) = IF round[t] = 0 THEN "put" ELSE "diverged"
      BY <2>5 DEF V!AfterDeclare
    <3>2. CASE round[t] = 0
      BY <1>1, <2>1, <2>5, <3>1, <3>2, WentTo
    <3>3. CASE round[t] # 0
      <4>1. SecondRound(t) /\ missing[t] = {}
        BY <2>1, <3>3 DEF SecondRound, Rounds, V!TypeOK
      <4>2. edits # 0
        BY <2>5, <4>1 DEF Faithful, Unedited
      <4> QED
        BY <1>1, <1>2, <2>1, <2>5, <3>1, <3>3, <4>2, WentTo
    <3> QED
      BY <3>2, <3>3
  <2> QED
    BY <1>7, <2>2, <2>3, <2>4, <2>5 DEF V!VolumePutFiles2
<1> QED
  BY <1>3, <1>4, <1>5, <1>6, <1>7 DEF V!Next, V!Step

LEMMA VolumeStep == VolumeInv /\ [V!Next]_V!vars => VolumeInv'
BY VolumeTypes, RoundsStep, ShapedStep, FaithfulStep, ReportsStep
   DEF VolumeInv

(* Without force the volume changes by a commit that agrees with all that  *)
(* is there.                                                               *)
LEMMA VolumeKeeps == VolumeInv /\ [V!Next]_V!vars => V!ReplacesOnlyByForce
<1> SUFFICES ASSUME VolumeInv, [V!Next]_V!vars,
                    NEW f \in Files, volume[f] # None, volume'[f] # volume[f]
             PROVE  \E t \in Uploaders : force[t] /\ volume' = hashed[t]
  BY DEF V!ReplacesOnlyByForce
<1>1. PICK t \in Uploaders : V!MayCommit(t) /\ V!Commit(t)
  BY DEF V!Next, V!Step, V!vars, V!server, V!Hash, V!Edit, V!ReadFails,
         V!VolumePutFiles2, V!PutBlock, V!NextRound
<1>2. volume' = hashed[t] /\ f \in V!There
  BY <1>1 DEF V!Commit, V!There
<1>3. ~V!Disallow(t)
  BY <1>1, <1>2 DEF V!MayCommit
<1> QED
  BY <1>2, <1>3 DEF V!Disallow

-------------------------------------------------------------------------------
(* The queue: whatever went through it or is still in it, one after the    *)
(* other.  In there a batch is in order, and no item has more copies than  *)
(* its put has had tries that the server may have answered.                *)
stream == log \o queue
Positions(s, i) == {m \in DOMAIN s : s[m] = i}
Tries(p) == CASE pc[p] \in {"idle", "lock"} -> 0
              [] pc[p] = "rpc" -> attempt[p] - 1
              [] pc[p] \notin {"idle", "lock", "rpc"} -> MaxAttempts
InOrder(s) ==
  \A p \in Producers : \A i, j \in DOMAIN Batch[p] :
    i < j => \A m \in DOMAIN s : s[m] = Batch[p][j] =>
               \E l \in 1 .. m - 1 : s[l] = Batch[p][i]
Copies == \A p \in Producers : \A i \in Q!Range(Batch[p]) :
            Cardinality(Positions(stream, i)) <= Tries(p)
QueueInv == Q!TypeOK /\ InOrder(stream) /\ Copies /\ Q!HandsOverBatch

(* The cardinality that QueueOps speaks of is that of FiniteSets.          *)
LEMMA SameCardinality == \A S : Q!Cardinality(S) = Cardinality(S)
BY DEF Q!Cardinality, Cardinality

LEMMA Concatenated ==
  ASSUME NEW S, NEW s \in Seq(S), NEW t \in Seq(S)
  PROVE  /\ s \o t \in Seq(S) /\ Len(s \o t) = Len(s) + Len(t)
         /\ DOMAIN s = 1 .. Len(s) /\ DOMAIN (s \o t) = 1 .. Len(s) + Len(t)
         /\ \A m \in 1 .. Len(s) : (s \o t)[m] = s[m]
         /\ \A m \in 1 .. Len(t) : (s \o t)[Len(s) + m] = t[m]
OBVIOUS

LEMMA SameSeq ==
  ASSUME NEW S, NEW s \in Seq(S), NEW t \in Seq(S), Len(s) = Len(t),
         \A m \in 1 .. Len(s) : s[m] = t[m]
  PROVE  s = t
OBVIOUS

(* The sequences of items, under a name that the provers need not expand.  *)
ItemSeqs == Seq(Q!Items)

LEMMA Grouped == \A l, h, r \in ItemSeqs : (l \o h) \o r = l \o (h \o r)
<1> DEFINE S == Q!Items
<1> SUFFICES ASSUME NEW l \in Seq(S), NEW h \in Seq(S), NEW r \in Seq(S)
             PROVE  (l \o h) \o r = l \o (h \o r)
  BY DEF ItemSeqs
<1> HIDE DEF S
<1>1. /\ l \o h \in Seq(S) /\ Len(l \o h) = Len(l) + Len(h)
      /\ \A m \in 1 .. Len(l) : (l \o h)[m] = l[m]
      /\ \A m \in 1 .. Len(h) : (l \o h)[Len(l) + m] = h[m]
  BY Concatenated
<1>2. /\ h \o r \in Seq(S) /\ Len(h \o r) = Len(h) + Len(r)
      /\ \A m \in 1 .. Len(h) : (h \o r)[m] = h[m]
      /\ \A m \in 1 .. Len(r) : (h \o r)[Len(h) + m] = r[m]
  BY Concatenated
<1>3. Len(l) \in Nat /\ Len(h) \in Nat /\ Len(r) \in Nat
  OBVIOUS
<1> DEFINE lh == l \o h
           hr == h \o r
           N == Len(l) + Len(h) + Len(r)
<1> HIDE DEF lh, hr
<1>4. /\ lh \o r \in Seq(S) /\ Len(lh \o r) = N
      /\ \A m \in 1 .. Len(l) + Len(h) : (lh \o r)[m] = lh[m]
      /\ \A m \in 1 .. Len(r) : (lh \o r)[Len(l) + Len(h) + m] = r[m]
  BY <1>1, <1>3, Concatenated DEF lh
<1>5. /\ l \o hr \in Seq(S) /\ Len(l \o hr) = N
      /\ \A m \in 1 .. Len(l) : (l \o hr)[m] = l[m]
      /\ \A m \in 1 .. Len(h) + Len(r) : (l \o hr)[Len(l) + m] = hr[m]
  BY <1>2, <1>3, Concatenated DEF hr
<1>6. ASSUME NEW m \in 1 .. N PROVE (lh \o r)[m] = (l \o hr)[m]
  <2>1. CASE m <= Len(l)
    BY <1>1, <1>3, <1>4, <1>5, <2>1 DEF lh
  <2>2. CASE Len(l) < m /\ m <= Len(l) + Len(h)
    <3>1. PICK o \in 1 .. Len(h) : m = Len(l) + o
      <4>1. m - Len(l) \in 1 .. Len(h) /\ m = Len(l) + (m - Len(l))
        BY <1>3, <2>2
      <4> QED
        BY <4>1
    <3>2. (lh \o r)[m] = h[o]
      BY <1>1, <1>3, <1>4, <2>2, <3>1 DEF lh
    <3>3. (l \o hr)[m] = h[o]
      BY <1>2, <1>3, <1>5, <3>1 DEF hr
    <3> QED
      BY <3>2, <3>3
  <2>3. CASE Len(l) + Len(h) < m
    <3>1. PICK o \in 1 .. Len(r) : m = Len(l) + Len(h) + o
      <4>1. /\ m - (Len(l) + Len(h)) \in 1 .. Len(r)
            /\ m = Len(l) + Len(h) + (m - (Len(l) + Len(h)))
        BY <1>3, <2>3
      <4> QED
        BY <4>1
    <3>2. (lh \o r)[m] = r[o]
      BY <1>4, <3>1
    <3>3. Len(h) + o \in 1 .. Len(h) + Len(r) /\ m = Len(l) + (Len(h) + o)
      BY <1>3, <3>1
    <3>4. (l \o hr)[m] = r[o]
      BY <1>2, <1>5, <3>3 DEF hr
    <3> QED
      BY <3>2, <3>4
  <2>4. m <= Len(l) \/ (Len(l) < m /\ m <= Len(l) + Len(h)) \/ Len(l) + Len(h) < m
    BY <1>3
  <2> QED
    BY <2>1, <2>2, <2>3, <2>4
<1>7. lh \o r = l \o hr
  <2> DEFINE x == lh \o r
             y == l \o hr
  <2>1. x \in Seq(S) /\ y \in Seq(S) /\ Len(x) = Len(y)
    BY <1>4, <1>5
  <2>2. \A m \in 1 .. Len(x) : x[m] = y[m]
    BY <1>4, <1>6
  <2> HIDE DEF x, y
  <2>3. x = y
    BY <2>1, <2>2, SameSeq
  <2> QED
    BY <2>3 DEF x, y
<1> QED
  BY <1>7 DEF lh, hr

(* A get moves items from the queue to the log: the stream stays.          *)
LEMMA Moved ==
  \A l, q \in ItemSeqs : \A k \in 1 .. Len(q) :
    /\ SubSeq(q, 1, k) \in ItemSeqs
    /\ SubSeq(q, 1, k) # <<>>
    /\ SubSeq(q, k + 1, Len(q)) \in ItemSeqs
    /\ (l \o SubSeq(q, 1, k)) \o SubSeq(q, k + 1, Len(q)) = l \o q
<1> DEFINE S == Q!Items
<1> SUFFICES ASSUME NEW l \in Seq(S), NEW q \in Seq(S), NEW k \in 1 .. Len(q)
             PROVE  /\ SubSeq(q, 1, k) \in Seq(S)
                    /\ SubSeq(q, 1, k) # <<>>
                    /\ SubSeq(q, k + 1, Len(q)) \in Seq(S)
                    /\ (l \o SubSeq(q, 1, k)) \o SubSeq(q, k + 1, Len(q)) = l \o q
  BY DEF ItemSeqs
<1> HIDE DEF S
<1> DEFINE h == SubSeq(q, 1, k)
           r == SubSeq(q, k + 1, Len(q))
<1>1. /\ h \in Seq(S) /\ Len(h) = k /\ \A m \in 1 .. k : h[m] = q[m]
  OBVIOUS
<1>2. /\ r \in Seq(S) /\ Len(r) = Len(q) - k
      /\ \A m \in 1 .. Len(q) - k : r[m] = q[k + m]
  OBVIOUS
<1>3. Len(q) \in Nat /\ k \in Nat /\ k <= Len(q)
  OBVIOUS
<1> HIDE DEF h, r
<1>4. h \o r = q
  <2>1. h \o r \in Seq(S) /\ Len(h \o r) = Len(q)
    <3>1. h \o r \in Seq(S) /\ Len(h \o r) = Len(h) + Len(r)
      BY <1>1, <1>2, Concatenated
    <3> QED
      BY <1>1, <1>2, <1>3, <3>1
  <2>2. ASSUME NEW m \in 1 .. Len(q) PROVE (h \o r)[m] = q[m]
    <3>1. CASE m <= k
      BY <1>1, <1>2, <1>3, <3>1
    <3>2. CASE m > k
      <4>1. m - k \in 1 .. Len(r) /\ m = Len(h) + (m - k) /\ m = k + (m - k)
        BY <1>1, <1>2, <1>3, <3>2
      <4>2. (h \o r)[m] = r[m - k]
        BY <1>1, <1>2, <4>1, Concatenated
      <4> QED
        BY <1>2, <4>1, <4>2
    <3>3. m <= k \/ m > k
      BY <1>3
    <3> QED
      BY <3>1, <3>2, <3>3
  <2> DEFINE s == h \o r
  <2> HIDE DEF s
  <2>3. s \in Seq(S) /\ Len(s) = Len(q) /\ \A m \in 1 .. Len(q) : s[m] = q[m]
    BY <2>1, <2>2 DEF s
  <2>4. s = q
    BY <2>3, SameSeq
  <2> QED
    BY <2>4 DEF s
<1>5. h # <<>>
  BY <1>1
<1>6. (l \o h) \o r = l \o (h \o r)
  <2>1. l \in ItemSeqs /\ h \in ItemSeqs /\ r \in ItemSeqs
    BY <1>1, <1>2 DEF ItemSeqs, S
  <2> QED
    BY <2>1, Grouped
<1> QED
  BY <1>1, <1>2, <1>4, <1>5, <1>6 DEF h, r

(* The batches: sequences of items, each item at one place of one batch.   *)
LEMMA OneBatch ==
  ASSUME NEW p \in Producers
  PROVE  /\ Batch[p] \in Seq(Q!Items)
         /\ \A k \in DOMAIN Batch[p] : Batch[p][k] \in Q!Range(Batch[p])
         /\ \A k, l \in DOMAIN Batch[p] : Batch[p][k] = Batch[p][l] => k = l
         /\ \A o \in Producers : \A k \in DOMAIN Batch[p] : \A l \in DOMAIN Batch[o] :
              Batch[p][k] = Batch[o][l] => o = p
<1>1. Q!Range(Batch[p]) \subseteq Q!Items
  BY DEF Q!Items
<1>2. Batch[p] \in Seq(Q!Range(Batch[p])) /\ Q!IsInjective(Batch[p])
  BY QueueConstants DEF Q!BatchType
<1>3. \A o \in Producers : o # p => Q!Range(Batch[p]) \cap Q!Range(Batch[o]) = {}
  BY QueueConstants DEF Q!BatchType
<1>4. \A o \in Producers : \A k \in DOMAIN Batch[o] : Batch[o][k] \in Q!Range(Batch[o])
  BY DEF Q!Range
<1>5. Batch[p] \in Seq(Q!Items)
  BY <1>1, <1>2
<1> QED
  BY <1>2, <1>3, <1>4, <1>5 DEF Q!IsInjective

(* What is left of a stream is in order, with no more copies.              *)
LEMMA Prefix ==
  ASSUME NEW s \in Seq(Q!Items), NEW t \in Seq(Q!Items)
  PROVE  /\ InOrder(s \o t) => InOrder(s)
         /\ \A i : /\ Positions(s, i) \subseteq Positions(s \o t, i)
                   /\ IsFiniteSet(Positions(s, i))
                   /\ Cardinality(Positions(s, i)) \in Nat
                   /\ Cardinality(Positions(s, i)) <= Cardinality(Positions(s \o t, i))
<1>1. InOrder(s \o t) => InOrder(s)
  <2> SUFFICES ASSUME InOrder(s \o t),
                      NEW p \in Producers, NEW i \in DOMAIN Batch[p],
                      NEW j \in DOMAIN Batch[p], i < j,
                      NEW m \in DOMAIN s, s[m] = Batch[p][j]
               PROVE  \E l \in 1 .. m - 1 : s[l] = Batch[p][i]
    BY DEF InOrder
  <2>1. m \in DOMAIN (s \o t) /\ (s \o t)[m] = Batch[p][j]
    BY Concatenated
  <2>2. PICK l \in 1 .. m - 1 : (s \o t)[l] = Batch[p][i]
    BY <2>1 DEF InOrder
  <2> QED
    BY <2>2, Concatenated
<1>2. ASSUME NEW i, NEW u \in Seq(Q!Items)
      PROVE  IsFiniteSet(Positions(u, i)) /\ Cardinality(Positions(u, i)) \in Nat
  <2>1. Positions(u, i) \subseteq 1 .. Len(u) /\ Len(u) \in Nat
    BY Concatenated DEF Positions
  <2>2. IsFiniteSet(1 .. Len(u))
    BY <2>1, FS_Interval
  <2>3. IsFiniteSet(Positions(u, i))
    BY <2>1, <2>2, FS_Subset
  <2> QED
    BY <2>3, FS_CardinalityType
<1>3. ASSUME NEW i
      PROVE  /\ Positions(s, i) \subseteq Positions(s \o t, i)
             /\ Cardinality(Positions(s, i)) <= Cardinality(Positions(s \o t, i))
  <2>1. Positions(s, i) \subseteq Positions(s \o t, i)
    BY Concatenated DEF Positions
  <2>2. IsFiniteSet(Positions(s \o t, i))
    BY <1>2, Concatenated
  <2> QED
    BY <2>1, <2>2, FS_Subset
<1> QED
  BY <1>1, <1>2, <1>3

(* A put adds its batch in order, one copy of each of its items.           *)
LEMMA BatchAdded ==
  ASSUME NEW s \in Seq(Q!Items), NEW p \in Producers
  PROVE  /\ InOrder(s) => InOrder(s \o Batch[p])
         /\ \A o \in Producers : \A i \in Q!Range(Batch[o]) :
              Cardinality(Positions(s \o Batch[p], i))
                = Cardinality(Positions(s, i)) + (IF o = p THEN 1 ELSE 0)
<1> DEFINE B == Batch[p]
           L == Len(s)
<1>1. /\ B \in Seq(Q!Items) /\ s \o B \in Seq(Q!Items) /\ L \in Nat
      /\ DOMAIN s = 1 .. L /\ DOMAIN B = 1 .. Len(B)
      /\ DOMAIN (s \o B) = 1 .. L + Len(B)
      /\ \A m \in 1 .. L : (s \o B)[m] = s[m]
      /\ \A m \in 1 .. Len(B) : (s \o B)[L + m] = B[m]
  BY OneBatch, Concatenated
<1> HIDE DEF L
<1>4. ASSUME NEW m \in DOMAIN (s \o B), m \notin DOMAIN s
      PROVE  \E k \in 1 .. Len(B) : m = L + k
  <2>1. m - L \in 1 .. Len(B) /\ m = L + (m - L)
    BY <1>1, <1>4
  <2> QED
    BY <2>1
<1>2. ASSUME InOrder(s), NEW o \in Producers, NEW i \in DOMAIN Batch[o],
             NEW j \in DOMAIN Batch[o], i < j,
             NEW m \in DOMAIN (s \o B), (s \o B)[m] = Batch[o][j]
      PROVE  \E l \in 1 .. m - 1 : (s \o B)[l] = Batch[o][i]
  <2>1. CASE m <= L
    <3>1. m \in DOMAIN s /\ s[m] = Batch[o][j]
      BY <1>1, <1>2, <2>1
    <3>2. PICK l \in 1 .. m - 1 : s[l] = Batch[o][i]
      BY <1>2, <3>1 DEF InOrder
    <3> QED
      BY <1>1, <2>1, <3>2
  <2>2. CASE m > L
    <3>1. PICK k \in 1 .. Len(B) : m = L + k
      BY <1>1, <1>4, <2>2
    <3>2. B[k] = Batch[o][j]
      BY <1>1, <1>2, <3>1
    <3>3. o = p /\ k = j
      BY <1>1, <3>2, OneBatch
    <3>4. i \in 1 .. Len(B) /\ L + i \in 1 .. m - 1
      BY <1>1, <1>2, <3>1, <3>3
    <3>5. (s \o B)[L + i] = Batch[o][i]
      BY <1>1, <3>3, <3>4
    <3> QED
      BY <3>4, <3>5
  <2> QED
    BY <1>1, <2>1, <2>2
<1>3. ASSUME NEW o \in Producers, NEW i \in Q!Range(Batch[o])
      PROVE  Cardinality(Positions(s \o B, i))
               = Cardinality(Positions(s, i)) + (IF o = p THEN 1 ELSE 0)
  <2>1. PICK j \in DOMAIN Batch[o] : i = Batch[o][j]
    BY DEF Q!Range
  <2>2. \A k \in 1 .. Len(B) : B[k] = i <=> (o = p /\ k = j)
    BY <1>1, <2>1, OneBatch
  <2>3. IsFiniteSet(Positions(s, i)) /\ Cardinality(Positions(s, i)) \in Nat
    BY <1>1, Prefix
  <2>4. CASE o = p
    <3>1. L + j \in DOMAIN (s \o B) /\ L + j \notin DOMAIN s /\ (s \o B)[L + j] = i
      BY <1>1, <2>1, <2>4
    <3>2. Positions(s \o B, i) = Positions(s, i) \cup {L + j}
      <4>1. ASSUME NEW m \in DOMAIN (s \o B), (s \o B)[m] = i, m \notin DOMAIN s
            PROVE  m = L + j
        <5>1. PICK k \in 1 .. Len(B) : m = L + k
          BY <1>4, <4>1
        <5> QED
          BY <1>1, <2>2, <4>1, <5>1
      <4> QED
        BY <1>1, <3>1, <4>1 DEF Positions
    <3>3. L + j \notin Positions(s, i)
      BY <3>1 DEF Positions
    <3> QED
      BY <2>3, <2>4, <3>2, <3>3, FS_AddElement
  <2>5. CASE o # p
    <3>1. Positions(s \o B, i) = Positions(s, i)
      <4>1. ASSUME NEW m \in DOMAIN (s \o B), m \notin DOMAIN s
            PROVE  (s \o B)[m] # i
        <5>1. PICK k \in 1 .. Len(B) : m = L + k
          BY <1>4, <4>1
        <5> QED
          BY <1>1, <2>2, <2>5, <5>1
      <4> QED
        BY <1>1, <4>1 DEF Positions
    <3> QED
      BY <2>3, <2>5, <3>1
  <2> QED
    BY <2>4, <2>5
<1> QED
  BY <1>2, <1>3 DEF InOrder

LEMMA QueueStarts == Q!Init => QueueInv
<1> SUFFICES ASSUME Q!Init PROVE QueueInv
  OBVIOUS
<1> USE QueueConstants
    DEF Q!Init, Q!BoundsType, Q!HandleType, Q!Ended, Q!Ok, Q!Tasks
<1>1. Q!TypeOK
  <2>1. <<>> \in Seq(Q!Items)
    OBVIOUS
  <2> QED
    BY <2>1 DEF Q!TypeOK
<1>2. stream = <<>> /\ DOMAIN stream = {}
  BY DEF stream
<1>3. InOrder(stream)
  BY <1>2 DEF InOrder
<1>4. Copies
  <2>1. \A i : Positions(stream, i) = {}
    BY <1>2 DEF Positions
  <2>2. Cardinality({}) = 0
    BY FS_EmptySet
  <2>3. \A p \in Producers : Tries(p) = 0
    BY DEF Tries
  <2>4. \A i : Cardinality(Positions(stream, i)) = 0
    BY <2>1, <2>2
  <2> QED
    BY <2>3, <2>4 DEF Copies
<1>5. Q!HandsOverBatch
  BY DEF Q!HandsOverBatch
<1> QED
  BY <1>1, <1>3, <1>4, <1>5 DEF QueueInv

(* Every step of a queue call keeps the types.                             *)
LEMMA QueueTypes == Q!TypeOK /\ [Q!Next]_Q!vars => Q!TypeOK'
<1> SUFFICES ASSUME Q!TypeOK, [Q!Next]_Q!vars PROVE Q!TypeOK'
  OBVIOUS
<1> USE QueueConstants
    DEF Q!TypeOK, Q!Ended, Q!Ok, Q!HandleType, Q!BoundsType, Q!history
<1>0. CASE UNCHANGED Q!vars
  BY <1>0 DEF Q!vars, Q!call
<1>1. /\ \A p \in Producers : p \in Q!Tasks
      /\ \A c \in Consumers : c \in Q!Tasks
      /\ \A x \in Cleaners : x \in Q!Tasks
  BY DEF Q!Tasks
<1>2. ASSUME NEW p \in Producers, Q!CallPut(p) PROVE Q!TypeOK'
  BY <1>1, <1>2 DEF Q!CallPut
<1>3. ASSUME NEW x \in Cleaners, Q!CallClear(x) PROVE Q!TypeOK'
  BY <1>1, <1>3 DEF Q!CallClear
<1>4. ASSUME NEW c \in Consumers, Q!CallGet(c) PROVE Q!TypeOK'
  <2>1. <<>> \in Seq(Q!Items)
    OBVIOUS
  <2> QED
    BY <1>1, <1>4, <2>1 DEF Q!CallGet
<1>5. ASSUME NEW c \in Consumers, Q!Elapse(c) PROVE Q!TypeOK'
  BY <1>1, <1>5 DEF Q!Elapse
<1>6. ASSUME NEW t \in Q!Tasks, Q!Lock(t) PROVE Q!TypeOK'
  <2>1. PICK zero \in BOOLEAN : late' = [late EXCEPT ![t] = zero]
    BY <1>6 DEF Q!Lock
  <2> QED
    BY <1>6, <2>1 DEF Q!Lock
<1> DEFINE CallOK == /\ pc \in [Q!Tasks -> {"idle", "lock", "rpc"} \cup Q!Ended]
                     /\ attempt \in [Q!Tasks -> 1 .. MaxAttempts]
                     /\ n \in [Q!Tasks -> 1 .. MaxValues]
                     /\ late \in [Q!Tasks -> BOOLEAN]
                     /\ client \in [QueueHandles -> Q!Tasks \cup {None}]
<1>7. ASSUME NEW t \in Q!Tasks, NEW o \in Q!Ended, Q!Return(t, o) PROVE CallOK'
  BY <1>7 DEF Q!Return
<1>8. ASSUME NEW t \in Q!Tasks, Q!Lost(t) PROVE CallOK'
  <2>1. CASE /\ attempt[t] < MaxAttempts
             /\ attempt' = [attempt EXCEPT ![t] = @ + 1]
             /\ UNCHANGED <<pc, n, late, client>>
    BY <2>1
  <2>2. CASE Q!Return(t, "failed")
    BY <1>7, <2>2
  <2> QED
    BY <1>8, <2>1, <2>2 DEF Q!Lost
<1>9. ASSUME NEW t \in Q!Tasks, Q!LostRequest(t) PROVE Q!TypeOK'
  BY <1>8, <1>9 DEF Q!LostRequest
<1>10. ASSUME NEW p \in Producers, Q!QueuePut(p) PROVE Q!TypeOK'
  <2>1. Batch[p] \in Seq(Q!Items)
    BY OneBatch
  <2>2. queue' \in Seq(Q!Items)
    BY <1>10, <2>1 DEF Q!QueuePut
  <2>3. CallOK'
    BY <1>1, <1>7, <1>8, <1>10 DEF Q!QueuePut
  <2> QED
    BY <1>10, <2>2, <2>3 DEF Q!QueuePut
<1>11. ASSUME NEW x \in Cleaners, Q!QueueClear(x) PROVE Q!TypeOK'
  <2>1. queue' \in Seq(Q!Items)
    BY <1>11 DEF Q!QueueClear
  <2>2. CallOK'
    BY <1>1, <1>7, <1>8, <1>11 DEF Q!QueueClear
  <2> QED
    BY <1>11, <2>1, <2>2 DEF Q!QueueClear
<1>12. ASSUME NEW c \in Consumers, Q!QueueGet(c) PROVE Q!TypeOK'
  <2>1. PICK k \in 1 .. n[c] :
          /\ k <= Len(queue)
          /\ queue' = SubSeq(queue, k + 1, Len(queue))
          /\ took' = [took EXCEPT ![c] = @ \o SubSeq(queue, 1, k)]
          /\ log' = log \o SubSeq(queue, 1, k)
          /\ \/ Q!Lost(c) /\ UNCHANGED got
             \/ Q!Deliver(c, SubSeq(queue, 1, k))
    BY <1>12 DEF Q!QueueGet
  <2>2. /\ SubSeq(queue, 1, k) \in Seq(Q!Items)
        /\ queue' \in Seq(Q!Items)
    <3>1. k \in 1 .. Len(queue) /\ queue \in ItemSeqs
      BY <1>1, <2>1 DEF ItemSeqs
    <3>2. SubSeq(queue, 1, k) \in ItemSeqs /\ SubSeq(queue, k + 1, Len(queue)) \in ItemSeqs
      BY <3>1, Moved
    <3> QED
      BY <2>1, <3>2 DEF ItemSeqs
  <2> HIDE DEF Q!BoundsType
  <2> DEFINE values == SubSeq(queue, 1, k)
  <2> HIDE DEF values
  <2>3. CallOK' /\ got' \in [Consumers -> Seq(Q!Items)]
    <3>1. CASE Q!Lost(c) /\ UNCHANGED got
      BY <1>1, <1>8, <3>1
    <3>2. CASE Q!Deliver(c, values)
      <4>1. values \in Seq(Q!Items) /\ got \in [Consumers -> Seq(Q!Items)]
        BY <2>2 DEF values
      <4>2. got' \in [Consumers -> Seq(Q!Items)]
        BY <3>2, <4>1 DEF Q!Deliver
      <4>3. PICK o \in {"codec_error", "got"} : Q!Return(c, o)
        BY <3>2 DEF Q!Deliver
      <4> QED
        BY <1>1, <1>7, <4>2, <4>3
    <3> QED
      BY <2>1, <3>1, <3>2 DEF values
  <2>4. took' \in [Consumers -> Seq(Q!Items)] /\ log' \in Seq(Q!Items)
    BY <2>1, <2>2
  <2> QED
    BY <2>2, <2>3, <2>4
<1>13. ASSUME NEW c \in Consumers, Q!WindowCloses(c) PROVE Q!TypeOK'
  <2>1. CASE Q!Return(c, "none")
    BY <1>1, <1>7, <1>13, <2>1 DEF Q!WindowCloses
  <2>2. CASE /\ attempt' = [attempt EXCEPT ![c] = 1]
             /\ UNCHANGED <<pc, n, late, client>>
    BY <1>1, <1>13, <2>2 DEF Q!WindowCloses
  <2> QED
    BY <1>13, <2>1, <2>2 DEF Q!WindowCloses
<1> QED
  BY <1>0, <1>2, <1>3, <1>4, <1>5, <1>6, <1>9, <1>10, <1>11, <1>12, <1>13
     DEF Q!Next, Q!Answer

(* What a step does to the stream: nothing, unless it is a put or a clear. *)
LEMMA StreamOf ==
  ASSUME Q!TypeOK, [Q!Next]_Q!vars
  PROVE  \/ stream' = stream
         \/ \E p \in Producers : Q!QueuePut(p) /\ stream' = stream \o Batch[p]
         \/ stream' = log
<1>1. CASE UNCHANGED <<queue, log>>
  BY <1>1 DEF stream
<1>2. ASSUME NEW p \in Producers, Q!QueuePut(p)
      PROVE  stream' = stream \o Batch[p]
  <2>1. log \in Seq(Q!Items) /\ queue \in Seq(Q!Items) /\ Batch[p] \in Seq(Q!Items)
    BY OneBatch DEF Q!TypeOK
  <2>2. log' = log /\ queue' = queue \o Batch[p]
    BY <1>2 DEF Q!QueuePut, Q!history
  <2>3. log \o (queue \o Batch[p]) = (log \o queue) \o Batch[p]
    <3> DEFINE A == Batch[p]
    <3> HIDE DEF A
    <3>1. A \in ItemSeqs /\ log \in ItemSeqs /\ queue \in ItemSeqs
      BY <2>1 DEF A, ItemSeqs
    <3>2. (log \o queue) \o A = log \o (queue \o A)
      BY <3>1, Grouped
    <3> QED
      BY <3>2 DEF A
  <2> QED
    BY <2>2, <2>3 DEF stream
<1>3. ASSUME NEW x \in Cleaners, Q!QueueClear(x) PROVE stream' = log
  <2>1. log' = log /\ queue' = <<>>
    BY <1>3 DEF Q!QueueClear, Q!history
  <2>2. log \o <<>> = log
    BY DEF Q!TypeOK
  <2> QED
    BY <2>1, <2>2 DEF stream
<1>4. ASSUME NEW c \in Consumers, Q!QueueGet(c) PROVE stream' = stream
  <2>1. PICK k \in 1 .. n[c] :
          /\ k <= Len(queue)
          /\ queue' = SubSeq(queue, k + 1, Len(queue))
          /\ log' = log \o SubSeq(queue, 1, k)
    BY <1>4 DEF Q!QueueGet
  <2>2. k \in 1 .. Len(queue) /\ log \in Seq(Q!Items) /\ queue \in Seq(Q!Items)
    BY <2>1, QueueConstants DEF Q!TypeOK, Q!Tasks, Q!BoundsType
  <2>3. (log \o SubSeq(queue, 1, k)) \o SubSeq(queue, k + 1, Len(queue)) = log \o queue
    <3>1. log \in ItemSeqs /\ queue \in ItemSeqs
      BY <2>2 DEF ItemSeqs
    <3> QED
      BY <2>2, <3>1, Moved
  <2> QED
    BY <2>1, <2>3 DEF stream
<1> QED
  BY <1>1, <1>2, <1>3, <1>4
     DEF Q!Next, Q!Answer, Q!vars, Q!history, Q!CallPut, Q!CallClear, Q!CallGet,
         Q!Elapse, Q!Lock, Q!LostRequest, Q!WindowCloses

(* No step takes back a try of a put, and an answer of the server uses one *)
(* up, whether it arrives or not.                                          *)
LEMMA TriesGrow ==
  ASSUME Q!TypeOK, [Q!Next]_Q!vars, NEW p \in Producers
  PROVE  /\ Tries(p) \in Nat /\ Tries(p)' \in Nat
         /\ Tries(p) <= Tries(p)'
         /\ Q!QueuePut(p) => Tries(p) + 1 <= Tries(p)'
<1> USE QueueConstants DEF Q!BoundsType, Q!RolesType
<1>0. /\ p \in Q!Tasks /\ \A c \in Consumers : c # p /\ c \in Q!Tasks
      /\ \A x \in Cleaners : x # p /\ x \in Q!Tasks
      /\ MaxAttempts \in Nat \ {0}
  BY DEF Q!Tasks
<1>1. /\ pc \in [Q!Tasks -> {"idle", "lock", "rpc"} \cup Q!Ended]
      /\ attempt \in [Q!Tasks -> 1 .. MaxAttempts]
  BY DEF Q!TypeOK
<1>2. Q!TypeOK'
  BY QueueTypes
<1>3. attempt[p] \in 1 .. MaxAttempts /\ attempt'[p] \in 1 .. MaxAttempts
  BY <1>0, <1>1, <1>2 DEF Q!TypeOK
<1>4. Tries(p) \in Nat /\ Tries(p)' \in Nat
  BY <1>0, <1>3 DEF Tries
<1>6. ASSUME NEW t \in Q!Tasks, Q!Lost(t)
      PROVE  /\ t # p => pc'[p] = pc[p] /\ attempt'[p] = attempt[p]
             /\ t = p /\ pc[p] = "rpc" => Tries(p) + 1 <= Tries(p)'
  <2>1. CASE t # p
    BY <1>0, <1>1, <1>6, <2>1 DEF Q!Lost, Q!Return
  <2>2. CASE t = p /\ pc[p] = "rpc" /\ pc' = pc
                   /\ attempt' = [attempt EXCEPT ![t] = @ + 1]
    BY <1>0, <1>1, <1>3, <2>2 DEF Tries
  <2>3. CASE t = p /\ pc[p] = "rpc" /\ Q!Return(t, "failed")
    <3>1. pc'[p] = "failed"
      BY <1>0, <1>1, <2>3 DEF Q!Return
    <3> QED
      BY <1>0, <1>3, <2>3, <3>1 DEF Tries
  <2> QED
    BY <1>6, <2>1, <2>2, <2>3 DEF Q!Lost
<1>7. ASSUME NEW t \in Q!Tasks, NEW o, Q!Return(t, o)
      PROVE  /\ t # p => pc'[p] = pc[p] /\ attempt'[p] = attempt[p]
             /\ t = p => pc'[p] = o
  BY <1>0, <1>1, <1>7 DEF Q!Return
<1>8. ASSUME NEW t \in Producers, Q!QueuePut(t)
      PROVE  /\ t # p => pc'[p] = pc[p] /\ attempt'[p] = attempt[p]
             /\ t = p => Tries(p) + 1 <= Tries(p)'
  <2>1. t \in Q!Tasks /\ pc[t] = "rpc"
    BY <1>8 DEF Q!QueuePut, Q!Tasks
  <2>2. CASE Q!Lost(t)
    BY <1>6, <2>1, <2>2
  <2>3. CASE Q!Return(t, "done")
    <3>1. /\ t # p => pc'[p] = pc[p] /\ attempt'[p] = attempt[p]
          /\ t = p => pc'[p] = "done"
      BY <1>7, <2>1, <2>3
    <3>2. t = p => Tries(p)' = MaxAttempts /\ Tries(p) = attempt[p] - 1
      BY <2>1, <3>1 DEF Tries
    <3> QED
      BY <1>0, <1>3, <3>1, <3>2
  <2> QED
    BY <1>8, <2>2, <2>3 DEF Q!QueuePut
<1>9. ASSUME NEW t \in Q!Tasks, t # p, Q!Answer(t)
      PROVE  pc'[p] = pc[p] /\ attempt'[p] = attempt[p]
  <2>1. CASE t \in Producers /\ Q!QueuePut(t)
    BY <1>8, <1>9, <2>1
  <2>2. CASE Q!QueueClear(t)
    BY <1>6, <1>7, <1>9, <2>2 DEF Q!QueueClear
  <2>3. CASE Q!QueueGet(t)
    BY <1>6, <1>7, <1>9, <2>3 DEF Q!QueueGet, Q!Deliver
  <2>4. CASE Q!WindowCloses(t)
    <3>1. CASE Q!Return(t, "none")
      BY <1>7, <1>9, <3>1
    <3>2. CASE attempt' = [attempt EXCEPT ![t] = 1] /\ pc' = pc
      BY <1>0, <1>1, <1>9, <3>2
    <3> QED
      BY <2>4, <3>1, <3>2 DEF Q!WindowCloses
  <2> QED
    BY <1>9, <2>1, <2>2, <2>3, <2>4 DEF Q!Answer
<1>10. CASE Q!CallPut(p) \/ Q!Lock(p)
  <2>1. Tries(p) = 0 /\ ~Q!QueuePut(p)
    BY <1>10 DEF Tries, Q!CallPut, Q!Lock, Q!QueuePut
  <2> QED
    BY <1>4, <2>1
<1>11. CASE Q!LostRequest(p) /\ ~Q!QueuePut(p)
  BY <1>0, <1>4, <1>6, <1>11 DEF Q!LostRequest
<1>12. CASE pc'[p] = pc[p] /\ attempt'[p] = attempt[p]
  <2>1. Tries(p)' = Tries(p)
    BY <1>12 DEF Tries
  <2> QED
    BY <1>4, <1>8, <2>1
<1>13. CASE ~(Q!CallPut(p) \/ Q!Lock(p) \/ Q!LostRequest(p) \/ Q!QueuePut(p))
  <2>1. ASSUME NEW t \in Q!Tasks, t # p, Q!LostRequest(t) \/ Q!Lock(t)
        PROVE  pc'[p] = pc[p] /\ attempt'[p] = attempt[p]
    BY <1>0, <1>1, <1>6, <2>1 DEF Q!LostRequest, Q!Lock
  <2>2. ASSUME NEW t \in Q!Tasks, t # p,
               Q!CallPut(t) \/ Q!CallClear(t) \/ Q!CallGet(t) \/ Q!Elapse(t)
        PROVE  pc'[p] = pc[p] /\ attempt'[p] = attempt[p]
    BY <1>0, <1>1, <2>2 DEF Q!CallPut, Q!CallClear, Q!CallGet, Q!Elapse
  <2>3. ~Q!Answer(p)
    BY <1>0, <1>13 DEF Q!Answer
  <2>4. \A t \in Producers : t \in Q!Tasks
    BY DEF Q!Tasks
  <2>5. CASE UNCHANGED Q!vars
    BY <1>12, <2>5 DEF Q!vars, Q!call
  <2>6. CASE Q!Next
    <3>1. \E t \in Q!Tasks \ {p} :
            \/ Q!LostRequest(t) \/ Q!Lock(t) \/ Q!Answer(t)
            \/ Q!CallPut(t) \/ Q!CallClear(t) \/ Q!CallGet(t) \/ Q!Elapse(t)
      BY <1>0, <1>13, <2>3, <2>4, <2>6 DEF Q!Next
    <3> QED
      BY <1>9, <1>12, <2>1, <2>2, <3>1
  <2> QED
    BY <2>5, <2>6
<1> QED
  BY <1>4, <1>8, <1>10, <1>11, <1>13

(* The stream stays in order, and a copy costs a try.                      *)
LEMMA StreamStep ==
  Q!TypeOK /\ InOrder(stream) /\ Copies /\ [Q!Next]_Q!vars =>
    InOrder(stream)' /\ Copies'
<1> SUFFICES ASSUME Q!TypeOK, InOrder(stream), Copies, [Q!Next]_Q!vars
             PROVE  InOrder(stream') /\ Copies'
  BY DEF InOrder
<1>1. log \in Seq(Q!Items) /\ queue \in Seq(Q!Items) /\ stream \in Seq(Q!Items)
  BY DEF Q!TypeOK, stream
<1>2. \A p \in Producers : /\ Tries(p) \in Nat /\ Tries(p)' \in Nat
                           /\ Tries(p) <= Tries(p)'
                           /\ Q!QueuePut(p) => Tries(p) + 1 <= Tries(p)'
  BY TriesGrow
<1>3. ASSUME NEW p \in Producers, NEW i \in Q!Range(Batch[p])
      PROVE  /\ Cardinality(Positions(stream, i)) <= Tries(p)
             /\ Cardinality(Positions(stream, i)) \in Nat
  BY <1>1, <1>3, Prefix DEF Copies
<1>4. CASE stream' = stream
  <2>1. Copies'
    <3> SUFFICES ASSUME NEW p \in Producers, NEW i \in Q!Range(Batch[p])
                 PROVE  Cardinality(Positions(stream', i)) <= Tries(p)'
      BY DEF Copies, Positions
    <3> QED
      BY <1>2, <1>3, <1>4
  <2> QED
    BY <1>4, <2>1
<1>5. ASSUME NEW b \in Producers, Q!QueuePut(b), stream' = stream \o Batch[b]
      PROVE  InOrder(stream') /\ Copies'
  <2>1. InOrder(stream')
    BY <1>1, <1>5, BatchAdded
  <2>2. Copies'
    <3> SUFFICES ASSUME NEW p \in Producers, NEW i \in Q!Range(Batch[p])
                 PROVE  Cardinality(Positions(stream', i)) <= Tries(p)'
      BY DEF Copies, Positions
    <3>1. Cardinality(Positions(stream', i))
            = Cardinality(Positions(stream, i)) + (IF p = b THEN 1 ELSE 0)
      BY <1>1, <1>5, BatchAdded
    <3> QED
      BY <1>2, <1>3, <1>5, <3>1
  <2> QED
    BY <2>1, <2>2
<1>6. CASE stream' = log
  <2>1. InOrder(stream')
    BY <1>1, <1>6, Prefix DEF stream
  <2>2. Copies'
    <3> SUFFICES ASSUME NEW p \in Producers, NEW i \in Q!Range(Batch[p])
                 PROVE  Cardinality(Positions(stream', i)) <= Tries(p)'
      BY DEF Copies, Positions
    <3>1. /\ Cardinality(Positions(stream', i)) <= Cardinality(Positions(stream, i))
          /\ Cardinality(Positions(stream', i)) \in Nat
      BY <1>1, <1>6, Prefix DEF stream
    <3> QED
      BY <1>2, <1>3, <3>1
  <2> QED
    BY <2>1, <2>2
<1> QED
  BY <1>4, <1>5, <1>6, StreamOf

LEMMA LastPart ==
  ASSUME NEW S, NEW s \in Seq(S), NEW t \in Seq(S)
  PROVE  Q!IsSuffix(t, s \o t)
BY DEF Q!IsSuffix, Q!IsPrefix, Q!Reverse

(* What a get returns is what its last attempt popped.                     *)
LEMMA HandOverStep == Q!TypeOK /\ Q!HandsOverBatch /\ [Q!Next]_Q!vars =>
                        Q!HandsOverBatch'
<1> SUFFICES ASSUME Q!TypeOK, Q!HandsOverBatch, [Q!Next]_Q!vars,
                    NEW g \in Consumers, pc'[g] = "got"
             PROVE  got'[g] # <<>> /\ Q!IsSuffix(got'[g], took'[g])
  BY DEF Q!HandsOverBatch, Q!IsSuffix, Q!IsPrefix, Q!Reverse
<1>1. /\ g \in Q!Tasks
      /\ pc \in [Q!Tasks -> {"idle", "lock", "rpc"} \cup Q!Ended]
      /\ took \in [Consumers -> Seq(Q!Items)]
      /\ got \in [Consumers -> Seq(Q!Items)]
  BY DEF Q!TypeOK, Q!Tasks
<1>2. pc[g] = "got" => got[g] # <<>> /\ Q!IsSuffix(got[g], took[g])
  BY DEF Q!HandsOverBatch
<1>3. CASE pc[g] = "got" /\ got'[g] = got[g] /\ took'[g] = took[g]
  BY <1>2, <1>3
<1>4. ASSUME NEW c \in Consumers, Q!QueueGet(c)
      PROVE  got'[g] # <<>> /\ Q!IsSuffix(got'[g], took'[g])
  <2>1. PICK k \in 1 .. n[c] :
          /\ k <= Len(queue)
          /\ took' = [took EXCEPT ![c] = @ \o SubSeq(queue, 1, k)]
          /\ \/ Q!Lost(c) /\ UNCHANGED got
             \/ Q!Deliver(c, SubSeq(queue, 1, k))
    BY <1>4 DEF Q!QueueGet
  <2>2. /\ c \in Q!Tasks /\ k \in 1 .. Len(queue) /\ queue \in Seq(Q!Items)
    BY <2>1, QueueConstants DEF Q!TypeOK, Q!Tasks, Q!BoundsType
  <2> DEFINE values == SubSeq(queue, 1, k)
  <2>3. values \in Seq(Q!Items) /\ values # <<>>
    <3>1. queue \in ItemSeqs /\ values \in ItemSeqs /\ values # <<>>
      BY <2>2, Moved DEF ItemSeqs
    <3> QED
      BY <3>1 DEF ItemSeqs
  <2> HIDE DEF values
  <2>4. CASE c = g
    <3>1. pc[g] = "rpc"
      BY <1>4, <2>4 DEF Q!QueueGet
    <3>2. Q!Return(g, "got") /\ got' = [got EXCEPT ![g] = values]
      <4>1. ~Q!Lost(g)
        BY <1>1, <3>1 DEF Q!Lost, Q!Return
      <4>2. Q!Deliver(g, values)
        BY <2>1, <2>4, <4>1 DEF values
      <4> QED
        BY <1>1, <4>2 DEF Q!Deliver, Q!Return
    <3>3. got'[g] = values /\ took'[g] = took[g] \o values
      BY <1>1, <2>1, <2>4, <3>2 DEF values
    <3>4. Q!IsSuffix(values, took[g] \o values)
      BY <1>1, <2>3, LastPart
    <3> QED
      BY <2>3, <3>3, <3>4
  <2>5. CASE c # g
    <3>1. took'[g] = took[g]
      BY <1>1, <2>1, <2>5
    <3>2. pc'[g] = pc[g] /\ got'[g] = got[g]
      BY <1>1, <2>1, <2>2, <2>5 DEF Q!Lost, Q!Return, Q!Deliver
    <3> QED
      BY <1>3, <3>1, <3>2
  <2> QED
    BY <2>4, <2>5
<1>5. ASSUME NEW c \in Consumers, Q!CallGet(c)
      PROVE  got'[g] # <<>> /\ Q!IsSuffix(got'[g], took'[g])
  <2>1. c # g
    BY <1>1, <1>5 DEF Q!CallGet
  <2>2. pc'[g] = pc[g] /\ got'[g] = got[g] /\ took'[g] = took[g]
    BY <1>1, <1>5, <2>1 DEF Q!CallGet, Q!Tasks
  <2> QED
    BY <1>3, <2>2
<1>6. CASE UNCHANGED Q!history /\ pc'[g] = pc[g]
  BY <1>3, <1>6 DEF Q!history
<1>7. ASSUME NEW t \in Q!Tasks, Q!Lost(t) \/ \E o \in {"done", "none"} : Q!Return(t, o)
      PROVE  pc'[g] = pc[g]
  BY <1>1, <1>7 DEF Q!Lost, Q!Return
<1>8. ASSUME NEW t \in Q!Tasks,
             \/ Q!CallPut(t) \/ Q!CallClear(t) \/ Q!Elapse(t) \/ Q!Lock(t)
             \/ Q!LostRequest(t) \/ Q!QueuePut(t) \/ Q!QueueClear(t)
             \/ Q!WindowCloses(t)
      PROVE  UNCHANGED Q!history /\ pc'[g] = pc[g]
  <2>1. CASE Q!CallPut(t) \/ Q!CallClear(t) \/ Q!Elapse(t) \/ Q!Lock(t)
    BY <1>1, <2>1 DEF Q!CallPut, Q!CallClear, Q!Elapse, Q!Lock
  <2>2. CASE Q!LostRequest(t) \/ Q!QueuePut(t) \/ Q!QueueClear(t) \/ Q!WindowCloses(t)
    BY <1>7, <2>2 DEF Q!LostRequest, Q!QueuePut, Q!QueueClear, Q!WindowCloses
  <2> QED
    BY <1>8, <2>1, <2>2
<1>9. CASE UNCHANGED Q!vars
  BY <1>6, <1>9 DEF Q!vars, Q!call
<1> QED
  BY <1>4, <1>5, <1>6, <1>8, <1>9 DEF Q!Next, Q!Answer, Q!Tasks

LEMMA QueueStep == QueueInv /\ [Q!Next]_Q!vars => QueueInv'
BY QueueTypes, StreamStep, HandOverStep DEF QueueInv

(* What the log holds, the stream begins with.                             *)
LEMMA QueuePromises == QueueInv => Q!PutOrder /\ Q!CopiesBounded /\ Q!HandsOverBatch
<1> SUFFICES ASSUME QueueInv PROVE Q!PutOrder /\ Q!CopiesBounded
  BY DEF QueueInv
<1>1. log \in Seq(Q!Items) /\ queue \in Seq(Q!Items) /\ stream \in Seq(Q!Items)
  BY DEF QueueInv, Q!TypeOK, stream
<1>2. InOrder(log)
  BY <1>1, Prefix DEF QueueInv, stream
<1>3. ASSUME NEW i \in Q!Items PROVE Cardinality(Positions(log, i)) <= MaxAttempts
  <2>1. PICK p \in Producers : i \in Q!Range(Batch[p])
    BY DEF Q!Items
  <2>2. Cardinality(Positions(stream, i)) <= Tries(p)
    BY <2>1 DEF QueueInv, Copies
  <2>3. /\ Cardinality(Positions(log, i)) \in Nat
        /\ Cardinality(Positions(stream, i)) \in Nat
        /\ Cardinality(Positions(log, i)) <= Cardinality(Positions(stream, i))
    <3>1. <<>> \in Seq(Q!Items) /\ stream \o <<>> = stream
      BY <1>1
    <3>2. Cardinality(Positions(stream, i)) \in Nat
      BY <1>1, <3>1, Prefix
    <3> QED
      BY <1>1, <3>2, Prefix DEF stream
  <2>4. Tries(p) \in Nat /\ Tries(p) <= MaxAttempts
    <3>1. attempt[p] \in 1 .. MaxAttempts /\ MaxAttempts \in Nat \ {0}
      BY QueueConstants DEF QueueInv, Q!TypeOK, Q!Tasks, Q!BoundsType
    <3> QED
      BY <3>1 DEF Tries
  <2> QED
    BY <2>2, <2>3, <2>4, QueueConstants DEF Q!BoundsType
<1>4. Q!PutOrder
  BY <1>2 DEF Q!PutOrder, InOrder
<1>5. Q!CopiesBounded
  <2> SUFFICES ASSUME NEW i \in Q!Items
               PROVE  Q!Cardinality({m \in DOMAIN log : log[m] = i}) <= MaxAttempts
    BY DEF Q!CopiesBounded
  <2> QED
    BY <1>3, SameCardinality DEF Positions
<1> QED
  BY <1>4, <1>5

-------------------------------------------------------------------------------
(* The parts together.                                                     *)
ObjectsInv == \/ part = "queue" /\ QueueInv
              \/ part = "dict" /\ DictInv
              \/ part = "volume" /\ VolumeInv

LEMMA Starts == Init => ObjectsInv
BY QueueStarts, DictStarts, VolumeStarts DEF Init, ObjectsInv

LEMMA Steps == ObjectsInv /\ [Next]_vars => ObjectsInv'
<1> SUFFICES ASSUME ObjectsInv, [Next]_vars PROVE ObjectsInv'
  OBVIOUS
<1>1. CASE part = "queue" /\ QueueInv
  <2>1. [Q!Next]_Q!vars /\ part' = part
    BY <1>1 DEF Next, OnQueue, OnDict, OnVolume, vars, queues, Q!vars, Q!call, Q!history
  <2> QED
    BY <1>1, <2>1, QueueStep DEF ObjectsInv
<1>2. CASE part = "dict" /\ DictInv
  <2>1. [D!Next]_D!vars /\ part' = part
    BY <1>2 DEF Next, OnQueue, OnDict, OnVolume, vars, dicts, D!vars, D!call
  <2>2. DictInv'
    BY <1>2, <2>1, DictTypes, WinnerStep DEF DictInv
  <2> QED
    BY <1>2, <2>1, <2>2 DEF ObjectsInv
<1>3. CASE part = "volume" /\ VolumeInv
  <2>1. [V!Next]_V!vars /\ part' = part
    BY <1>3 DEF Next, OnQueue, OnDict, OnVolume, vars, puts, V!vars, V!task, V!server
  <2> QED
    BY <1>3, <2>1, VolumeStep DEF ObjectsInv
<1> QED
  BY <1>1, <1>2, <1>3 DEF ObjectsInv

LEMMA Always == Spec => []ObjectsInv
BY Starts, Steps, PTL DEF Spec

(* Every variable of a queue, a dict or an upload keeps its type, whoever  *)
(* calls, and whatever is lost and sent again (queue.rs, dict.rs,          *)
(* volume.rs).                                                             *)
THEOREM TypeCorrect == Spec => []TypeOK
<1>1. ObjectsInv => TypeOK
  BY DEF ObjectsInv, QueueInv, DictInv, VolumeInv, TypeOK
<1> QED
  BY <1>1, Always, PTL

(* The items of every put_many come out in their order, at most once per   *)
(* try of the put, and a get hands over whole what its answered try popped *)
(* (queue.rs:161, 180-183; retry.rs:33-56), for any number of producers,   *)
(* consumers and cleaners, batches of any length and any retry bound.      *)
THEOREM QueueKeepsBatches == Spec => []BatchesWhole
<1>1. ObjectsInv => BatchesWhole
  BY QueuePromises DEF ObjectsInv, BatchesWhole
<1> QED
  BY <1>1, Always, PTL

(* put_if_absent elects one winner, whose value stays until a put, pop or  *)
(* clear takes it away (dict.rs:172-175).                                  *)
THEOREM ElectedStays == Spec => []WinnerStored
<1>1. ObjectsInv => WinnerStored
  BY DEF ObjectsInv, DictInv, WinnerStored
<1> QED
  BY <1>1, Always, PTL

(* An upload reports Ok only on a commit of its own declaration, and that  *)
(* it diverged only if a local file was written under it (volume.rs:       *)
(* 359-373), for any trees with any blocks in common.                      *)
THEOREM PutReportsTruly == Spec => []PutReports
<1>1. ObjectsInv => PutReports
  BY DEF ObjectsInv, VolumeInv, PutReports
<1> QED
  BY <1>1, Always, PTL

(* What is in a volume is replaced only by an upload that may, by `force`  *)
(* (volume.rs, disallow_overwrite_existing_files).                         *)
THEOREM ReplacedOnlyByForce == Spec => NoOverwrite
<1>1. ObjectsInv /\ [Next]_vars => [part = "volume" => V!ReplacesOnlyByForce]_vars
  <2> SUFFICES ASSUME ObjectsInv, [Next]_vars, part = "volume"
               PROVE  V!ReplacesOnlyByForce
    OBVIOUS
  <2>1. VolumeInv
    BY DEF ObjectsInv
  <2>2. [V!Next]_V!vars
    BY DEF Next, OnQueue, OnDict, OnVolume, vars, puts, V!vars, V!task, V!server
  <2> QED
    BY <2>1, <2>2, VolumeKeeps
<1> QED
  BY <1>1, Always, PTL DEF Spec, NoOverwrite
===============================================================================
