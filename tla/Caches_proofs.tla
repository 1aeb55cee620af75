------------------------------ MODULE Caches_proofs ------------------------------
(***************************************************************************)
(* Proofs about the two caches (the parts "describe" and "cache" of        *)
(* CallPath).                                                              *)
(*                                                                         *)
(* Commands that describe packages over one target directory: a command    *)
(* nobody misled carries one key, and every file it goes by is the one of  *)
(* that key.                                                               *)
(*                                                                         *)
(* Containers that publish a runner on a volume they share: one container  *)
(* at a time builds an unraced source, the inode behind its `.tmp` is not  *)
(* the one behind the name, and so a whole runner is replaced only by a    *)
(* whole one.                                                              *)
(***************************************************************************)
EXTENDS CallPath, TLAPS

-------------------------------------------------------------------------------
(* Where a command has computed its key, reads the snapshot of its source, *)
(* and stores the manifest in its hands.                                   *)
Keyed == {"load", "read", "build", "unpin", "link", "describe", "store", "storing",
          "rstart", "rload", "remote", "rstore", "rstoring", "diff"}
Builds == {"build", "unpin", "link"}
Stores == {"store", "storing", "rstore", "rstoring"}
Labels == Keyed \cup {"start", "entry", "check", "sent", "refused", "error", "diverged"}

(* Types of what the commands keep to themselves.                          *)
Holding ==
  /\ call \in Commands
  /\ pc \in [Cmds -> Labels]
  /\ snap \in [Cmds -> Versions \cup {None}]
  /\ got = [c \in Cmds |-> got[c]]
  /\ \A c \in Cmds : /\ pc[c] \in Builds => snap[c] \in Versions
                     /\ pc[c] \in Stores => got[c] \in D!Manifests

(* The key of a command is of its own package.                             *)
KeyOwn == \A c \in Cmds : /\ pc[c] = "start" => key[c] = None
                          /\ pc[c] \in Keyed => key[c] # None
                          /\ key[c] # None => key[c][1] = D!Pkg(c)

(* What a command that was not misled goes by is of the source its key     *)
(* names: the source on disk until it is read, the snapshot that is built, *)
(* the runner at the shared path until it is pinned, the one of the two    *)
(* that is executed, whole or broken, and the manifest in hand.            *)
OfKey(c) ==
  /\ pc[c] \in {"load", "read", "rload", "remote"} => src[D!Pkg(c)] = key[c][2]
  /\ pc[c] \in Builds => snap[c] = key[c][2]
  /\ pc[c] \in {"unpin", "link"} => uplift \in {key[c], Partial}
  /\ pc[c] = "describe" => /\ bin[c] \in {"pin", "uplift"}
                           /\ D!Runner(c) \in {key[c], Partial}
  /\ pc[c] \in Stores => got[c] \in D!Described(key[c])
  /\ pc[c] \in {"diff", "entry"} /\ key[c] # None => got[c] \in D!Described(key[c])
  /\ pc[c] \in {"check", "sent", "refused"} /\ key[c] # None =>
       \E m \in D!Described(key[c]) :
         got[c] = D!Override(m, call[c].entry, call[c].inline)

(* What is cached under a key that nobody misled has stored to.            *)
Cached == \A k \in D!CacheKeys \ racyKeys : cache[k] \in D!Described(k) \cup {None, Partial}

DescribeInv == /\ D!TypeOK /\ Holding /\ KeyOwn
               /\ \A c \in Cmds \ racy : OfKey(c)
               /\ Cached

LEMMA DescribeStarts == D!Init => DescribeInv
<1> SUFFICES ASSUME D!Init PROVE DescribeInv
  OBVIOUS
<1> USE DescribeConstants
<1>1. PICK t \in Targets : uplift = t.uplift /\ pin = t.pin /\ cache = t.cache
  BY DEF D!Init
<1>2. D!TypeOK
  BY <1>1 DEF D!Init, D!TypeOK, D!TargetsType
<1>3. Holding
  BY DEF D!Init, Holding, Labels, Keyed, Builds, Stores
<1>4. KeyOwn
  BY DEF D!Init, KeyOwn, Keyed
<1>5. ASSUME NEW c \in Cmds PROVE OfKey(c)
  BY DEF D!Init, OfKey, Builds, Stores
<1>6. Cached
  BY <1>1 DEF Cached, D!TargetsType
<1> QED
  BY <1>2, <1>3, <1>4, <1>5, <1>6 DEF DescribeInv

(* A command that goes somewhere leaves the others where they are.         *)
LEMMA WentTo ==
  ASSUME pc \in [Cmds -> Labels], NEW c \in Cmds, NEW l \in Labels, D!Goto(c, l)
  PROVE  /\ pc' \in [Cmds -> Labels] /\ pc'[c] = l
         /\ \A d \in Cmds \ {c} : pc'[d] = pc[d]
BY DEF D!Goto

(* The manifest in hand is taken, kept aside for the comparison, or empty. *)
LEMMA Taken ==
  ASSUME Holding, NEW c \in Cmds, NEW m, NEW remote \in BOOLEAN, D!Take(c, m, remote)
  PROVE  /\ pc' \in [Cmds -> Labels]
         /\ pc'[c] \in {"error", "rstart", "diff", "entry"}
         /\ \A d \in Cmds \ {c} : pc'[d] = pc[d] /\ got'[d] = got[d]
         /\ got' = [d \in Cmds |-> got'[d]]
         /\ pc'[c] \in {"diff", "entry"} => got'[c] = m
<1> USE DEF Labels, Keyed
<1>0. pc \in [Cmds -> Labels] /\ got = [d \in Cmds |-> got[d]]
  BY DEF Holding
<1>1. CASE m = D!Empty
  <2>1. D!Goto(c, "error") /\ got' = got
    BY <1>1 DEF D!Take
  <2> QED
    BY <1>0, <2>1, WentTo
<1>2. CASE m # D!Empty /\ D!ManifestFrom(call[c].flags) = "verify" /\ ~remote
  <2>1. D!Goto(c, "rstart") /\ got' = got
    BY <1>2 DEF D!Take
  <2> QED
    BY <1>0, <2>1, WentTo
<1>3. CASE ~(m = D!Empty) /\ ~(m # D!Empty /\ D!ManifestFrom(call[c].flags) = "verify" /\ ~remote)
  <2>1. PICK l \in {"diff", "entry"} : D!Goto(c, l)
    BY <1>3 DEF D!Take
  <2>2. got' = [got EXCEPT ![c] = m]
    BY <1>3 DEF D!Take
  <2>3. got' = [d \in Cmds |-> got'[d]] /\ got'[c] = m
        /\ \A d \in Cmds \ {c} : got'[d] = got[d]
    BY <1>0, <2>2
  <2> QED
    BY <1>0, <2>1, <2>3, WentTo
<1> QED
  BY <1>1, <1>2, <1>3

(* What a command that was not misled goes by stays of its key while it    *)
(* stands still and nobody touches what it is about to read, or breaks it. *)
LEMMA OthersKeep ==
  ASSUME DescribeInv, NEW d \in Cmds, d \notin racy, call' = call,
         pc'[d] = pc[d], key'[d] = key[d], snap'[d] = snap[d],
         bin'[d] = bin[d], got'[d] = got[d],
         pc[d] \in {"load", "read", "rload", "remote"} => src'[D!Pkg(d)] = src[D!Pkg(d)],
         pc[d] \in {"unpin", "link"} => uplift' \in {uplift, Partial},
         pc[d] = "describe" =>
           IF bin[d] = "pin" THEN pin'[D!Pkg(d)] \in {pin[D!Pkg(d)], Partial}
                             ELSE uplift' \in {uplift, Partial}
  PROVE  OfKey(d)'
<1>1. pc[d] = "describe" => D!Runner(d)' \in {D!Runner(d), Partial}
  BY DEF D!Runner, D!Pkg
<1> QED
  BY <1>1 DEF DescribeInv, OfKey, D!Pkg

(* A command that only goes on, with what it has kept as it was.           *)
LEMMA GoesOn ==
  ASSUME DescribeInv, NEW c \in Cmds, NEW l \in Labels, D!Goto(c, l),
         UNCHANGED <<src, edits, call, key, snap, bin, uplift, pin, cache, racy, racyKeys>>,
         got' = [d \in Cmds |-> got'[d]],
         \A d \in Cmds \ {c} : got'[d] = got[d],
         l # "start", l \in Keyed => key[c] # None,
         l \in Builds => snap[c] \in Versions,
         l \in Stores => got'[c] \in D!Manifests,
         c \notin racy => OfKey(c)'
  PROVE  DescribeInv'
<1>0. D!TypeOK /\ Holding /\ KeyOwn /\ Cached
  BY DEF DescribeInv
<1>1. /\ pc' \in [Cmds -> Labels] /\ pc'[c] = l
      /\ \A d \in Cmds \ {c} : pc'[d] = pc[d]
  BY <1>0, WentTo DEF Holding
<1>2. D!TypeOK'
  BY <1>0 DEF D!TypeOK
<1>3. Holding'
  BY <1>0, <1>1 DEF Holding
<1>4. KeyOwn'
  BY <1>0, <1>1 DEF KeyOwn, D!Pkg
<1>5. ASSUME NEW d \in Cmds \ racy' PROVE OfKey(d)'
  <2>1. CASE d = c
    BY <1>5, <2>1
  <2>2. CASE d # c
    BY <1>1, <1>5, <2>2, OthersKeep
  <2> QED
    BY <2>1, <2>2
<1>6. Cached'
  BY <1>0 DEF Cached
<1> QED
  BY <1>2, <1>3, <1>4, <1>5, <1>6 DEF DescribeInv

LEMMA NoBuildStep == ASSUME DescribeInv, NEW c \in Cmds, D!NoBuild(c) PROVE DescribeInv'
<1> USE DescribeConstants DEF D!NoBuild, D!Outside, D!target
<1>0. Holding /\ KeyOwn /\ pc[c] = "start" /\ key[c] = None /\ pc \in [Cmds -> Labels]
  BY DEF DescribeInv, Holding, KeyOwn
<1>1. PICK l \in {"entry", "error"} : D!Goto(c, l)
  OBVIOUS
<1>2. l \in Labels /\ l \notin Keyed /\ l \notin Builds /\ l \notin Stores /\ l # "start"
  BY DEF Labels, Keyed, Builds, Stores
<1>3. pc'[c] = l /\ key' = key
  BY <1>0, <1>1, <1>2, WentTo
<1>4. OfKey(c)'
  BY <1>0, <1>2, <1>3 DEF OfKey
<1>5. got' = [d \in Cmds |-> got'[d]] /\ \A d \in Cmds \ {c} : got'[d] = got[d]
  BY <1>0 DEF Holding
<1> QED
  BY <1>1, <1>2, <1>4, <1>5, GoesOn

LEMMA ComputeKeyStep == ASSUME DescribeInv, NEW c \in Cmds, D!ComputeKey(c) PROVE DescribeInv'
<1> USE DescribeConstants
<1>0. D!TypeOK /\ Holding /\ KeyOwn /\ Cached
  BY DEF DescribeInv
<1>1. PICK l \in {"load", "rload"} : D!Goto(c, l)
  BY DEF D!ComputeKey
<1>2. /\ key' = [key EXCEPT ![c] = <<D!Pkg(c), src[D!Pkg(c)]>>]
      /\ UNCHANGED <<src, edits, call, snap, bin, got, uplift, pin, cache, racy, racyKeys>>
  BY DEF D!ComputeKey, D!KeyOf, D!Outside, D!target
<1>3. D!Pkg(c) \in Pkgs /\ src[D!Pkg(c)] \in Versions
  BY <1>0 DEF Holding, D!CommandsType, D!Pkg, D!TypeOK
<1>4. <<D!Pkg(c), src[D!Pkg(c)]>> \in D!CacheKeys
  BY <1>3 DEF D!CacheKeys
<1>5. /\ key' \in [Cmds -> D!CacheKeys \cup {None}]
      /\ key'[c] = <<D!Pkg(c), src[D!Pkg(c)]>> /\ key'[c] # None
      /\ \A d \in Cmds \ {c} : key'[d] = key[d]
  <2>1. key \in [Cmds -> D!CacheKeys \cup {None}]
    BY <1>0 DEF D!TypeOK
  <2> QED
    BY <1>2, <1>4, <2>1 DEF D!NoKey
<1>6. /\ pc' \in [Cmds -> Labels] /\ pc'[c] = l
      /\ \A d \in Cmds \ {c} : pc'[d] = pc[d]
  BY <1>0, <1>1, WentTo DEF Holding, Labels, Keyed
<1>7. D!TypeOK'
  BY <1>0, <1>2, <1>5 DEF D!TypeOK
<1>8. Holding'
  BY <1>0, <1>2, <1>6 DEF Holding, Builds, Stores
<1>9. KeyOwn'
  BY <1>0, <1>2, <1>5, <1>6 DEF KeyOwn, D!Pkg
<1>10. ASSUME NEW d \in Cmds \ racy' PROVE OfKey(d)'
  <2>1. CASE d = c
    BY <1>2, <1>5, <1>6, <2>1 DEF OfKey, D!Pkg, Builds, Stores
  <2>2. CASE d # c
    BY <1>2, <1>5, <1>6, <1>10, <2>2, OthersKeep
  <2> QED
    BY <2>1, <2>2
<1>11. Cached'
  BY <1>0, <1>2 DEF Cached
<1> QED
  BY <1>7, <1>8, <1>9, <1>10, <1>11 DEF DescribeInv

(* Load: only what was stored under an unmisled key keeps its reader so.   *)
LEMMA LoadStep == ASSUME DescribeInv, NEW c \in Cmds, D!Load(c) PROVE DescribeInv'
<1> USE DescribeConstants
<1>0. D!TypeOK /\ Holding /\ KeyOwn /\ Cached
  BY DEF DescribeInv
<1>1. pc[c] \in {"load", "rload"} /\ key[c] # None /\ key[c] \in D!CacheKeys
  BY <1>0 DEF D!Load, KeyOwn, Keyed, D!TypeOK
<1>2. UNCHANGED <<src, edits, call, key, snap, uplift, pin, cache, racyKeys>>
  BY DEF D!Load, D!Outside, D!target
<1>3. CASE D!Parses(cache[key[c]])
  <2> DEFINE m == cache[key[c]]
  <2>1. /\ D!Take(c, m, pc[c] = "rload")
        /\ bin' = IF pc[c] = "load" /\ pin[D!Pkg(c)] # None
                    THEN [bin EXCEPT ![c] = "pin"] ELSE bin
        /\ racy' = IF key[c] \in racyKeys THEN racy \cup {c} ELSE racy
    BY <1>3 DEF D!Load
  <2>2. c \notin racy' => m \in D!Described(key[c])
    BY <1>0, <1>1, <1>3, <2>1 DEF Cached, D!Parses
  <2> HIDE DEF m
  <2>3. /\ pc' \in [Cmds -> Labels]
        /\ pc'[c] \in {"error", "rstart", "diff", "entry"}
        /\ \A d \in Cmds \ {c} : pc'[d] = pc[d] /\ got'[d] = got[d]
        /\ got' = [d \in Cmds |-> got'[d]]
        /\ pc'[c] \in {"diff", "entry"} => got'[c] = m
    BY <1>0, <2>1, Taken
  <2>4. /\ bin' \in [Cmds -> {"pin", "uplift", None}] /\ racy' \subseteq Cmds /\ racy \subseteq racy'
        /\ \A d \in Cmds \ {c} : bin'[d] = bin[d]
    BY <1>0, <2>1 DEF D!TypeOK
  <2>5. D!TypeOK'
    BY <1>0, <1>2, <2>4 DEF D!TypeOK
  <2>6. Holding'
    BY <1>0, <1>2, <2>3 DEF Holding, Builds, Stores
  <2>7. KeyOwn'
    BY <1>0, <1>1, <1>2, <2>3 DEF KeyOwn, D!Pkg
  <2>8. ASSUME NEW d \in Cmds \ racy' PROVE OfKey(d)'
    <3>1. CASE d = c
      BY <1>2, <2>2, <2>3, <2>8, <3>1 DEF OfKey, Builds, Stores, D!Described
    <3>2. CASE d # c
      BY <1>2, <2>3, <2>4, <2>8, <3>2, OthersKeep
    <3> QED
      BY <3>1, <3>2
  <2>9. Cached'
    BY <1>0, <1>2 DEF Cached
  <2> QED
    BY <2>5, <2>6, <2>7, <2>8, <2>9 DEF DescribeInv
<1>4. CASE ~D!Parses(cache[key[c]])
  <2>1. PICK l \in {"read", "remote"} : /\ D!Goto(c, l)
                                        /\ l \in Labels /\ l \in Keyed
                                        /\ l \notin Builds /\ l \notin Stores
    BY <1>4 DEF D!Load, Labels, Keyed, Builds, Stores
  <2>2. UNCHANGED <<bin, got, racy>>
    BY <1>4 DEF D!Load
  <2>3. pc'[c] = l
    BY <1>0, <2>1, WentTo DEF Holding
  <2>4. c \notin racy => OfKey(c)'
    <3> SUFFICES ASSUME c \notin racy PROVE OfKey(c)'
      OBVIOUS
    <3>1. src[D!Pkg(c)] = key[c][2]
      BY <1>1 DEF DescribeInv, OfKey
    <3> QED
      BY <1>2, <2>1, <2>3, <3>1 DEF OfKey, D!Pkg
  <2>5. got' = [d \in Cmds |-> got'[d]]
    BY <1>0, <2>2 DEF Holding
  <2> QED
    BY <1>1, <1>2, <2>1, <2>2, <2>4, <2>5, GoesOn
<1> QED
  BY <1>3, <1>4

(* The build reads the source its key was computed from, or an edit came   *)
(* between.                                                                *)
LEMMA ReadStep == ASSUME DescribeInv, NEW c \in Cmds, D!Read(c) PROVE DescribeInv'
<1> USE DescribeConstants
<1>0. D!TypeOK /\ Holding /\ KeyOwn /\ Cached
  BY DEF DescribeInv
<1>1. /\ pc[c] = "read" /\ D!Goto(c, "build")
      /\ snap' = [snap EXCEPT ![c] = src[D!Pkg(c)]]
      /\ UNCHANGED <<src, edits, call, key, bin, got, uplift, pin, cache, racy, racyKeys>>
  BY DEF D!Read, D!Outside, D!target
<1>2. /\ pc' \in [Cmds -> Labels] /\ pc'[c] = "build"
      /\ \A d \in Cmds \ {c} : pc'[d] = pc[d]
  BY <1>0, <1>1, WentTo DEF Holding, Labels, Keyed
<1>3. src[D!Pkg(c)] \in Versions
  BY <1>0 DEF Holding, D!CommandsType, D!Pkg, D!TypeOK
<1>4. /\ snap' \in [Cmds -> Versions \cup {None}] /\ snap'[c] = src[D!Pkg(c)]
      /\ \A d \in Cmds \ {c} : snap'[d] = snap[d]
  BY <1>0, <1>1, <1>3 DEF Holding
<1>5. D!TypeOK' /\ Cached'
  BY <1>0, <1>1 DEF D!TypeOK, Cached
<1>6. Holding'
  BY <1>0, <1>1, <1>2, <1>3, <1>4 DEF Holding, Builds, Stores
<1>7. KeyOwn'
  BY <1>0, <1>1, <1>2 DEF KeyOwn, D!Pkg, Keyed
<1>8. ASSUME NEW d \in Cmds \ racy' PROVE OfKey(d)'
  <2>1. CASE d = c
    <3>1. src[D!Pkg(c)] = key[c][2]
      BY <1>1, <1>8, <2>1 DEF DescribeInv, OfKey
    <3> QED
      BY <1>1, <1>2, <1>4, <2>1, <3>1 DEF OfKey, Builds, Stores
  <2>2. CASE d # c
    BY <1>1, <1>2, <1>4, <1>8, <2>2, OthersKeep
  <2> QED
    BY <2>1, <2>2
<1> QED
  BY <1>5, <1>6, <1>7, <1>8 DEF DescribeInv

(* A build replaces what others are about to pin or to execute in place of *)
(* a pin, and misleads them.                                               *)
LEMMA BuildStep == ASSUME DescribeInv, NEW c \in Cmds, D!Build(c) PROVE DescribeInv'
<1> USE DescribeConstants
<1>0. D!TypeOK /\ Holding /\ KeyOwn /\ Cached
  BY DEF DescribeInv
<1>1. /\ pc[c] = "build" /\ key[c] # None /\ snap[c] \in Versions /\ key[c] \in D!CacheKeys
      /\ key[c] = <<D!Pkg(c), key[c][2]>>
      /\ UNCHANGED <<src, edits, call, key, snap, got, pin, cache, racyKeys>>
  BY <1>0 DEF D!Build, D!Outside, Holding, KeyOwn, Builds, Keyed, D!TypeOK, D!CacheKeys
<1>2. got' = [d \in Cmds |-> got'[d]]
  BY <1>0, <1>1 DEF Holding
<1>3. CASE Here(D!Pkg(c), snap[c]) = None
  <2>1. D!Goto(c, "error") /\ UNCHANGED <<uplift, bin, racy>>
    BY <1>3 DEF D!Build
  <2>2. "error" \in Labels /\ "error" \notin Keyed /\ "error" \notin Builds /\ "error" \notin Stores
    BY DEF Labels, Keyed, Builds, Stores
  <2>3. pc'[c] = "error"
    BY <1>0, <2>1, <2>2, WentTo DEF Holding
  <2>4. OfKey(c)'
    BY <2>2, <2>3 DEF OfKey
  <2> QED
    BY <1>1, <1>2, <2>1, <2>2, <2>4, GoesOn
<1>4. CASE Here(D!Pkg(c), snap[c]) # None
  <2>1. uplift' = <<D!Pkg(c), snap[c]>> /\ racy' = racy \cup D!Linking(c)
    BY <1>4 DEF D!Build
  <2>2. PICK l \in {"unpin", "describe"} :
          /\ D!Goto(c, l)
          /\ IF l = "unpin" THEN bin' = bin ELSE bin' = [bin EXCEPT ![c] = "uplift"]
    BY <1>4 DEF D!Build
  <2>3. /\ pc' \in [Cmds -> Labels] /\ pc'[c] = l
        /\ \A d \in Cmds \ {c} : pc'[d] = pc[d]
    BY <1>0, <2>2, WentTo DEF Holding, Labels, Keyed
  <2>4. /\ bin' \in [Cmds -> {"pin", "uplift", None}]
        /\ l = "describe" => bin'[c] = "uplift"
        /\ \A d \in Cmds \ {c} : bin'[d] = bin[d]
    BY <1>0, <2>2 DEF D!TypeOK
  <2>5. D!Pkg(c) \in Pkgs
    BY <1>0 DEF Holding, D!CommandsType, D!Pkg
  <2>6. uplift' \in D!CacheKeys /\ racy' \subseteq Cmds
    BY <1>0, <1>1, <2>1, <2>5 DEF D!CacheKeys, D!TypeOK, D!Linking
  <2>7. D!TypeOK' /\ Cached'
    BY <1>0, <1>1, <2>4, <2>6 DEF D!TypeOK, Cached
  <2>8. Holding'
    BY <1>0, <1>1, <2>3 DEF Holding, Builds, Stores
  <2>9. KeyOwn'
    BY <1>0, <1>1, <2>3 DEF KeyOwn, D!Pkg, Keyed
  <2>10. ASSUME NEW d \in Cmds \ racy' PROVE OfKey(d)'
    <3>1. CASE d = c
      <4>1. snap[c] = key[c][2]
        BY <1>1, <2>1, <2>10, <3>1 DEF DescribeInv, OfKey, Builds
      <4>2. uplift' = key'[c] /\ (l = "describe" => D!Runner(c)' = key'[c])
        BY <1>1, <2>1, <2>4, <4>1 DEF D!Runner
      <4> QED
        BY <1>1, <2>3, <2>4, <3>1, <4>1, <4>2 DEF OfKey, Builds, Stores
    <3>2. CASE d # c
      <4>1. /\ d \notin racy /\ pc[d] \notin {"unpin", "link"}
            /\ pc[d] = "describe" => bin[d] # "uplift"
        BY <2>1, <2>10, <3>2 DEF D!Linking
      <4>2. pc[d] = "describe" => bin[d] = "pin"
        BY <4>1 DEF DescribeInv, OfKey
      <4> QED
        BY <1>1, <2>3, <2>4, <2>10, <3>2, <4>1, <4>2, OthersKeep
    <3> QED
      BY <3>1, <3>2
  <2> QED
    BY <2>7, <2>8, <2>9, <2>10 DEF DescribeInv
<1> QED
  BY <1>3, <1>4

(* Removing the pin misleads whoever of this package is about to run it.   *)
LEMMA UnpinStep == ASSUME DescribeInv, NEW c \in Cmds, D!Unpin(c) PROVE DescribeInv'
<1> USE DescribeConstants
<1>0. D!TypeOK /\ Holding /\ KeyOwn /\ Cached
  BY DEF DescribeInv
<1>1. /\ pc[c] = "unpin" /\ D!Goto(c, "link")
      /\ pin' = [pin EXCEPT ![D!Pkg(c)] = None]
      /\ racy' = racy \cup D!Executing(c)
      /\ UNCHANGED <<src, edits, call, key, snap, bin, got, uplift, cache, racyKeys>>
  BY DEF D!Unpin, D!Outside
<1>2. /\ pc' \in [Cmds -> Labels] /\ pc'[c] = "link"
      /\ \A d \in Cmds \ {c} : pc'[d] = pc[d]
  BY <1>0, <1>1, WentTo DEF Holding, Labels, Keyed
<1>3. /\ pin' \in [Pkgs -> D!CacheKeys \cup {None, Partial}] /\ racy' \subseteq Cmds
      /\ \A p \in Pkgs \ {D!Pkg(c)} : pin'[p] = pin[p]
  BY <1>0, <1>1 DEF D!TypeOK, D!Executing
<1>4. D!TypeOK' /\ Cached'
  BY <1>0, <1>1, <1>3 DEF D!TypeOK, Cached
<1>5. Holding'
  BY <1>0, <1>1, <1>2 DEF Holding, Builds, Stores
<1>6. KeyOwn'
  BY <1>0, <1>1, <1>2 DEF KeyOwn, D!Pkg, Keyed
<1>7. ASSUME NEW d \in Cmds \ racy' PROVE OfKey(d)'
  <2>1. CASE d = c
    <3>1. snap[c] = key[c][2] /\ uplift \in {key[c], Partial}
      BY <1>1, <1>7, <2>1 DEF DescribeInv, OfKey, Builds
    <3> QED
      BY <1>1, <1>2, <2>1, <3>1 DEF OfKey, Builds, Stores
  <2>2. CASE d # c
    <3>1. /\ d \notin racy
          /\ pc[d] = "describe" /\ bin[d] = "pin" => D!Pkg(d) # D!Pkg(c)
      BY <1>1, <1>7, <2>2 DEF D!Executing
    <3>2. D!Pkg(d) \in Pkgs
      BY <1>0 DEF Holding, D!CommandsType, D!Pkg
    <3> QED
      BY <1>1, <1>2, <1>3, <1>7, <2>2, <3>1, <3>2, OthersKeep
  <2> QED
    BY <2>1, <2>2
<1> QED
  BY <1>4, <1>5, <1>6, <1>7 DEF DescribeInv

(* What is executed next is what the shared path holds: the command's own  *)
(* build, unless another one came between.                                 *)
LEMMA LinkStep == ASSUME DescribeInv, NEW c \in Cmds, D!Link(c) PROVE DescribeInv'
<1> USE DescribeConstants
<1>0. D!TypeOK /\ Holding /\ KeyOwn /\ Cached
  BY DEF DescribeInv
<1>1. /\ pc[c] = "link" /\ D!Goto(c, "describe")
      /\ racy' = racy \cup D!Executing(c)
      /\ UNCHANGED <<src, edits, call, key, snap, got, cache, racyKeys>>
  BY DEF D!Link, D!Outside
<1>2. /\ pc' \in [Cmds -> Labels] /\ pc'[c] = "describe"
      /\ \A d \in Cmds \ {c} : pc'[d] = pc[d]
  BY <1>0, <1>1, WentTo DEF Holding, Labels, Keyed
<1>3. D!Pkg(c) \in Pkgs /\ \A d \in Cmds : D!Pkg(d) \in Pkgs
  BY <1>0 DEF Holding, D!CommandsType, D!Pkg
<1>4. PICK r \in {pin[D!Pkg(c)], uplift, Partial} : pin' = [pin EXCEPT ![D!Pkg(c)] = r]
  <2>1. pin = [pin EXCEPT ![D!Pkg(c)] = pin[D!Pkg(c)]]
    BY <1>0, <1>3 DEF D!TypeOK
  <2> QED
    BY <2>1 DEF D!Link
<1>5. /\ pin' \in [Pkgs -> D!CacheKeys \cup {None, Partial}] /\ racy' \subseteq Cmds
      /\ \A p \in Pkgs \ {D!Pkg(c)} : pin'[p] = pin[p]
  BY <1>0, <1>1, <1>3, <1>4 DEF D!TypeOK, D!Executing
<1>6. /\ uplift' \in {uplift, Partial}
      /\ uplift' \in D!CacheKeys \cup {None, Partial}
  BY <1>0 DEF D!Link, D!TypeOK
<1>7. PICK b \in {"pin", "uplift"} : bin' = [bin EXCEPT ![c] = b]
  BY DEF D!Link
<1>8. /\ bin' \in [Cmds -> {"pin", "uplift", None}] /\ bin'[c] = b
      /\ \A d \in Cmds \ {c} : bin'[d] = bin[d]
  BY <1>0, <1>7 DEF D!TypeOK
<1>9. D!Runner(c)' \in {uplift, Partial}
  <2>1. \/ pin' = [pin EXCEPT ![D!Pkg(c)] = uplift] /\ bin' = [bin EXCEPT ![c] = "pin"]
        \/ pin' = [pin EXCEPT ![D!Pkg(c)] = Partial] /\ bin' = [bin EXCEPT ![c] = "pin"]
        \/ uplift' = uplift /\ bin' = [bin EXCEPT ![c] = "uplift"]
    BY DEF D!Link
  <2>2. bin \in [Cmds -> {"pin", "uplift", None}] /\ pin \in [Pkgs -> D!CacheKeys \cup {None, Partial}]
    BY <1>0 DEF D!TypeOK
  <2> QED
    BY <1>1, <1>3, <2>1, <2>2 DEF D!Runner, D!Pkg
<1>10. D!TypeOK' /\ Cached'
  BY <1>0, <1>1, <1>5, <1>6, <1>8 DEF D!TypeOK, Cached
<1>11. Holding'
  BY <1>0, <1>1, <1>2 DEF Holding, Builds, Stores
<1>12. KeyOwn'
  BY <1>0, <1>1, <1>2 DEF KeyOwn, D!Pkg, Keyed
<1>13. ASSUME NEW d \in Cmds \ racy' PROVE OfKey(d)'
  <2>1. CASE d = c
    <3>1. uplift \in {key[c], Partial}
      BY <1>1, <1>13, <2>1 DEF DescribeInv, OfKey
    <3>2. bin'[c] \in {"pin", "uplift"} /\ D!Runner(c)' \in {key'[c], Partial}
      BY <1>1, <1>8, <1>9, <3>1
    <3> QED
      BY <1>2, <2>1, <3>2 DEF OfKey, Builds, Stores
  <2>2. CASE d # c
    <3>1. /\ d \notin racy
          /\ pc[d] = "describe" /\ bin[d] = "pin" => D!Pkg(d) # D!Pkg(c)
      BY <1>1, <1>13, <2>2 DEF D!Executing
    <3> QED
      BY <1>1, <1>2, <1>3, <1>5, <1>6, <1>8, <1>13, <2>2, <3>1, OthersKeep
  <2> QED
    BY <2>1, <2>2
<1> QED
  BY <1>10, <1>11, <1>12, <1>13 DEF DescribeInv

(* The runner that is executed describes itself.                           *)
LEMMA DescribeItStep == ASSUME DescribeInv, NEW c \in Cmds, D!Describe(c) PROVE DescribeInv'
<1> USE DescribeConstants
<1>0. D!TypeOK /\ Holding /\ KeyOwn /\ Cached
  BY DEF DescribeInv
<1>1. /\ pc[c] = "describe" /\ key[c] # None
      /\ UNCHANGED <<src, edits, call, key, snap, bin, uplift, pin, cache, racy, racyKeys>>
  BY <1>0 DEF D!Describe, D!Outside, D!target, KeyOwn, Keyed
<1>2. CASE D!Goto(c, "error") /\ UNCHANGED got
  <2>1. "error" \in Labels /\ "error" \notin Keyed /\ "error" \notin Builds /\ "error" \notin Stores
    BY DEF Labels, Keyed, Builds, Stores
  <2>2. pc'[c] = "error" /\ got' = [d \in Cmds |-> got'[d]]
    BY <1>0, <1>2, <2>1, WentTo DEF Holding
  <2>3. OfKey(c)'
    BY <2>1, <2>2 DEF OfKey
  <2> QED
    BY <1>1, <1>2, <2>1, <2>2, <2>3, GoesOn
<1>3. CASE /\ D!Runner(c) \notin {None, Partial}
           /\ got' = [got EXCEPT ![c] = Here(D!Runner(c)[1], D!Runner(c)[2])]
           /\ D!Goto(c, "store")
  <2>1. "store" \in Labels /\ "store" \in Keyed /\ "store" \notin Builds /\ "store" \in Stores
    BY DEF Labels, Keyed, Builds, Stores
  <2>2. pc'[c] = "store"
    BY <1>0, <1>3, <2>1, WentTo DEF Holding
  <2>3. D!Runner(c) \in D!CacheKeys
    <3>1. D!Pkg(c) \in Pkgs
      BY <1>0 DEF Holding, D!CommandsType, D!Pkg
    <3> QED
      BY <1>0, <1>3, <3>1 DEF D!Runner, D!TypeOK
  <2>4. /\ got' = [d \in Cmds |-> got'[d]]
        /\ got'[c] = Here(D!Runner(c)[1], D!Runner(c)[2])
        /\ \A d \in Cmds \ {c} : got'[d] = got[d]
    BY <1>0, <1>3 DEF Holding
  <2>5. got'[c] \in D!Described(D!Runner(c))
    BY <2>4 DEF D!Described
  <2>6. got'[c] \in D!Manifests
    BY <2>3, <2>5 DEF D!Manifests
  <2>7. c \notin racy => OfKey(c)'
    <3> SUFFICES ASSUME c \notin racy PROVE OfKey(c)'
      OBVIOUS
    <3>1. D!Runner(c) = key[c]
      BY <1>1, <1>3 DEF DescribeInv, OfKey
    <3>2. got'[c] \in D!Described(key[c])
      BY <2>5, <3>1
    <3> QED
      BY <1>1, <2>1, <2>2, <3>2 DEF OfKey, D!Described
  <2> QED
    BY <1>1, <1>3, <2>1, <2>4, <2>6, <2>7, GoesOn
<1> QED
  BY <1>2, <1>3 DEF D!Describe

(* Modal describes the source on disk.                                     *)
LEMMA RemoteStep == ASSUME DescribeInv, NEW c \in Cmds, D!Remote(c) PROVE DescribeInv'
<1> USE DescribeConstants
<1>0. D!TypeOK /\ Holding /\ KeyOwn /\ Cached
  BY DEF DescribeInv
<1>1. /\ pc[c] = "remote" /\ key[c] # None
      /\ UNCHANGED <<src, edits, call, key, snap, bin, uplift, pin, cache, racy, racyKeys>>
  BY <1>0 DEF D!Remote, D!Outside, D!target, KeyOwn, Keyed
<1>2. CASE D!Goto(c, "error") /\ UNCHANGED got
  <2>1. "error" \in Labels /\ "error" \notin Keyed /\ "error" \notin Builds /\ "error" \notin Stores
    BY DEF Labels, Keyed, Builds, Stores
  <2>2. pc'[c] = "error" /\ got' = [d \in Cmds |-> got'[d]]
    BY <1>0, <1>2, <2>1, WentTo DEF Holding
  <2>3. OfKey(c)'
    BY <2>1, <2>2 DEF OfKey
  <2> QED
    BY <1>1, <1>2, <2>1, <2>2, <2>3, GoesOn
<1>3. CASE /\ got' = [got EXCEPT ![c] = There(D!Pkg(c), src[D!Pkg(c)])]
           /\ D!Goto(c, "rstore")
  <2>1. "rstore" \in Labels /\ "rstore" \in Keyed /\ "rstore" \notin Builds /\ "rstore" \in Stores
    BY DEF Labels, Keyed, Builds, Stores
  <2>2. pc'[c] = "rstore"
    BY <1>0, <1>3, <2>1, WentTo DEF Holding
  <2>3. <<D!Pkg(c), src[D!Pkg(c)]>> \in D!CacheKeys
    <3>1. D!Pkg(c) \in Pkgs /\ src[D!Pkg(c)] \in Versions
      BY <1>0 DEF Holding, D!CommandsType, D!Pkg, D!TypeOK
    <3> QED
      BY <3>1 DEF D!CacheKeys
  <2>4. /\ got' = [d \in Cmds |-> got'[d]]
        /\ got'[c] = There(D!Pkg(c), src[D!Pkg(c)])
        /\ \A d \in Cmds \ {c} : got'[d] = got[d]
    BY <1>0, <1>3 DEF Holding
  <2>5. got'[c] \in D!Described(<<D!Pkg(c), src[D!Pkg(c)]>>)
    BY <2>4 DEF D!Described
  <2>6. got'[c] \in D!Manifests
    BY <2>3, <2>5 DEF D!Manifests
  <2>7. c \notin racy => OfKey(c)'
    <3> SUFFICES ASSUME c \notin racy PROVE OfKey(c)'
      OBVIOUS
    <3>1. src[D!Pkg(c)] = key[c][2] /\ D!Pkg(c) = key[c][1]
      BY <1>0, <1>1 DEF DescribeInv, OfKey, KeyOwn
    <3>2. got'[c] \in D!Described(key[c])
      BY <2>4, <3>1 DEF D!Described
    <3> QED
      BY <1>1, <2>1, <2>2, <3>2 DEF OfKey, D!Described
  <2> QED
    BY <1>1, <1>3, <2>1, <2>4, <2>6, <2>7, GoesOn
<1> QED
  BY <1>2, <1>3 DEF D!Remote

(* A file that is being written is partial, whoever writes it.             *)
LEMMA TruncateStep == ASSUME DescribeInv, NEW c \in Cmds, D!Truncate(c) PROVE DescribeInv'
<1>0. D!TypeOK /\ Holding /\ KeyOwn /\ Cached
  BY DEF DescribeInv
<1>1. /\ pc[c] \in {"store", "rstore"} /\ pc[c] \in Stores /\ key[c] # None
      /\ cache' = [cache EXCEPT ![key[c]] = Partial]
      /\ UNCHANGED <<src, edits, call, key, snap, bin, got, uplift, pin, racy, racyKeys>>
  BY <1>0 DEF D!Truncate, D!Outside, KeyOwn, Keyed, Stores
<1>2. PICK l \in {"storing", "rstoring"} : D!Goto(c, l)
  BY DEF D!Truncate
<1>3. /\ l \in Labels /\ l \in Keyed /\ l \notin Builds /\ l \in Stores
      /\ l \notin {"load", "read", "rload", "remote", "unpin", "link", "describe",
                   "diff", "entry", "check", "sent", "refused", "start"}
  BY DEF Labels, Keyed, Builds, Stores
<1>4. /\ pc' \in [Cmds -> Labels] /\ pc'[c] = l
      /\ \A d \in Cmds \ {c} : pc'[d] = pc[d]
  BY <1>0, <1>2, <1>3, WentTo DEF Holding
<1>5. cache' \in [D!CacheKeys -> D!Manifests \cup {None, Partial}]
  BY <1>0, <1>1 DEF D!TypeOK
<1>6. D!TypeOK'
  BY <1>0, <1>1, <1>5 DEF D!TypeOK
<1>7. Cached'
  BY <1>0, <1>1 DEF Cached, D!TypeOK
<1>8. Holding'
  BY <1>0, <1>1, <1>3, <1>4 DEF Holding
<1>9. KeyOwn'
  BY <1>0, <1>1, <1>3, <1>4 DEF KeyOwn, D!Pkg
<1>10. ASSUME NEW d \in Cmds \ racy' PROVE OfKey(d)'
  <2>1. CASE d = c
    <3>1. got[c] \in D!Described(key[c])
      BY <1>1, <1>10, <2>1 DEF DescribeInv, OfKey
    <3> QED
      BY <1>1, <1>3, <1>4, <2>1, <3>1 DEF OfKey, D!Described
  <2>2. CASE d # c
    BY <1>1, <1>4, <1>10, <2>2, OthersKeep
  <2> QED
    BY <2>1, <2>2
<1> QED
  BY <1>6, <1>7, <1>8, <1>9, <1>10 DEF DescribeInv

(* What is stored is what is in hand, or a mixture that does not parse; a  *)
(* misled command leaves a key that misleads.                              *)
LEMMA StoreStep == ASSUME DescribeInv, NEW c \in Cmds, D!Store(c) PROVE DescribeInv'
<1> USE DescribeConstants
<1>0. D!TypeOK /\ Holding /\ KeyOwn /\ Cached
  BY DEF DescribeInv
<1>1. /\ pc[c] \in {"storing", "rstoring"} /\ pc[c] \in Stores /\ key[c] # None
      /\ key[c] \in D!CacheKeys
      /\ D!Take(c, got[c], pc[c] = "rstoring")
      /\ racyKeys' = IF c \in racy THEN racyKeys \cup {key[c]} ELSE racyKeys
      /\ UNCHANGED <<src, edits, call, key, snap, bin, uplift, pin, racy>>
  BY <1>0 DEF D!Store, D!Outside, KeyOwn, Keyed, Stores, D!TypeOK
<1>2. PICK m \in {got[c], Partial} : cache' = [cache EXCEPT ![key[c]] = m]
  BY DEF D!Store
<1>3. /\ pc' \in [Cmds -> Labels]
      /\ pc'[c] \in {"error", "rstart", "diff", "entry"}
      /\ \A d \in Cmds \ {c} : pc'[d] = pc[d] /\ got'[d] = got[d]
      /\ got' = [d \in Cmds |-> got'[d]]
      /\ pc'[c] \in {"diff", "entry"} => got'[c] = got[c]
  BY <1>0, <1>1, Taken
<1>4. m \in D!Manifests \cup {Partial}
  BY <1>0, <1>1 DEF Holding
<1>5. cache' \in [D!CacheKeys -> D!Manifests \cup {None, Partial}] /\ racyKeys' \subseteq D!CacheKeys
  BY <1>0, <1>1, <1>2, <1>4 DEF D!TypeOK
<1>6. D!TypeOK'
  BY <1>0, <1>1, <1>5 DEF D!TypeOK
<1>7. c \notin racy => got[c] \in D!Described(key[c])
  BY <1>1 DEF DescribeInv, OfKey
<1>8. Cached'
  <2> SUFFICES ASSUME NEW k \in D!CacheKeys \ racyKeys'
               PROVE  cache'[k] \in D!Described(k) \cup {None, Partial}
    BY DEF Cached, D!Described
  <2>1. cache[k] \in D!Described(k) \cup {None, Partial} /\ cache \in [D!CacheKeys -> D!Manifests \cup {None, Partial}]
    BY <1>0, <1>1 DEF Cached, D!TypeOK
  <2>2. CASE k = key[c]
    BY <1>1, <1>2, <1>7, <2>1, <2>2
  <2>3. CASE k # key[c]
    BY <1>2, <2>1, <2>3
  <2> QED
    BY <2>2, <2>3
<1>9. Holding'
  BY <1>0, <1>1, <1>3 DEF Holding, Builds, Stores
<1>10. KeyOwn'
  BY <1>0, <1>1, <1>3 DEF KeyOwn, D!Pkg
<1>11. ASSUME NEW d \in Cmds \ racy' PROVE OfKey(d)'
  <2>1. CASE d = c
    BY <1>1, <1>3, <1>7, <1>11, <2>1 DEF OfKey, Builds, Stores, D!Described
  <2>2. CASE d # c
    BY <1>1, <1>3, <1>11, <2>2, OthersKeep
  <2> QED
    BY <2>1, <2>2
<1> QED
  BY <1>6, <1>8, <1>9, <1>10, <1>11 DEF DescribeInv

LEMMA DiffStep == ASSUME DescribeInv, NEW c \in Cmds, D!Diff(c) PROVE DescribeInv'
<1>0. Holding /\ KeyOwn
  BY DEF DescribeInv
<1>1. /\ pc[c] = "diff"
      /\ UNCHANGED <<src, edits, call, key, snap, bin, got, uplift, pin, cache, racy, racyKeys>>
  BY DEF D!Diff, D!Outside, D!target, D!cmd
<1>2. PICK l \in {"entry", "diverged"} : D!Goto(c, l)
  BY DEF D!Diff
<1>3. l \in Labels /\ l \notin Keyed /\ l \notin Builds /\ l \notin Stores /\ l # "start"
  BY DEF Labels, Keyed, Builds, Stores
<1>4. pc'[c] = l /\ got' = [d \in Cmds |-> got'[d]]
  BY <1>0, <1>1, <1>2, <1>3, WentTo DEF Holding
<1>5. c \notin racy => OfKey(c)'
  <2> SUFFICES ASSUME c \notin racy PROVE OfKey(c)'
    OBVIOUS
  <2>1. key[c] # None => got[c] \in D!Described(key[c])
    BY <1>1 DEF DescribeInv, OfKey
  <2> QED
    BY <1>1, <1>3, <1>4, <2>1 DEF OfKey, D!Described
<1> QED
  BY <1>1, <1>2, <1>3, <1>4, <1>5, GoesOn

(* The overrides are applied to the manifest in hand.                      *)
LEMMA EntryStep == ASSUME DescribeInv, NEW c \in Cmds, D!Entry(c) PROVE DescribeInv'
<1>0. Holding /\ KeyOwn
  BY DEF DescribeInv
<1>1. /\ pc[c] = "entry"
      /\ UNCHANGED <<src, edits, call, key, snap, bin, uplift, pin, cache, racy, racyKeys>>
  BY DEF D!Entry, D!Outside, D!target
<1>2. CASE D!Goto(c, "error") /\ UNCHANGED got
  <2>1. "error" \in Labels /\ "error" \notin Keyed /\ "error" \notin Builds /\ "error" \notin Stores
    BY DEF Labels, Keyed, Builds, Stores
  <2>2. pc'[c] = "error" /\ got' = [d \in Cmds |-> got'[d]]
    BY <1>0, <1>2, <2>1, WentTo DEF Holding
  <2>3. OfKey(c)'
    BY <2>1, <2>2 DEF OfKey
  <2> QED
    BY <1>1, <1>2, <2>1, <2>2, <2>3, GoesOn
<1>3. CASE /\ got' = [got EXCEPT ![c] = D!Override(got[c], call[c].entry, call[c].inline)]
           /\ D!Goto(c, "check")
  <2>1. /\ "check" \in Labels /\ "check" \notin Keyed
        /\ "check" \notin Builds /\ "check" \notin Stores
    BY DEF Labels, Keyed, Builds, Stores
  <2>2. pc'[c] = "check"
    BY <1>0, <1>3, <2>1, WentTo DEF Holding
  <2>3. /\ got' = [d \in Cmds |-> got'[d]]
        /\ got'[c] = D!Override(got[c], call[c].entry, call[c].inline)
        /\ \A d \in Cmds \ {c} : got'[d] = got[d]
    BY <1>0, <1>3 DEF Holding
  <2>4. c \notin racy => OfKey(c)'
    <3> SUFFICES ASSUME c \notin racy, key[c] # None
                 PROVE  \E m \in D!Described(key[c]) :
                          got'[c] = D!Override(m, call[c].entry, call[c].inline)
      BY <1>1, <2>1, <2>2 DEF OfKey, D!Described, D!Override
    <3>1. got[c] \in D!Described(key[c])
      BY <1>1 DEF DescribeInv, OfKey
    <3> QED
      BY <2>3, <3>1
  <2> QED
    BY <1>1, <1>3, <2>1, <2>3, <2>4, GoesOn
<1> QED
  BY <1>2, <1>3 DEF D!Entry

LEMMA CheckStep == ASSUME DescribeInv, NEW c \in Cmds, D!CheckInput(c) PROVE DescribeInv'
<1>0. Holding /\ KeyOwn
  BY DEF DescribeInv
<1>1. /\ pc[c] = "check"
      /\ UNCHANGED <<src, edits, call, key, snap, bin, got, uplift, pin, cache, racy, racyKeys>>
  BY DEF D!CheckInput, D!Outside, D!target, D!cmd
<1>2. PICK l \in {"refused", "sent"} : D!Goto(c, l)
  BY DEF D!CheckInput
<1>3. l \in Labels /\ l \notin Keyed /\ l \notin Builds /\ l \notin Stores /\ l # "start"
  BY DEF Labels, Keyed, Builds, Stores
<1>4. pc'[c] = l /\ got' = [d \in Cmds |-> got'[d]]
  BY <1>0, <1>1, <1>2, <1>3, WentTo DEF Holding
<1>5. c \notin racy => OfKey(c)'
  <2> SUFFICES ASSUME c \notin racy PROVE OfKey(c)'
    OBVIOUS
  <2>1. key[c] # None => \E m \in D!Described(key[c]) :
                            got[c] = D!Override(m, call[c].entry, call[c].inline)
    BY <1>1 DEF DescribeInv, OfKey
  <2> QED
    BY <1>1, <1>3, <1>4, <2>1 DEF OfKey, D!Described, D!Override
<1> QED
  BY <1>1, <1>2, <1>3, <1>4, <1>5, GoesOn

(* An edit misleads who has a key and has not read the source.             *)
LEMMA EditStep == ASSUME DescribeInv, NEW p \in Pkgs, D!Edit(p) PROVE DescribeInv'
<1>0. D!TypeOK /\ Holding /\ KeyOwn /\ Cached
  BY DEF DescribeInv
<1>1. /\ UNCHANGED <<call, pc, key, snap, bin, got, uplift, pin, cache, racyKeys>>
      /\ racy' = racy \cup {c \in Cmds : D!Pkg(c) = p /\ pc[c] \in {"load", "read", "rload", "remote"}}
  BY DEF D!Edit, D!target, D!cmd
<1>2. src' \in [Pkgs -> Versions] /\ \A q \in Pkgs \ {p} : src'[q] = src[q]
  BY <1>0 DEF D!Edit, D!TypeOK
<1>3. D!TypeOK' /\ Cached'
  BY <1>0, <1>1, <1>2 DEF D!TypeOK, Cached
<1>4. Holding' /\ KeyOwn'
  BY <1>0, <1>1 DEF Holding, KeyOwn, D!Pkg
<1>5. ASSUME NEW d \in Cmds \ racy' PROVE OfKey(d)'
  <2>1. D!Pkg(d) \in Pkgs
    BY <1>0, DescribeConstants DEF Holding, D!CommandsType, D!Pkg
  <2> QED
    BY <1>1, <1>2, <1>5, <2>1, OthersKeep
<1> QED
  BY <1>3, <1>4, <1>5 DEF DescribeInv

(* Every step of a command, or of the user, keeps the invariant.           *)
LEMMA DescribeStep == DescribeInv /\ [D!Next]_D!vars => DescribeInv'
<1> SUFFICES ASSUME DescribeInv, [D!Next]_D!vars PROVE DescribeInv'
  OBVIOUS
<1>1. CASE UNCHANGED D!vars
  <2> USE <1>1 DEF D!vars, D!cmd, D!target
  <2>1. D!TypeOK' /\ Holding' /\ KeyOwn' /\ Cached'
    BY DEF DescribeInv, D!TypeOK, Holding, KeyOwn, Cached, D!Pkg
  <2>2. ASSUME NEW d \in Cmds \ racy' PROVE OfKey(d)'
    BY <2>2, OthersKeep
  <2> QED
    BY <2>1, <2>2 DEF DescribeInv
<1> QED
  BY <1>1, NoBuildStep, ComputeKeyStep, LoadStep, ReadStep, BuildStep, UnpinStep, LinkStep,
     DescribeItStep, RemoteStep, TruncateStep, StoreStep, DiffStep, EntryStep, CheckStep,
     EditStep DEF D!Next, D!Step

(* A command that goes on has the manifest of its own key.                 *)
LEMMA DescribePromises == DescribeInv => D!TypeOK /\ D!FreshManifest
BY DEF DescribeInv, OfKey, KeyOwn, D!FreshManifest

-------------------------------------------------------------------------------
(* A container publishes its runner or an archive, after its own build,    *)
(* and writes to an inode of the name it publishes.                        *)
Publishes(c) ==
  /\ pc[c] \in C!Publishing => /\ name[c] \in {Source[c], Zstd, Gzip}
                               /\ runner[c] = Source[c]
  /\ pc[c] \in {"fill", "rename"} => fd[c] \in C!Inodes /\ fd[c][2] = name[c]

(* A name and its `.tmp` are inodes created under that name.               *)
Named(n) == /\ final[n] # None => final[n][2] = n
            /\ tmp[n] # None => tmp[n][2] = n

(* A container that may still create its inode of its runner's name.       *)
Fresh(c) == \/ pc[c] \in {"idle", "lookup", "build"}
            \/ pc[c] = "open" /\ name[c] = Source[c]

(* What holds of a source no two containers were building at once: it has  *)
(* one writer, which has the inode of its `.tmp` open; that inode is not   *)
(* the one its name holds, which is a whole runner; and neither is still   *)
(* to be created.                                                          *)
OneWriter(k) == \A c, d \in Containers :
  /\ Source[c] = k /\ Source[d] = k
  /\ pc[c] \notin C!Settled /\ pc[d] \notin C!Settled
  => c = d
Holds(k) == \A c \in Containers :
  Source[c] = k /\ name[c] = k /\ pc[c] \in {"fill", "rename"} =>
    /\ fd[c] = tmp[k]
    /\ pc[c] = "rename" => content[fd[c]] = k
Apart(k) == tmp[k] # None => tmp[k] # final[k]
Created(k) == \A c \in Containers :
  Source[c] = k /\ Fresh(c) => <<c, k>> \notin {final[k], tmp[k]} \ {None}
Stored(k) == final[k] # None => content[final[k]] = k
Served(k) == \A c \in Containers : Source[c] = k /\ pc[c] = "ready" => runner[c] = k
Safe(k) == /\ OneWriter(k) /\ Holds(k) /\ Apart(k)
           /\ Created(k) /\ Stored(k) /\ Served(k)

CacheInv == /\ C!TypeOK
            /\ \A c \in Containers : Publishes(c)
            /\ \A n \in C!Names : Named(n)
            /\ \A k \in Keys \ raced : Safe(k)

-------------------------------------------------------------------------------
(* Every inode is a pair, the second part a name.                          *)
LEMMA InodePairs == \A i \in C!Inodes : i[2] \in C!Names /\ i = <<i[1], i[2]>>
BY DEF C!Inodes

LEMMA CacheStarts == C!Init => CacheInv
<1> SUFFICES ASSUME C!Init PROVE CacheInv
  OBVIOUS
<1> USE CacheConstants DEF C!Init, C!Settled, C!Publishing, C!Names, C!Data
<1>1. C!TypeOK
  BY DEF C!TypeOK
<1>2. \A c \in Containers : Publishes(c)
  BY DEF Publishes
<1>3. \A n \in C!Names : Named(n)
  BY DEF Named
<1>4. ASSUME NEW k \in Keys PROVE Safe(k)
  <2>1. final[k] = None /\ tmp[k] = None
    OBVIOUS
  <2>2. OneWriter(k) /\ Holds(k) /\ Served(k)
    BY DEF OneWriter, Holds, Served
  <2>3. Apart(k) /\ Stored(k)
    BY <2>1 DEF Apart, Stored
  <2>4. Created(k)
    BY <2>1 DEF Created
  <2> QED
    BY <2>2, <2>3, <2>4 DEF Safe
<1> QED
  BY <1>1, <1>2, <1>3, <1>4 DEF CacheInv

(* After a publish a container publishes an archive or is ready; nothing   *)
(* of another container changes.                                           *)
LEMMA Published ==
  ASSUME C!TypeOK, NEW c \in Containers, NEW ok \in BOOLEAN,
         pc[c] \in C!Publishing, Publishes(c), C!AfterPublish(c, ok)
  PROVE  /\ pc' \in [Containers -> C!Settled \cup C!Publishing \cup {"lookup", "build"}]
         /\ name' \in [Containers -> C!Names \cup {None}]
         /\ pc'[c] \in {"open", "ready"}
         /\ pc'[c] = "open" => name'[c] \in {Zstd, Gzip}
         /\ \A d \in Containers \ {c} : pc'[d] = pc[d] /\ name'[d] = name[d]
<1> USE CacheConstants DEF C!TypeOK, C!Names, C!Settled, C!Publishing
<1>1. CASE name[c] = Source[c] /\ name' = [name EXCEPT ![c] = Zstd]
                               /\ pc' = [pc EXCEPT ![c] = "open"]
  BY <1>1
<1>2. CASE name[c] = Zstd /\ name' = [name EXCEPT ![c] = Gzip]
                          /\ pc' = [pc EXCEPT ![c] = "open"]
  BY <1>2
<1>3. CASE pc' = [pc EXCEPT ![c] = "ready"] /\ UNCHANGED name
  BY <1>3
<1> QED
  BY <1>1, <1>2, <1>3 DEF C!AfterPublish

(* Every step of a container keeps the types.                              *)
LEMMA CacheTypes == CacheInv /\ [C!Next]_C!vars => C!TypeOK'
<1> SUFFICES ASSUME CacheInv, [C!Next]_C!vars PROVE C!TypeOK'
  OBVIOUS
<1>0. C!TypeOK /\ \A c \in Containers : Publishes(c)
  BY DEF CacheInv
<1> USE <1>0, CacheConstants
    DEF C!TypeOK, C!SourceType, C!NamesType, C!Settled, C!Publishing, C!Data, C!Goto, C!volume
<1>1. CASE UNCHANGED C!vars
  BY <1>1 DEF C!vars, C!local
<1>2. ASSUME NEW c \in Containers, C!Start(c) PROVE C!TypeOK'
  BY <1>2 DEF C!Start
<1>3. ASSUME NEW c \in Containers, C!Hit(c), UNCHANGED raced PROVE C!TypeOK'
  <2>1. Source[c] \in C!Names
    BY DEF C!Names
  <2>2. content[final[Source[c]]] \in C!Data
    BY <1>3, <2>1 DEF C!Hit
  <2> QED
    BY <1>3, <2>2 DEF C!Hit
<1>4. ASSUME NEW c \in Containers, C!Miss(c), UNCHANGED raced PROVE C!TypeOK'
  <2>1. warm' \in [Containers -> BOOLEAN]
    BY <1>4 DEF C!Miss, C!Whole
  <2> QED
    BY <1>4, <2>1 DEF C!Miss
<1>5. ASSUME NEW c \in Containers, C!Build(c), UNCHANGED raced PROVE C!TypeOK'
  BY <1>5 DEF C!Build, C!Names
<1>6. ASSUME NEW c \in Containers, C!Open(c), UNCHANGED raced PROVE C!TypeOK'
  <2>1. name[c] \in C!Names
    BY <1>6 DEF C!Open, C!Names, Publishes
  <2>2. (IF tmp[name[c]] = None THEN <<c, name[c]>> ELSE tmp[name[c]]) \in C!Inodes
    BY <2>1 DEF C!Inodes
  <2> QED
    BY <1>6, <2>2 DEF C!Open
<1>7. ASSUME NEW c \in Containers, C!Fill(c), UNCHANGED raced PROVE C!TypeOK'
  <2>1. runner[c] \in C!Data
    BY <1>7 DEF C!Fill, Publishes
  <2> QED
    BY <1>7, <2>1 DEF C!Fill
<1>8. ASSUME NEW c \in Containers, C!Rename(c), UNCHANGED raced PROVE C!TypeOK'
  <2>1. /\ pc' \in [Containers -> C!Settled \cup C!Publishing \cup {"lookup", "build"}]
        /\ name' \in [Containers -> C!Names \cup {None}]
    BY <1>8, Published DEF C!Rename
  <2>2. name[c] \in C!Names
    BY <1>8 DEF C!Rename, Publishes, C!Names
  <2>3. final' \in [C!Names -> C!Inodes \cup {None}] /\ tmp' \in [C!Names -> C!Inodes \cup {None}]
    BY <1>8, <2>2 DEF C!Rename
  <2> QED
    BY <1>8, <2>1, <2>3 DEF C!Rename
<1>9. ASSUME NEW c \in Containers, C!RenameFails(c), UNCHANGED raced PROVE C!TypeOK'
  <2>1. /\ pc' \in [Containers -> C!Settled \cup C!Publishing \cup {"lookup", "build"}]
        /\ name' \in [Containers -> C!Names \cup {None}]
    BY <1>9, Published DEF C!RenameFails
  <2> QED
    BY <1>9, <2>1 DEF C!RenameFails
<1>10. ASSUME NEW c \in Containers, C!PublishFails(c), UNCHANGED raced PROVE C!TypeOK'
  <2>1. /\ pc' \in [Containers -> C!Settled \cup C!Publishing \cup {"lookup", "build"}]
        /\ name' \in [Containers -> C!Names \cup {None}]
    BY <1>10, Published DEF C!PublishFails
  <2>2. tmp' \in [C!Names -> C!Inodes \cup {None}]
    BY <1>10 DEF C!PublishFails
  <2> QED
    BY <1>10, <2>1, <2>2 DEF C!PublishFails
<1>11. ASSUME NEW c \in Containers, C!Kill(c), UNCHANGED raced PROVE C!TypeOK'
  BY <1>11 DEF C!Kill
<1> QED
  BY <1>1, <1>2, <1>3, <1>4, <1>5, <1>6, <1>7, <1>8, <1>9, <1>10, <1>11 DEF C!Next, C!Step

(* Every step keeps what a container publishes and names an inode after.   *)
LEMMA CacheNames ==
  CacheInv /\ [C!Next]_C!vars =>
    (\A c \in Containers : Publishes(c)') /\ (\A n \in C!Names : Named(n)')
<1> SUFFICES ASSUME CacheInv, [C!Next]_C!vars
             PROVE  (\A d \in Containers : Publishes(d)') /\ (\A n \in C!Names : Named(n)')
  OBVIOUS
<1>0. /\ C!TypeOK
      /\ \A d \in Containers : Publishes(d)
      /\ \A n \in C!Names : Named(n)
  BY DEF CacheInv
<1> USE <1>0, CacheConstants
    DEF C!TypeOK, C!SourceType, C!NamesType, C!Settled, C!Publishing, C!Goto, C!volume
<1>1. CASE UNCHANGED C!vars
  BY <1>1 DEF C!vars, C!local, Publishes, Named
<1>2. ASSUME NEW c \in Containers, C!Start(c)
      PROVE  (\A d \in Containers : Publishes(d)') /\ (\A n \in C!Names : Named(n)')
  BY <1>2 DEF C!Start, Publishes, Named
<1>3. ASSUME NEW c \in Containers, C!Hit(c)
      PROVE  (\A d \in Containers : Publishes(d)') /\ (\A n \in C!Names : Named(n)')
  BY <1>3 DEF C!Hit, Publishes, Named
<1>4. ASSUME NEW c \in Containers, C!Miss(c)
      PROVE  (\A d \in Containers : Publishes(d)') /\ (\A n \in C!Names : Named(n)')
  BY <1>4 DEF C!Miss, Publishes, Named
<1>5. ASSUME NEW c \in Containers, C!Build(c)
      PROVE  (\A d \in Containers : Publishes(d)') /\ (\A n \in C!Names : Named(n)')
  BY <1>5 DEF C!Build, Publishes, Named
<1>6. ASSUME NEW c \in Containers, C!Open(c)
      PROVE  (\A d \in Containers : Publishes(d)') /\ (\A n \in C!Names : Named(n)')
  <2> DEFINE inode == IF tmp[name[c]] = None THEN <<c, name[c]>> ELSE tmp[name[c]]
  <2>1. name[c] \in C!Names
    BY <1>6 DEF C!Open, C!Names, Publishes
  <2>2. inode \in C!Inodes /\ inode[2] = name[c]
    BY <2>1 DEF C!Inodes, Named
  <2>3. /\ pc' = [pc EXCEPT ![c] = "fill"] /\ pc[c] = "open"
        /\ fd' = [fd EXCEPT ![c] = inode]
        /\ tmp' = [tmp EXCEPT ![name[c]] = inode]
        /\ UNCHANGED <<name, runner, final>>
    BY <1>6 DEF C!Open
  <2> HIDE DEF inode
  <2> QED
    BY <2>1, <2>2, <2>3 DEF Publishes, Named
<1>7. ASSUME NEW c \in Containers, C!Fill(c)
      PROVE  (\A d \in Containers : Publishes(d)') /\ (\A n \in C!Names : Named(n)')
  BY <1>7 DEF C!Fill, Publishes, Named
<1>8. ASSUME NEW c \in Containers, pc[c] \in C!Publishing, NEW ok \in BOOLEAN,
             C!AfterPublish(c, ok), UNCHANGED <<fd, runner>>
      PROVE  \A d \in Containers : Publishes(d)'
  BY <1>8, Published DEF Publishes
<1>9. ASSUME NEW c \in Containers, C!Rename(c)
      PROVE  (\A d \in Containers : Publishes(d)') /\ (\A n \in C!Names : Named(n)')
  <2>1. \A d \in Containers : Publishes(d)'
    BY <1>8, <1>9 DEF C!Rename
  <2>2. name[c] \in C!Names
    BY <1>9 DEF C!Rename, Publishes, C!Names
  <2>3. \A n \in C!Names : Named(n)'
    BY <1>9, <2>2 DEF C!Rename, Named
  <2> QED
    BY <2>1, <2>3
<1>10. ASSUME NEW c \in Containers, C!RenameFails(c)
       PROVE  (\A d \in Containers : Publishes(d)') /\ (\A n \in C!Names : Named(n)')
  <2>1. \A d \in Containers : Publishes(d)'
    BY <1>8, <1>10 DEF C!RenameFails
  <2> QED
    BY <1>10, <2>1 DEF C!RenameFails, Named
<1>11. ASSUME NEW c \in Containers, C!PublishFails(c)
       PROVE  (\A d \in Containers : Publishes(d)') /\ (\A n \in C!Names : Named(n)')
  <2>1. \A d \in Containers : Publishes(d)'
    BY <1>8, <1>11 DEF C!PublishFails
  <2> QED
    BY <1>11, <2>1 DEF C!PublishFails, Named
<1>12. ASSUME NEW c \in Containers, C!Kill(c)
       PROVE  (\A d \in Containers : Publishes(d)') /\ (\A n \in C!Names : Named(n)')
  BY <1>12 DEF C!Kill, Publishes, Named
<1> QED
  BY <1>1, <1>2, <1>3, <1>4, <1>5, <1>6, <1>7, <1>9, <1>10, <1>11, <1>12 DEF C!Next, C!Step

(* Every step keeps what holds of a source that it leaves unraced.         *)
LEMMA CacheSafe ==
  CacheInv /\ [C!Next]_C!vars => \A k \in Keys \ raced' : Safe(k)'
<1> SUFFICES ASSUME CacheInv, [C!Next]_C!vars, NEW k \in Keys \ raced' PROVE Safe(k)'
  OBVIOUS
<1>0. /\ C!TypeOK
      /\ \A d \in Containers : Publishes(d)
      /\ \A n \in C!Names : Named(n)
  BY DEF CacheInv
<1>k. k \notin raced /\ k \in Keys /\ k \notin {Zstd, Gzip} /\ k \in C!Names
  <2>1. raced \subseteq raced'
    BY DEF C!Next, C!Step, C!Start, C!vars
  <2> QED
    BY <2>1, CacheConstants DEF C!NamesType, C!Names
<1>s. OneWriter(k) /\ Holds(k) /\ Apart(k) /\ Created(k) /\ Stored(k) /\ Served(k)
  BY <1>k DEF CacheInv, Safe
<1> USE <1>0, <1>k, <1>s, CacheConstants
    DEF C!TypeOK, C!SourceType, C!NamesType, C!Settled, C!Publishing, C!Goto, C!volume
<1>1. CASE UNCHANGED C!vars
  BY <1>1 DEF C!vars, C!local, Safe, OneWriter, Holds, Apart, Created, Fresh, Stored, Served
<1>2. ASSUME NEW c \in Containers, C!Start(c) PROVE Safe(k)'
  <2>1. Source[c] = k => \A d \in Containers : Source[d] = k => pc[d] \in C!Settled
    BY <1>2 DEF C!Start
  <2>2. OneWriter(k)'
    BY <1>2, <2>1 DEF C!Start, OneWriter
  <2>3. Holds(k)' /\ Apart(k)' /\ Created(k)' /\ Stored(k)' /\ Served(k)'
    BY <1>2 DEF C!Start, Holds, Apart, Created, Fresh, Stored, Served
  <2> QED
    BY <2>2, <2>3 DEF Safe
<1>3. ASSUME NEW c \in Containers, C!Hit(c) PROVE Safe(k)'
  <2>1. Source[c] = k => content[final[k]] = k
    BY <1>3 DEF C!Hit, Stored
  <2>2. Served(k)'
    BY <1>3, <2>1 DEF C!Hit, Served
  <2>3. OneWriter(k)' /\ Holds(k)' /\ Apart(k)' /\ Created(k)' /\ Stored(k)'
    BY <1>3 DEF C!Hit, OneWriter, Holds, Apart, Created, Fresh, Stored
  <2> QED
    BY <2>2, <2>3 DEF Safe
<1>4. ASSUME NEW c \in Containers, C!Miss(c) PROVE Safe(k)'
  BY <1>4 DEF C!Miss, Safe, OneWriter, Holds, Apart, Created, Fresh, Stored, Served
<1>5. ASSUME NEW c \in Containers, C!Build(c) PROVE Safe(k)'
  BY <1>5 DEF C!Build, Safe, OneWriter, Holds, Apart, Created, Fresh, Stored, Served
<1>6. ASSUME NEW c \in Containers, C!Open(c) PROVE Safe(k)'
  <2> DEFINE inode == IF tmp[name[c]] = None THEN <<c, name[c]>> ELSE tmp[name[c]]
  <2>1. /\ name[c] \in C!Names /\ name[c] \in {Source[c], Zstd, Gzip}
        /\ name[c] = k <=> name[c] = Source[c] /\ Source[c] = k
    BY <1>6 DEF C!Open, C!Names, Publishes
  <2>2. inode \in C!Inodes /\ inode[2] = name[c]
    BY <2>1 DEF C!Inodes, Named
  <2>3. name[c] = k /\ final[k] # None => inode # final[k]
    BY <1>6, <2>1 DEF C!Open, Created, Fresh, Apart
  <2>4. name[c] = k => \A d \in Containers \ {c} : Source[d] = k => pc[d] \in C!Settled
    BY <1>6, <2>1 DEF C!Open, OneWriter
  <2>5. /\ pc' = [pc EXCEPT ![c] = "fill"] /\ pc[c] = "open"
        /\ fd' = [fd EXCEPT ![c] = inode]
        /\ tmp' = [tmp EXCEPT ![name[c]] = inode]
        /\ content' = [content EXCEPT ![inode] = Torn]
        /\ UNCHANGED <<name, warm, runner, final>>
    BY <1>6 DEF C!Open
  <2>6. ASSUME name[c] = k PROVE inode = <<c, k>> \/ (inode = tmp[k] /\ tmp[k] # None)
    BY <2>6
  <2>7. final[k] # None => inode # final[k]
    BY <2>2, <2>3 DEF Named
  <2> HIDE DEF inode
  <2>8. OneWriter(k)' /\ Served(k)'
    BY <2>5 DEF OneWriter, Served
  <2>9. Holds(k)'
    <3> SUFFICES ASSUME NEW d \in Containers, Source[d] = k, name[d] = k,
                        pc'[d] \in {"fill", "rename"}
                 PROVE  fd'[d] = tmp'[k] /\ (pc'[d] = "rename" => content'[fd'[d]] = k)
      BY <2>5 DEF Holds
    <3>1. CASE d = c
      BY <2>5, <3>1
    <3>2. CASE d # c
      <4>1. name[c] # k /\ pc[d] = pc'[d] /\ fd'[d] = fd[d]
        BY <2>4, <2>5, <3>2
      <4>2. fd[d] \in C!Inodes /\ fd[d][2] = k
        BY <4>1 DEF Publishes
      <4>3. inode # fd[d]
        BY <2>2, <4>1, <4>2
      <4> QED
        BY <2>1, <2>2, <2>5, <4>1, <4>2, <4>3 DEF Holds
    <3> QED
      BY <3>1, <3>2
  <2>10. Apart(k)' /\ Stored(k)'
    BY <2>1, <2>5, <2>7 DEF Apart, Stored
  <2>11. Created(k)'
    <3> SUFFICES ASSUME NEW d \in Containers, Source[d] = k, Fresh(d)'
                 PROVE  <<d, k>> \notin {final[k], tmp'[k]} \ {None}
      BY <2>5 DEF Created
    <3>1. Fresh(d) /\ (d = c => name[c] # k)
      BY <2>5 DEF Fresh
    <3>2. <<d, k>> \notin {final[k], tmp[k]} \ {None}
      BY <3>1 DEF Created
    <3>3. CASE name[c] = k
      BY <2>5, <2>6, <3>1, <3>2, <3>3
    <3>4. CASE name[c] # k
      BY <2>5, <3>2, <3>4
    <3> QED
      BY <3>3, <3>4
  <2> QED
    BY <2>8, <2>9, <2>10, <2>11 DEF Safe
<1>7. ASSUME NEW c \in Containers, C!Fill(c) PROVE Safe(k)'
  <2>1. /\ fd[c] \in C!Inodes /\ fd[c][2] = name[c] /\ runner[c] = Source[c]
        /\ name[c] = k <=> name[c] = Source[c] /\ Source[c] = k
    BY <1>7 DEF C!Fill, Publishes
  <2>2. /\ pc' = [pc EXCEPT ![c] = "rename"] /\ pc[c] = "fill"
        /\ content' = [content EXCEPT ![fd[c]] = runner[c]]
        /\ UNCHANGED <<name, fd, warm, runner, final, tmp>>
    BY <1>7 DEF C!Fill
  <2>3. OneWriter(k)' /\ Served(k)' /\ Apart(k)' /\ Created(k)'
    BY <2>2 DEF OneWriter, Served, Apart, Created, Fresh
  <2>4. final[k] # None => fd[c] # final[k] \/ name[c] = k
    BY <2>1 DEF Named
  <2>5. Stored(k)'
    BY <2>1, <2>2, <2>4 DEF Stored
  <2>6. Holds(k)'
    <3> SUFFICES ASSUME NEW d \in Containers, Source[d] = k, name[d] = k,
                        pc'[d] \in {"fill", "rename"}
                 PROVE  fd[d] = tmp[k] /\ (pc'[d] = "rename" => content'[fd[d]] = k)
      BY <2>2 DEF Holds
    <3>1. pc[d] \in {"fill", "rename"} /\ fd[d] \in C!Inodes /\ fd[d][2] = k
      BY <2>2 DEF Publishes
    <3>2. CASE d = c
      BY <2>1, <2>2, <3>1, <3>2 DEF Holds
    <3>3. CASE d # c
      <4>1. Source[c] # k
        BY <2>2, <3>1, <3>3 DEF OneWriter
      <4>2. fd[d] # fd[c]
        BY <2>1, <3>1, <4>1
      <4> QED
        BY <2>2, <3>1, <3>3, <4>2 DEF Holds
    <3> QED
      BY <3>2, <3>3
  <2> QED
    BY <2>3, <2>5, <2>6 DEF Safe
<1>8. ASSUME NEW c \in Containers, pc[c] \in C!Publishing, NEW ok \in BOOLEAN,
             C!AfterPublish(c, ok), UNCHANGED <<fd, runner, content>>
      PROVE  /\ OneWriter(k)' /\ Served(k)'
             /\ \A d \in Containers : Source[d] = k /\ Fresh(d)' => Fresh(d) /\ d # c
             /\ \A d \in Containers :
                  Source[d] = k /\ name'[d] = k /\ pc'[d] \in {"fill", "rename"} =>
                    /\ d # c /\ name[d] = k /\ pc[d] = pc'[d]
                    /\ Source[c] # k
  <2>1. /\ pc' \in [Containers -> C!Settled \cup C!Publishing \cup {"lookup", "build"}]
        /\ pc'[c] \in {"open", "ready"}
        /\ pc'[c] = "open" => name'[c] \in {Zstd, Gzip}
        /\ \A d \in Containers \ {c} : pc'[d] = pc[d] /\ name'[d] = name[d]
        /\ runner[c] = Source[c]
    BY <1>8, Published DEF Publishes
  <2>2. OneWriter(k)'
    BY <1>8, <2>1 DEF OneWriter
  <2>3. Served(k)'
    BY <1>8, <2>1 DEF Served
  <2>4. ASSUME NEW d \in Containers, Source[d] = k, Fresh(d)' PROVE Fresh(d) /\ d # c
    <3>1. d # c
      BY <2>1, <2>4 DEF Fresh
    <3> QED
      BY <2>1, <2>4, <3>1 DEF Fresh
  <2>5. ASSUME NEW d \in Containers, Source[d] = k, name'[d] = k,
               pc'[d] \in {"fill", "rename"}
        PROVE  d # c /\ name[d] = k /\ pc[d] = pc'[d] /\ Source[c] # k
    BY <1>8, <2>1, <2>5 DEF OneWriter
  <2> QED
    BY <2>2, <2>3, <2>4, <2>5
<1>9. ASSUME NEW c \in Containers, C!Rename(c) PROVE Safe(k)'
  <2>1. /\ name[c] \in C!Names
        /\ name[c] = k <=> name[c] = Source[c] /\ Source[c] = k
    BY <1>9 DEF C!Rename, C!Names, Publishes
  <2>2. /\ pc[c] = "rename" /\ tmp[name[c]] # None
        /\ tmp' = [tmp EXCEPT ![name[c]] = None]
        /\ final'[k] = (IF name[c] = k THEN tmp[k] ELSE final[k])
        /\ UNCHANGED <<fd, warm, runner, content>>
    BY <1>9 DEF C!Rename
  <2>3. /\ OneWriter(k)' /\ Served(k)'
        /\ \A d \in Containers : Source[d] = k /\ Fresh(d)' => Fresh(d) /\ d # c
        /\ \A d \in Containers :
             Source[d] = k /\ name'[d] = k /\ pc'[d] \in {"fill", "rename"} =>
               /\ d # c /\ name[d] = k /\ pc[d] = pc'[d]
               /\ Source[c] # k
    BY <1>8, <1>9 DEF C!Rename
  <2>4. Apart(k)' /\ Stored(k)'
    BY <2>1, <2>2 DEF Apart, Stored, Holds
  <2>5. Created(k)'
    BY <2>1, <2>2, <2>3 DEF Created
  <2>6. Holds(k)'
    BY <2>1, <2>2, <2>3 DEF Holds
  <2> QED
    BY <2>3, <2>4, <2>5, <2>6 DEF Safe
<1>10. ASSUME NEW c \in Containers, C!RenameFails(c) PROVE Safe(k)'
  <2>1. /\ OneWriter(k)' /\ Served(k)'
        /\ \A d \in Containers : Source[d] = k /\ Fresh(d)' => Fresh(d) /\ d # c
        /\ \A d \in Containers :
             Source[d] = k /\ name'[d] = k /\ pc'[d] \in {"fill", "rename"} =>
               /\ d # c /\ name[d] = k /\ pc[d] = pc'[d]
               /\ Source[c] # k
    BY <1>8, <1>10 DEF C!RenameFails
  <2>2. UNCHANGED <<fd, warm, runner, final, tmp, content>>
    BY <1>10 DEF C!RenameFails
  <2>3. Apart(k)' /\ Stored(k)' /\ Created(k)' /\ Holds(k)'
    BY <2>1, <2>2 DEF Apart, Stored, Created, Holds
  <2> QED
    BY <2>1, <2>3 DEF Safe
<1>11. ASSUME NEW c \in Containers, C!PublishFails(c) PROVE Safe(k)'
  <2>1. /\ OneWriter(k)' /\ Served(k)'
        /\ \A d \in Containers : Source[d] = k /\ Fresh(d)' => Fresh(d) /\ d # c
        /\ \A d \in Containers :
             Source[d] = k /\ name'[d] = k /\ pc'[d] \in {"fill", "rename"} =>
               /\ d # c /\ name[d] = k /\ pc[d] = pc'[d]
               /\ Source[c] # k
    BY <1>8, <1>11 DEF C!PublishFails
  <2>2. tmp'[k] = tmp[k] /\ UNCHANGED <<fd, warm, runner, final, content>>
    <3>1. name[c] \in {Source[c], Zstd, Gzip}
      BY <1>11 DEF C!PublishFails, Publishes
    <3> QED
      BY <1>11, <3>1 DEF C!PublishFails
  <2>3. Apart(k)' /\ Stored(k)' /\ Created(k)' /\ Holds(k)'
    BY <2>1, <2>2 DEF Apart, Stored, Created, Holds
  <2> QED
    BY <2>1, <2>3 DEF Safe
<1>12. ASSUME NEW c \in Containers, C!Kill(c) PROVE Safe(k)'
  BY <1>12 DEF C!Kill, Safe, OneWriter, Holds, Apart, Created, Fresh, Stored, Served
<1> QED
  BY <1>1, <1>2, <1>3, <1>4, <1>5, <1>6, <1>7, <1>9, <1>10, <1>11, <1>12 DEF C!Next, C!Step

LEMMA CacheStep == CacheInv /\ [C!Next]_C!vars => CacheInv'
BY CacheTypes, CacheNames, CacheSafe DEF CacheInv

LEMMA CachePromises == CacheInv => C!TypeOK /\ C!ExactRunner
<1> SUFFICES ASSUME CacheInv, NEW c \in Containers,
                    pc[c] = "ready", Source[c] \notin raced
             PROVE  runner[c] = Source[c]
  BY DEF CacheInv, C!ExactRunner
<1>1. Source[c] \in Keys \ raced
  BY CacheConstants DEF C!SourceType
<1> QED
  BY <1>1 DEF CacheInv, Safe, Served
===============================================================================
