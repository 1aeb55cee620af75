----------------------------- MODULE DescribeCache -----------------------------
(***************************************************************************)
(* Where a run or a deploy takes its entrypoints and their configuration   *)
(* from (modal-rust-cli/src/programmatic.rs, describe_cache.rs): commands  *)
(* of any packages of one workspace build the runner locally or on Modal,  *)
(* ask it to --describe itself and cache the manifest.  They share one     *)
(* target directory, and the user edits sources all the while.             *)
(*                                                                         *)
(* The target directory holds the path debug/modal_runner that cargo links *)
(* every package's runner to, a pin .modal-rust/runner-<package> per       *)
(* package, and a describe-<key>.json per key.  Cargo locks it while it    *)
(* builds; nothing else of a command is locked.  Cargo is taken to link a  *)
(* whole runner whenever it builds, and to use no target directory that a  *)
(* .cargo/config.toml names.                                               *)
(*                                                                         *)
(* Abstracted: a version is the closure's *.rs, Cargo.toml and Cargo.lock  *)
(* and what follows from them (generatable or own bin); a runner is        *)
(* <<package, version>>; a manifest is a function from entrypoints to      *)
(* configurations.  Here(p, v) is what the runner describes on the machine *)
(* of the user, There(p, v) on Modal, with None for one that does not      *)
(* build.  MaxEdits bounds the edits.                                      *)
(***************************************************************************)
EXTENDS Naturals, FiniteSets

CONSTANTS Cmds, Pkgs, Versions, Entries, None, Partial,
          Here(_, _), There(_, _),
          Shape(_, _),   \* the input shape of the entrypoints of a version
          Targets,       \* target directories earlier commands left
          Commands,      \* what is called: [Cmds -> [pkg, entry, input, flags,
                         \*   inline]], inline None where no field is overridden
          MaxEdits

CacheKeys == Pkgs \X Versions
Described(k) == {Here(k[1], k[2]), There(k[1], k[2])}
Manifests == UNION {Described(k) : k \in CacheKeys}

TargetsType ==
  \A t \in Targets :
    /\ t.uplift \in CacheKeys \cup {None, Partial}
    /\ t.pin \in [Pkgs -> CacheKeys \cup {None, Partial}]
    /\ t.cache \in [CacheKeys -> Manifests \cup {None, Partial}]
    /\ \A k \in CacheKeys : t.cache[k] \in Described(k) \cup {None, Partial}
CommandsType ==
  \A d \in Commands : DOMAIN d = Cmds /\ \A c \in Cmds : d[c].pkg \in Pkgs
NoKey == {None, Partial} \cap CacheKeys = {}

VARIABLES
  src,       \* package -> version on disk
  edits,     \* edits so far
  uplift,    \* runner at debug/modal_runner, Partial or None
  pin,       \* package -> the same at .modal-rust/runner-<package>
  cache,     \* key -> manifest, Partial or None
  call,      \* command -> what it was called with
  pc,        \* command -> program counter
  key,       \* command -> cache key <<package, version>>
  snap,      \* command -> version its build reads
  bin,       \* command -> "pin", "uplift" or None: runner_bin
  local,     \* command -> manifest of the local describe, or None
  got,       \* command -> manifest in hand, or None
  racy,      \* history: commands another actor's step may have misled
  racyKeys   \* history: keys stored by such commands

target == <<uplift, pin, cache>>
cmd == <<key, snap, bin, local, got>>
vars == <<src, edits, target, call, pc, cmd, racy, racyKeys>>

Empty == [e \in {} |-> None]
Pkg(c) == call[c].pkg

-------------------------------------------------------------------------------
(* describe_outcome: --manifest implies --no-local-build (main.rs), which  *)
(* wins over --verify-manifest, which wins over --remote-describe.         *)
ManifestFrom(f) == CASE "manifest" \in f -> "file"
                     [] "no_local_build" \in f /\ "manifest" \notin f -> "flags"
                     [] "verify" \in f /\ f \cap {"manifest", "no_local_build"} = {} -> "verify"
                     [] f = {"remote"} -> "remote"
                     [] OTHER -> "local"

(* Inline flags replace the fields they name; here one field.              *)
Override(m, e, value) == IF value = None \/ e \notin DOMAIN m THEN m
                         ELSE [m EXCEPT ![e] = value]

Init == /\ src \in [Pkgs -> Versions]
        /\ edits = 0
        /\ \E t \in Targets :
             uplift = t.uplift /\ pin = t.pin /\ cache = t.cache
        /\ call \in Commands
        /\ pc = [c \in Cmds |-> "start"]
        /\ key = [c \in Cmds |-> None]
        /\ snap = [c \in Cmds |-> None]
        /\ bin = [c \in Cmds |-> None]
        /\ local = [c \in Cmds |-> None]
        /\ got = [c \in Cmds |-> None]
        /\ racy = {}
        /\ racyKeys = {}

Goto(c, label) == pc' = [pc EXCEPT ![c] = label]
Outside == UNCHANGED <<src, edits, call>>

-------------------------------------------------------------------------------
(* --no-local-build: the file, or one entry synthesised from the flags.    *)
NoBuild(c) ==
  /\ pc[c] = "start" /\ ManifestFrom(call[c].flags) \in {"file", "flags"}
  /\ \/ /\ got' = [got EXCEPT ![c] =
              IF ManifestFrom(call[c].flags) = "flags" THEN [e \in {call[c].entry} |-> None]
              ELSE [e \in Entries |-> None]]
        /\ Goto(c, "entry")
     \/ ManifestFrom(call[c].flags) = "file" /\ Goto(c, "error") /\ UNCHANGED got
  /\ UNCHANGED <<key, snap, bin, local, target, racy, racyKeys>> /\ Outside

(* Mutant: the key leaves the package out.                                 *)
KeyByVersion(c) == <<CHOOSE p \in Pkgs : TRUE, src[Pkg(c)]>>
(* The package and the source of its closure, read before anything else.   *)
KeyOf(c) == <<Pkg(c), src[Pkg(c)]>>

(* The key is computed, and the cache is consulted next.                   *)
ComputeKey(c) ==
  /\ \/ pc[c] = "start" /\ ManifestFrom(call[c].flags) \in {"local", "verify"} /\ Goto(c, "load")
     \/ pc[c] = "start" /\ ManifestFrom(call[c].flags) = "remote" /\ Goto(c, "rload")
     \/ pc[c] = "rstart" /\ Goto(c, "rload")
  /\ key' = [key EXCEPT ![c] = KeyOf(c)]
  /\ UNCHANGED <<snap, bin, local, got, target, racy, racyKeys>> /\ Outside

(* parse_and_check on cached bytes.                                        *)
Parses(m) == m \notin {None, Partial}

(* The manifest m in hand: --verify-manifest describes on Modal next and   *)
(* then compares; an empty one is an error.                                *)
Take(c, m, remote) ==
  CASE m = Empty -> Goto(c, "error") /\ UNCHANGED <<local, got>>
    [] m # Empty /\ ManifestFrom(call[c].flags) = "verify" /\ ~remote ->
         Goto(c, "rstart") /\ local' = [local EXCEPT ![c] = m] /\ UNCHANGED got
    [] OTHER ->
         /\ Goto(c, IF ManifestFrom(call[c].flags) = "verify" THEN "diff" ELSE "entry")
         /\ got' = [got EXCEPT ![c] = m]
         /\ UNCHANGED local

(* A hit needs no build; the pinned runner is kept if there is one.        *)
Load(c) ==
  /\ pc[c] \in {"load", "rload"}
  /\ IF Parses(cache[key[c]])
       THEN /\ Take(c, cache[key[c]], pc[c] = "rload")
            /\ bin' = IF pc[c] = "load" /\ pin[Pkg(c)] # None
                        THEN [bin EXCEPT ![c] = "pin"] ELSE bin
            /\ racy' = IF key[c] \in racyKeys THEN racy \cup {c} ELSE racy
       ELSE /\ Goto(c, IF pc[c] = "load" THEN "read" ELSE "remote")
            /\ UNCHANGED <<bin, local, got, racy>>
  /\ UNCHANGED <<key, snap, target, racyKeys>> /\ Outside

-------------------------------------------------------------------------------
(* The build reads the source: materialize_shadow, or cargo in place.      *)
Read(c) ==
  /\ pc[c] = "read"
  /\ snap' = [snap EXCEPT ![c] = src[Pkg(c)]]
  /\ Goto(c, "build")
  /\ UNCHANGED <<key, bin, local, got, target, racy, racyKeys>> /\ Outside

(* Whoever is between its own build and its pin may find another runner,   *)
(* and so may whoever is about to execute the shared path itself.          *)
Linking(c) == {d \in Cmds \ {c} : \/ pc[d] \in {"unpin", "link"}
                                  \/ pc[d] = "describe" /\ bin[d] = "uplift"}

(* cargo build, and the link it makes at the one shared path.  If cargo    *)
(* reports no artifact the shared path is what is executed.                *)
Build(c) ==
  /\ pc[c] = "build"
  /\ IF Here(Pkg(c), snap[c]) = None
       THEN Goto(c, "error") /\ UNCHANGED <<uplift, bin, racy>>
       ELSE /\ uplift' = <<Pkg(c), snap[c]>>
            /\ racy' = racy \cup Linking(c)
            /\ \/ Goto(c, "unpin") /\ UNCHANGED bin
               \/ Goto(c, "describe") /\ bin' = [bin EXCEPT ![c] = "uplift"]
  /\ UNCHANGED <<key, snap, local, got, pin, cache, racyKeys>> /\ Outside

(* Whoever of this package is about to execute the pin may miss it.        *)
Executing(c) ==
  {d \in Cmds \ {c} : Pkg(d) = Pkg(c) /\ pc[d] = "describe" /\ bin[d] = "pin"}

(* scope_runner_artifact: remove the old pin,                              *)
Unpin(c) ==
  /\ pc[c] = "unpin"
  /\ pin' = [pin EXCEPT ![Pkg(c)] = None]
  /\ racy' = racy \cup Executing(c)
  /\ Goto(c, "link")
  /\ UNCHANGED <<key, snap, bin, local, got, uplift, cache, racyKeys>> /\ Outside

(* and link or copy what the shared path holds now.  If another command    *)
(* has linked this very file under the name since, fs::copy copies it onto *)
(* itself, which empties it; and if neither works, the copy left in part   *)
(* or not, the shared path is executed as it is.                           *)
Link(c) ==
  /\ pc[c] = "link"
  /\ \/ /\ pin' = [pin EXCEPT ![Pkg(c)] = uplift]
        /\ bin' = [bin EXCEPT ![c] = "pin"]
        /\ UNCHANGED uplift
     \/ /\ pin[Pkg(c)] # None /\ pin[Pkg(c)] = uplift
        /\ pin' = [pin EXCEPT ![Pkg(c)] = Partial]
        /\ bin' = [bin EXCEPT ![c] = "pin"]
        /\ uplift' = Partial
     \/ /\ pin' \in {pin, [pin EXCEPT ![Pkg(c)] = Partial]}
        /\ bin' = [bin EXCEPT ![c] = "uplift"]
        /\ UNCHANGED uplift
  /\ racy' = racy \cup Executing(c)
  /\ Goto(c, "describe")
  /\ UNCHANGED <<key, snap, local, got, cache, racyKeys>> /\ Outside

Runner(c) == IF bin[c] = "pin" THEN pin[Pkg(c)] ELSE uplift

(* --describe of that runner; no runner there, or a part of one, is an     *)
(* error.                                                                  *)
Describe(c) ==
  /\ pc[c] = "describe"
  /\ IF Runner(c) \in {None, Partial} \/ Here(Runner(c)[1], Runner(c)[2]) = Empty
       THEN Goto(c, "error") /\ UNCHANGED got
       ELSE /\ got' = [got EXCEPT ![c] = Here(Runner(c)[1], Runner(c)[2])]
            /\ Goto(c, "store")
  /\ UNCHANGED <<key, snap, bin, local, target, racy, racyKeys>> /\ Outside

(* remote_describe_manifest: upload, build and describe on Modal, any of   *)
(* which may fail.                                                         *)
Remote(c) ==
  /\ pc[c] = "remote"
  /\ LET m == There(Pkg(c), src[Pkg(c)]) IN
     \/ Goto(c, "error") /\ UNCHANGED got
     \/ /\ m \notin {None, Empty}
        /\ got' = [got EXCEPT ![c] = m]
        /\ Goto(c, "rstore")
  /\ UNCHANGED <<key, snap, bin, local, target, racy, racyKeys>> /\ Outside

(* store writes in place: the file is empty, then partial, then whole; a   *)
(* second writer of the same file may leave a mixture.                     *)
Truncate(c) ==
  /\ pc[c] \in {"store", "rstore"}
  /\ cache' = [cache EXCEPT ![key[c]] = Partial]
  /\ Goto(c, IF pc[c] = "store" THEN "storing" ELSE "rstoring")
  /\ UNCHANGED <<key, snap, bin, local, got, uplift, pin, racy, racyKeys>> /\ Outside

Store(c) ==
  /\ pc[c] \in {"storing", "rstoring"}
  /\ \E m \in {got[c]} \cup
             (IF \E d \in Cmds \ {c} : pc[d] \in {"storing", "rstoring"} /\ key[d] = key[c]
                THEN {Partial} ELSE {}) :
       cache' = [cache EXCEPT ![key[c]] = m]
  /\ racyKeys' = IF c \in racy THEN racyKeys \cup {key[c]} ELSE racyKeys
  /\ Take(c, got[c], pc[c] = "rstoring")
  /\ UNCHANGED <<key, snap, bin, uplift, pin, racy>> /\ Outside

(* diff_manifests: same entrypoints, same configurations; the local one is *)
(* used.                                                                   *)
Diff(c) ==
  /\ pc[c] = "diff"
  /\ IF got[c] = local[c] THEN Goto(c, "entry") ELSE Goto(c, "diverged")
  /\ UNCHANGED <<cmd, target, racy, racyKeys>> /\ Outside

-------------------------------------------------------------------------------
(* The entrypoint must be in the manifest; the overrides are applied.      *)
Entry(c) ==
  /\ pc[c] = "entry"
  /\ IF call[c].entry \in DOMAIN got[c]
       THEN /\ got' = [got EXCEPT ![c] = Override(@, call[c].entry, call[c].inline)]
            /\ Goto(c, "check")
       ELSE Goto(c, "error") /\ UNCHANGED got
  /\ UNCHANGED <<key, snap, bin, local, target, racy, racyKeys>> /\ Outside

(* validate_input_locally: a runner that is there, knows the entrypoint    *)
(* and cannot decode the input stops the call; a part of one may stop it   *)
(* too, by exiting with an error.                                          *)
Rejects(c) == /\ bin[c] # None /\ Runner(c) \notin {None, Partial}
              /\ call[c].entry \in DOMAIN Here(Runner(c)[1], Runner(c)[2])
              /\ call[c].input # Shape(Runner(c)[1], Runner(c)[2])
Breaks(c) == bin[c] # None /\ Runner(c) = Partial
CheckInput(c) ==
  /\ pc[c] = "check"
  /\ \/ (Rejects(c) \/ Breaks(c)) /\ Goto(c, "refused")
     \/ ~Rejects(c) /\ Goto(c, "sent")
  /\ UNCHANGED <<cmd, target, racy, racyKeys>> /\ Outside

(* The user edits the closure of a package, under the commands that have   *)
(* computed their key and not read the source yet.                         *)
Edit(p) ==
  /\ edits < MaxEdits
  /\ edits' = edits + 1
  /\ \E v \in Versions \ {src[p]} : src' = [src EXCEPT ![p] = v]
  /\ racy' = racy \cup {c \in Cmds : Pkg(c) = p /\ pc[c] \in {"load", "read", "rload", "remote"}}
  /\ UNCHANGED <<target, call, pc, cmd, racyKeys>>

Step(c) == \/ NoBuild(c) \/ ComputeKey(c) \/ Load(c) \/ Read(c) \/ Build(c)
           \/ Unpin(c) \/ Link(c) \/ Describe(c) \/ Remote(c) \/ Truncate(c)
           \/ Store(c) \/ Diff(c) \/ Entry(c) \/ CheckInput(c)
Next == (\E c \in Cmds : Step(c)) \/ (\E p \in Pkgs : Edit(p))
Spec == Init /\ [][Next]_vars

-------------------------------------------------------------------------------
(* Types of what commands share and of where they are.                     *)
TypeOK ==
  /\ src \in [Pkgs -> Versions]
  /\ uplift \in CacheKeys \cup {None, Partial}
  /\ pin \in [Pkgs -> CacheKeys \cup {None, Partial}]
  /\ cache \in [CacheKeys -> Manifests \cup {None, Partial}]
  /\ key \in [Cmds -> CacheKeys \cup {None}]
  /\ bin \in [Cmds -> {"pin", "uplift", None}]
  /\ racy \subseteq Cmds /\ racyKeys \subseteq CacheKeys

(* What a command goes on with is the manifest of its own package at the   *)
(* source it computed its key from, described here or on Modal, with the   *)
(* overrides of this command and no other's: partial files, builds of other*)
(* packages and other commands' pins notwithstanding, unless an actor moved*)
(* in one of the four windows that racy records: an edit between the key   *)
(* and the read of the source, another build between this one and its pin, *)
(* another build before the shared path is executed for want of a pin, and *)
(* another pin of the package before this one is executed                  *)
(* (programmatic.rs:343-376, 461-473, 784-793, describe_cache.rs:115-127). *)
FreshManifest ==
  \A c \in Cmds :
    pc[c] \in {"check", "sent", "refused"} /\ key[c] # None /\ c \notin racy =>
      \E m \in Described(key[c]) :
        /\ key[c][1] = Pkg(c)
        /\ got[c] = Override(m, call[c].entry, call[c].inline)

(* --verify-manifest goes on only if the two machines describe the same    *)
(* (main.rs:84-85, "Build the describe manifest BOTH locally and on Modal, *)
(* diff them per entrypoint, and bail on divergence").                     *)
VerifyCompares ==
  \A c \in Cmds :
    pc[c] \in {"check", "sent"} /\ ManifestFrom(call[c].flags) = "verify" /\ c \notin racy =>
      Here(key[c][1], key[c][2]) = There(key[c][1], key[c][2])
===============================================================================
