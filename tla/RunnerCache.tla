------------------------------- MODULE RunnerCache -------------------------------
(***************************************************************************)
(* The runner-binary cache and the cargo archive that the RUN wrapper      *)
(* keeps on a Modal Volume (remote/wrapper.py: _build and what it calls),  *)
(* shared by every container that mounts the volume.                       *)
(*                                                                         *)
(* A container takes a runner built from exactly its source, or unpacks    *)
(* the archive, builds, publishes the runner and repacks the archive; each *)
(* publish fills `<name>.tmp` and renames it.  The volume is modelled as   *)
(* what "tmp + rename" relies on: names for inodes, open that truncates,   *)
(* an atomic rename, writers that keep the inode they opened.              *)
(*                                                                         *)
(* Abstracted: a source is its key (_source_key); cargo builds the source  *)
(* it is given; a failed build raises, leaves nothing and is the state     *)
(* before it; the marker file is `pc` being past "build".                  *)
(***************************************************************************)
CONSTANTS Containers, Keys,
          Source,      \* the source each container mounts
          Zstd, Gzip,  \* the two archive names
          None, Torn

SourceType == Source \in [Containers -> Keys]
NamesType == /\ {Zstd, Gzip} \cap Keys = {} /\ Zstd # Gzip
                    /\ Torn \notin Keys /\ None \notin Keys

VARIABLES
  pc,       \* where each container is in _build
  name,     \* the name it is publishing
  fd,       \* the inode it has open
  warm,     \* its unpack said WARM
  runner,   \* its /tmp/target/release/modal_runner
  final,    \* volume: name -> inode
  tmp,      \* volume: name.tmp -> inode
  content,  \* volume: inode -> what it holds
  raced     \* history: sources two containers were building at once

local == <<pc, name, fd, warm, runner>>
volume == <<final, tmp, content>>
vars == <<local, volume, raced>>

-------------------------------------------------------------------------------
Names == Keys \cup {Zstd, Gzip}
Inodes == Containers \X Names
Data == Keys \cup {Torn}
Publishing == {"open", "fill", "rename"}
Settled == {"idle", "ready", "killed"}

Init == /\ pc = [c \in Containers |-> "idle"]
        /\ name = [c \in Containers |-> None]
        /\ fd = [c \in Containers |-> None]
        /\ warm = [c \in Containers |-> FALSE]
        /\ runner = [c \in Containers |-> None]
        /\ final = [n \in Names |-> None]
        /\ tmp = [n \in Names |-> None]
        /\ content = [i \in Inodes |-> Torn]
        /\ raced = {}

Goto(c, from, to) == /\ pc[c] = from
                     /\ pc' = [pc EXCEPT ![c] = to]

Whole(n) == final[n] # None /\ content[final[n]] # Torn

(* The first call of a container.                                          *)
Start(c) ==
  /\ Goto(c, "idle", "lookup")
  /\ raced' = raced \cup {k \in {Source[c]} :
                \E d \in Containers : Source[d] = k /\ pc[d] \notin Settled}
  /\ UNCHANGED <<name, fd, warm, runner, volume>>

(* _try_cached_runner: copy what the name holds now ...                    *)
Hit(c) == /\ Goto(c, "lookup", "ready")
          /\ final[Source[c]] # None
          /\ runner' = [runner EXCEPT ![c] = content[final[Source[c]]]]
          /\ UNCHANGED <<name, fd, warm, volume>>

(* ... or, with no runner there or a copy that failed, _unpack_cache: an   *)
(* archive that cannot be unpacked is treated as cold.                     *)
Miss(c) ==
  /\ Goto(c, "lookup", "build")
  /\ LET archive == IF final[Zstd] # None THEN Zstd ELSE Gzip
     IN \E ok \in {FALSE, Whole(archive)} : warm' = [warm EXCEPT ![c] = ok]
  /\ UNCHANGED <<name, fd, runner, volume>>

(* cargo build, then _store_cached_runner.                                 *)
Build(c) == /\ Goto(c, "build", "open")
            /\ runner' = [runner EXCEPT ![c] = Source[c]]
            /\ name' = [name EXCEPT ![c] = Source[c]]
            /\ UNCHANGED <<fd, warm, volume>>

(* Mutant: the runner is copied straight to its final name.                *)
OpenFinal(c) ==
  LET n == name[c]
      inode == IF final[n] = None THEN <<c, n>> ELSE final[n]
  IN /\ Goto(c, "open", "fill")
     /\ fd' = [fd EXCEPT ![c] = inode]
     /\ tmp' = [tmp EXCEPT ![n] = inode]
     /\ final' = [final EXCEPT ![n] = inode]
     /\ content' = [content EXCEPT ![inode] = Torn]
     /\ UNCHANGED <<name, warm, runner>>
(* Open `<name>.tmp` for writing: a new inode, or the one that is there,   *)
(* truncated.                                                              *)
Open(c) ==
  LET n == name[c]
      inode == IF tmp[n] = None THEN <<c, n>> ELSE tmp[n]
  IN /\ Goto(c, "open", "fill")
     /\ fd' = [fd EXCEPT ![c] = inode]
     /\ tmp' = [tmp EXCEPT ![n] = inode]
     /\ content' = [content EXCEPT ![inode] = Torn]
     /\ UNCHANGED <<name, warm, runner, final>>

(* The last byte is written to the open inode (an archive is represented   *)
(* by the runner it was packed after).                                     *)
Fill(c) == /\ Goto(c, "fill", "rename")
           /\ content' = [content EXCEPT ![fd[c]] = runner[c]]
           /\ UNCHANGED <<name, fd, warm, runner, final, tmp>>

(* What follows a publish, or a failed one: the archive is repacked if the *)
(* build compiled something or found no archive; a failed zstd pack falls  *)
(* back to gzip; everything else is ignored.                               *)
AfterPublish(c, ok) ==
  \/ /\ name[c] = Source[c]
     /\ \/ name' = [name EXCEPT ![c] = Zstd] /\ pc' = [pc EXCEPT ![c] = "open"]
        \/ warm[c] /\ pc' = [pc EXCEPT ![c] = "ready"] /\ UNCHANGED name
  \/ /\ name[c] = Zstd /\ ~ok
     /\ name' = [name EXCEPT ![c] = Gzip] /\ pc' = [pc EXCEPT ![c] = "open"]
  \/ /\ name[c] = Gzip \/ (name[c] = Zstd /\ ok)
     /\ pc' = [pc EXCEPT ![c] = "ready"] /\ UNCHANGED name

(* os.replace: the name holds whatever inode `.tmp` names now.  A zstd     *)
(* archive supersedes a gzip one.                                          *)
Rename(c) ==
  LET n == name[c]
  IN /\ pc[c] = "rename" /\ tmp[n] # None
     /\ final' = [m \in Names |-> CASE m = n -> tmp[n]
                                    [] m = Gzip /\ n = Zstd -> None
                                    [] OTHER -> final[m]]
     /\ tmp' = [tmp EXCEPT ![n] = None]
     /\ AfterPublish(c, TRUE)
     /\ UNCHANGED <<fd, warm, runner, content>>

(* Someone else renamed it away.                                           *)
RenameFails(c) == /\ pc[c] = "rename" /\ tmp[name[c]] = None
                  /\ AfterPublish(c, FALSE)
                  /\ UNCHANGED <<fd, warm, runner, volume>>

(* The copy or the tar fails (volume full): a runner's .tmp stays, an      *)
(* archive's is removed.                                                   *)
PublishFails(c) ==
  /\ pc[c] \in {"open", "fill"}
  /\ IF name[c] = Source[c] THEN UNCHANGED tmp
                            ELSE tmp' = [tmp EXCEPT ![name[c]] = None]
  /\ AfterPublish(c, FALSE)
  /\ UNCHANGED <<fd, warm, runner, final, content>>

(* The container is killed; what it wrote on the volume stays.             *)
Kill(c) == /\ pc[c] \notin Settled
           /\ pc' = [pc EXCEPT ![c] = "killed"]
           /\ name' = [name EXCEPT ![c] = None]
           /\ fd' = [fd EXCEPT ![c] = None]
           /\ warm' = [warm EXCEPT ![c] = FALSE]
           /\ runner' = [runner EXCEPT ![c] = None]
           /\ UNCHANGED volume

Step(c) == /\ UNCHANGED raced
           /\ \/ Hit(c) \/ Miss(c) \/ Build(c) \/ Open(c) \/ Fill(c)
              \/ Rename(c) \/ RenameFails(c)

Next == \E c \in Containers :
          \/ Start(c) \/ Step(c)
          \/ (PublishFails(c) \/ Kill(c)) /\ UNCHANGED raced

Spec == Init /\ [][Next]_vars

(* A container that is not killed runs its wrapper to the end.             *)
Fairness == \A c \in Containers : WF_vars(Step(c))
FairSpec == Spec /\ Fairness

-------------------------------------------------------------------------------
(* Types of every variable.                                                *)
TypeOK == /\ pc \in [Containers -> Settled \cup Publishing \cup {"lookup", "build"}]
          /\ name \in [Containers -> Names \cup {None}]
          /\ fd \in [Containers -> Inodes \cup {None}]
          /\ warm \in [Containers -> BOOLEAN]
          /\ runner \in [Containers -> Data \cup {None}]
          /\ final \in [Names -> Inodes \cup {None}]
          /\ tmp \in [Names -> Inodes \cup {None}]
          /\ content \in [Inodes -> Data]
          /\ raced \subseteq Keys

(* A container serves calls with the whole binary of exactly its source,   *)
(* whichever containers were killed while publishing (wrapper.py:115-119,  *)
(* 162-163), if no two containers were building that source at once.       *)
ExactRunner ==
  \A c \in Containers :
    pc[c] = "ready" /\ Source[c] \notin raced => runner[c] = Source[c]

(* A container that has started and neither serves nor is killed: no       *)
(* failure of the cache fails or blocks a call (wrapper.py:163, 215-216).  *)
InFlight(c) == pc[c] \notin Settled
===============================================================================
