-------------------------------- MODULE CallPath --------------------------------
(***************************************************************************)
(* The stations of a call side by side: each behaviour is one of the       *)
(* commands that describe a package (DescribeCache), the containers that   *)
(* build its runner (RunnerCache), an invocation (Invoke), the upload of   *)
(* its source (MountUpload), the wait for its image (ImageJoin), or the    *)
(* runner that dispatches it (RunnerDispatch); or it stands at one of the  *)
(* Settings, which says under what a station without states is looked at.  *)
(* `part` says which; the parts share the variables whose names they       *)
(* share, and the variables of the others are None. Three parts without    *)
(* states are looked at here: the machine a client connects from           *)
(* (ClientSetup), a call whose result comes back (CallResults) and what a  *)
(* call or a deploy sends (BuildPlan).                                     *)
(***************************************************************************)
EXTENDS Naturals, Sequences, FiniteSets

CONSTANTS
  Cmds, Pkgs, Versions, Entries, Here(_, _), There(_, _), Shape(_, _),
  Targets, Commands, MaxEdits, Partial,          \* DescribeCache
  Containers, Keys, Source, Zstd, Gzip, Torn,    \* RunnerCache
  N, Kinds,                                      \* Invoke
  Contents, Large, Width, MaxProbes, FileLists,  \* MountUpload
  MaxEntries,                                    \* ImageJoin
  Launches, Files, Ports,                        \* RunnerDispatch
  CommandNames, CommandValues,                   \* of the command lines that are built
  MaxAttempts,                                   \* tries of one RPC
  Settings,      \* part without states -> what it is looked at under
  Unset, Blank, Absent, Invalid,                 \* ClientSetup
  KindOf,        \* server url -> kind of it
  Accepted,      \* the token pairs Modal knows, and those of a container
  Null,          \* the JSON null
  None

VARIABLES part, setting, pc, call, got, attempt, cursor, expired,
  src, edits, uplift, pin, cache, key, snap, bin, local, racy, racyKeys,
  name, fd, warm, runner, final, tmp, content, raced,
  kind, late, opened, queued, outputs, expiring, ran,
  files, phase, queue, step, tries, probes, sent, visible, mounts,
  at, shown, entries, result,
  inv, argv, stdin, read, out, entered, slot, code

-------------------------------------------------------------------------------
D == INSTANCE DescribeCache
C == INSTANCE RunnerCache
I == INSTANCE Invoke
M == INSTANCE MountUpload
J == INSTANCE ImageJoin
R == INSTANCE RunnerDispatch
Client == INSTANCE ClientSetup
Back == INSTANCE CallResults
B == INSTANCE BuildPlan

ASSUME DescribeConstants == D!TargetsType /\ D!CommandsType /\ D!NoKey
ASSUME CacheConstants == C!SourceType /\ C!NamesType
ASSUME InvokeConstants == I!NType /\ I!MaxAttemptsType /\ I!KindsType /\ I!NoCall
ASSUME MountConstants == M!BoundsType /\ M!FileListsType /\ M!NoStep
ASSUME JoinConstants == J!BoundsType
ASSUME RunConstants == R!LaunchesType /\ R!TokensType(CommandNames, CommandValues)
ASSUME SettingsType ==
  /\ "client" \in DOMAIN Settings =>
       \A s \in Settings["client"] : Client!MachineType(s.files, s.chain)
  /\ "results" \in DOMAIN Settings => \A s \in Settings["results"] : Back!CaseType(s.c)
  /\ "plan" \in DOMAIN Settings => \A s \in Settings["plan"] : B!CaseType(s)
ASSUME PartsDiffer ==
  DOMAIN Settings \cap {"describe", "cache", "invoke", "mount", "join", "run"} = {}

-------------------------------------------------------------------------------
(* The variables by the part that owns them; setting is what the parts     *)
(* without states look at.                                                 *)
describes == <<src, edits, uplift, pin, cache, key, snap, bin, local, racy, racyKeys>>
caches == <<name, fd, warm, runner, final, tmp, content, raced>>
invokes == <<kind, late, opened, queued, outputs, expiring, ran>>
sources == <<files, phase, queue, step, tries, probes, sent, visible, mounts>>
joins == <<at, shown, entries, result>>
runs == <<inv, argv, stdin, read, out, entered, slot, code>>
vars == <<part, setting, pc, call, got, attempt, cursor, expired,
          describes, caches, invokes, sources, joins, runs>>

NoDescribes == /\ src = None /\ edits = None /\ uplift = None /\ pin = None
               /\ cache = None /\ key = None /\ snap = None /\ bin = None
               /\ local = None /\ racy = None /\ racyKeys = None
NoCaches == /\ name = None /\ fd = None /\ warm = None /\ runner = None
            /\ final = None /\ tmp = None /\ content = None /\ raced = None
NoInvokes == /\ kind = None /\ late = None /\ opened = None /\ queued = None
             /\ outputs = None /\ expiring = None /\ ran = None
NoSources == /\ files = None /\ phase = None /\ queue = None /\ step = None /\ tries = None
             /\ probes = None /\ sent = None /\ visible = None /\ mounts = None
NoJoins == at = None /\ shown = None /\ entries = None /\ result = None
NoRuns == /\ inv = None /\ argv = None /\ stdin = None /\ read = None
          /\ out = None /\ entered = None /\ slot = None /\ code = None
NoCall == call = None /\ got = None
NoStream == attempt = None /\ cursor = None /\ expired = None

Init ==
  \/ /\ part = "describe" /\ D!Init /\ setting = None /\ NoStream
     /\ NoCaches /\ NoInvokes /\ NoSources /\ NoJoins /\ NoRuns
  \/ /\ part = "cache" /\ C!Init /\ setting = None /\ NoCall /\ NoStream
     /\ NoDescribes /\ NoInvokes /\ NoSources /\ NoJoins /\ NoRuns
  \/ /\ part = "invoke" /\ I!Init /\ setting = None
     /\ NoDescribes /\ NoCaches /\ NoSources /\ NoJoins /\ NoRuns
  \/ /\ part = "mount" /\ M!Init /\ setting = None /\ pc = None /\ NoCall /\ NoStream
     /\ NoDescribes /\ NoCaches /\ NoInvokes /\ NoJoins /\ NoRuns
  \/ /\ part = "join" /\ J!Init /\ setting = None /\ NoCall
     /\ NoDescribes /\ NoCaches /\ NoInvokes /\ NoSources /\ NoRuns
  \/ /\ part = "run" /\ R!Init /\ setting = None /\ NoCall /\ NoStream
     /\ NoDescribes /\ NoCaches /\ NoInvokes /\ NoSources /\ NoJoins
  \/ /\ part \in DOMAIN Settings /\ setting \in Settings[part]
     /\ pc = None /\ NoCall /\ NoStream
     /\ NoDescribes /\ NoCaches /\ NoInvokes /\ NoSources /\ NoJoins /\ NoRuns

OnDescribe(A) == part = "describe" /\ A /\ UNCHANGED
  <<part, setting, attempt, cursor, expired, caches, invokes, sources, joins, runs>>
OnCache(A) == part = "cache" /\ A /\ UNCHANGED
  <<part, setting, call, got, attempt, cursor, expired, describes, invokes, sources, joins, runs>>
OnInvoke(A) == part = "invoke" /\ A /\ UNCHANGED
  <<part, setting, describes, caches, sources, joins, runs>>
OnMount(A) == part = "mount" /\ A /\ UNCHANGED
  <<part, setting, pc, call, got, attempt, cursor, expired, describes, caches, invokes, joins, runs>>
OnJoin(A) == part = "join" /\ A /\ UNCHANGED
  <<part, setting, call, got, describes, caches, invokes, sources, runs>>
OnRun(A) == part = "run" /\ A /\ UNCHANGED
  <<part, setting, call, got, attempt, cursor, expired, describes, caches, invokes, sources, joins>>

Next == OnDescribe(D!Next) \/ OnCache(C!Next) \/ OnInvoke(I!Next)
          \/ OnMount(M!Next) \/ OnJoin(J!Next) \/ OnRun(R!Next)
Spec == Init /\ [][Next]_vars

-------------------------------------------------------------------------------
(* Types of every part that has states.                                    *)
TypeOK == CASE part = "describe" -> D!TypeOK
            [] part = "cache" -> C!TypeOK
            [] part = "invoke" -> I!TypeOK
            [] part = "mount" -> M!TypeOK
            [] part = "join" -> J!TypeOK
            [] part = "run" -> R!TypeOK
            [] OTHER -> TRUE

(* A command goes on with the manifest of its own package at its own       *)
(* source (DescribeCache).                                                 *)
FreshManifest == part = "describe" => D!FreshManifest

(* --verify-manifest compares what the two machines describe               *)
(* (DescribeCache).                                                        *)
VerifyCompares == part = "describe" => D!VerifyCompares

(* A container serves the whole binary of its source (RunnerCache).        *)
ExactRunner == part = "cache" => C!ExactRunner

(* A map's results are in input order and every input ran, nothing is      *)
(* polled before its inputs are enqueued, and the tries bound the runs     *)
(* (Invoke).                                                               *)
ResultsWhole ==
  part = "invoke" => I!OrderedResults /\ I!EnqueuedBeforePoll /\ I!RunsBounded

(* A mount holds what the server confirmed (MountUpload); a build ended as *)
(* it is said to have, and its log is whole (ImageJoin).                   *)
ReportsMatchServer == /\ part = "mount" => M!MountWhole
                      /\ part = "join" => J!ReportedAsEnded /\ J!LogsWhole

(* The serve loop answers frame by frame, and what it says is loaded is    *)
(* loaded (RunnerDispatch).                                                *)
RunnerAnswers == part = "run" => R!AnswersInOrder /\ R!PrimedIsLoaded

(* --check-input predicts the run, --describe names every entrypoint, and  *)
(* the command lines that are built parse (RunnerDispatch).                *)
CheckPredictsRun ==
  part = "run" =>
    /\ R!CheckPredictsRun /\ R!DescribesAll
    /\ R!BuiltCommandsParse(CommandNames, CommandValues)

(* What a client sends of itself is of the source that was asked for, and  *)
(* doctor sees what would fail it (ClientSetup).                           *)
ConnectsAsItself ==
  part = "client" =>
    /\ Client!ConnectsAsItself(setting.env, setting.files, KindOf, Accepted)
    /\ Client!DoctorCatchesAbort(setting.env, setting.files, {"cargo", "rustc"}, setting.chain)

(* A remote call tells what a local one would (CallResults).               *)
RemoteMirrorsLocal == part = "results" => Back!RemoteMirrorsLocal(setting.h, setting.c)

(* A dry run notes down what would be sent (BuildPlan).                    *)
DumpMatchesLive == part = "plan" => B!DumpMatchesLive(setting)
===============================================================================
