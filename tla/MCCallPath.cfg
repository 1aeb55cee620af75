SPECIFICATION FairSpec
CONSTANTS
  a = a
  b = b
  c1 = c1
  c2 = c2
  k1 = k1
  Zstd = Zstd
  Gzip = Gzip
  Torn = Torn
  Partial = Partial
  None = None
  Null = Null
  Unset = Unset
  Blank = Blank
  Absent = Absent
  Invalid = Invalid
  Cmds = {c1, c2}
  Pkgs = {a, b}
  Versions = {1, 2}
  Entries = {"f", "g"}
  Here <- OnLaptop
  There <- OnModal
  Shape <- ShapeOf
  Targets <- MCTargets
  Commands <- MCCommands
  MaxEdits = 1
  Containers = {c1, c2}
  Keys = {k1}
  Source <- MCSource
  N = 2
  Kinds = {"remote", "spawn", "map", "spawn_map"}
  Contents = {1, 2, 3}
  Large = {3}
  Width = 2
  MaxProbes = 1
  FileLists <- MCFileLists
  MaxEntries = 3
  Launches <- MCLaunches
  Files <- MCFiles
  Ports = {"80"}
  CommandNames = {"f", "--input-json"}
  CommandValues = {"good", "--entrypoint"}
  MaxAttempts = 2
  Settings <- MCSettingsOf
  KindOf <- MCKindOf
  Accepted <- MCAccepted
CHECK_DEADLOCK FALSE
INVARIANTS
  TypeOK
  FreshManifest
  ExactRunner
  ResultsWhole
  ReportsMatchServer
  RunnerAnswers
  CheckPredictsRun
  ConnectsAsItself
  DumpMatchesLive
  ImagesBuild
  UploadBuilds
  DecoratorsReach
  RemoteMirrorsLocal
PROPERTY
  CallsReturn
