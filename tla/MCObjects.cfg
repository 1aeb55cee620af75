SPECIFICATION FairSpec
CONSTANTS
  a = a
  b = b
  c = c
  h1 = h1
  h2 = h2
  p1 = p1
  c1 = c1
  c2 = c2
  x1 = x1
  t1 = t1
  t2 = t2
  None = None
  Absent = Absent
  Producers = {p1}
  Consumers = {c1, c2}
  Cleaners = {x1}
  QueueHandles = {h1, h2}
  QueueHandle <- MCQueueHandle
  Batch <- MCBatch
  Bad <- MCBad
  Forever = {c2}
  MaxValues = 2
  Clients = {a, b, c}
  DictHandles = {h1, h2}
  DictHandle <- MCDictHandle
  Ops <- MCOps
  Uploaders = {t1, t2}
  Files = {a, b}
  Contents = {1, 2}
  Trees <- MCTrees
  MaxEdits = 1
  MaxAttempts = 2
CHECK_DEADLOCK FALSE
INVARIANTS
  TypeOK
  BatchesWhole
  WinnerStored
  PutReports
PROPERTIES
  NoOverwrite
  BlockedGetFindsItem
  CallsReturn
