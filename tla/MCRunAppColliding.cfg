SPECIFICATION Spec
CONSTANTS
  Tasks = {t1, t2, t3}
  e1 = e1
  e2 = e2
  g1 = g1
  g2 = g2
  Entrypoints = {e1, e2}
  Tags = {g1, g2}
  FnIds = {f1, f2, f3}
  Tag <- CollidingTag
  NoTask = NoTask
  NoId = NoId
  NoEp = NoEp
  NoTag = NoTag
CHECK_DEADLOCK FALSE
INVARIANTS EntrypointsCoexist
