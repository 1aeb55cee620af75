SPECIFICATION FairSpec
CONSTANTS
  d1 = d1
  d2 = d2
  c1 = c1
  n1 = n1
  n2 = n2
  g1 = g1
  g2 = g2
  w1 = w1
  w2 = w2
  s1 = s1
  s2 = s2
  Deployers = {d1, d2}
  Callers = {c1}
  Names = {n1, n2}
  Tags = {g1, g2}
  Attrs = {w1, w2, s1, s2}
  Tag <- MCTag
  WebAttr <- MCWebAttr
  ServerAttr <- MCServerAttr
  Program <- MCProgram
  Broken = {4}
  Prebuild = TRUE
  Secrets = {"key"}
  Stub = Stub
  None = None
CHECK_DEADLOCK FALSE
INVARIANTS
  TypeOK
  WholeDeploys
  Servable
  CallRunsItsOwn
PROPERTIES
  DeployEnds
  ServiceSpec
