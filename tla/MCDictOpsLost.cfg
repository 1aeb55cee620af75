SPECIFICATION Spec
CONSTANTS
  a = a
  b = b
  c = c
  h1 = h1
  h2 = h2
  Tasks = {a, b, c}
  Handles = {h1, h2}
  Handle <- TwoHandles
  Ops <- MixedOps
  MaxAttempts = 2
  Absent = Absent
  None = None
CHECK_DEADLOCK FALSE
INVARIANT
  CallReportsEffect
