SPECIFICATION Spec
CONSTANTS
  a = a
  b = b
  d = d
  Inputs = {a, b}
  Describes = {}
  Boot = Boot
  None = None
  Blank = Blank
  Noise = Noise
  Nack = Nack
  Setups <- TwoThreads
CHECK_DEADLOCK FALSE
INVARIANT
  OwnEnvelope
