SPECIFICATION Spec
CONSTANTS
  a = a
  b = b
  d = d
  Inputs = {a, b}
  Describes = {}
  Boot = Boot
  None = None
  Blank = Blank
  Noise = Noise
  Nack = Nack
  Setups <- Printing
CHECK_DEADLOCK FALSE
INVARIANT
  OwnEnvelope
