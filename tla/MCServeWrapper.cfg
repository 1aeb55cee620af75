SPECIFICATION FairSpec
CONSTANTS
  a = a
  b = b
  d = d
  Inputs = {a, b, d}
  Describes = {d}
  Boot = Boot
  None = None
  Blank = Blank
  Noise = Noise
  Nack = Nack
  Setups <- AllSetups
CHECK_DEADLOCK FALSE
INVARIANTS
  TypeOK
  OwnEnvelopeAlone
  OneLiveChild
  RerunOnlyAfterDeath
PROPERTIES
  ServiceSpec
  EveryInputAnswered
