SPECIFICATION Spec
CONSTANTS
  Clicks = {c1, c2}
  CountLimit = 2
  NsPerMs = 1
  OffsetMs = 0
  MaxRounds = 2
  MaxClock = 1
  None = None
INVARIANTS ShownWasCertified InStep

PROPERTY Responsive
