SPECIFICATION FairSpec
CONSTANTS
  Conn = {c1, c2}
  MaxSignals = 2
INVARIANT TypeOK
PROPERTIES NoRequestCutOff DrainHeldOnlyByClient
CHECK_DEADLOCK FALSE
