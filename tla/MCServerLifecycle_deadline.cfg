SPECIFICATION FairSpec
CONSTANTS
  Conn = {c1, c2}
  MaxSignals = 2
PROPERTY DrainsWithinDeadline
CHECK_DEADLOCK FALSE
