CONSTANTS
  MaxSequence = 4
  Frame <- MCFrame
  None = None
  Wait = 1
  Settle = 0
  Budget = 9
  RowCap = 1
  MaxReceived = 20
  MaxFrames = 1
  Keyed = {0, 4}
  Retries = 1
  MaxSessions = 0
SPECIFICATION TrackSpec
INVARIANTS HeldHasGoneOut
VIEW View
CHECK_DEADLOCK FALSE
