CONSTANTS
  MaxSequence = 3
  Frame <- MCFrame
  None = None
  Wait = 1
  Settle = 1
  Budget = 3
  RowCap = 2
  MaxReceived = 20
  MaxFrames = 1
  Keyed = {0, 1, 2, 3}
  Retries = 1
  MaxSessions = 0
SPECIFICATION TrackSpec
INVARIANTS OverIsAnswered
VIEW View
CHECK_DEADLOCK FALSE
