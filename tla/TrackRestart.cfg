CONSTANTS
  MaxSequence = 2
  Frame <- MCFrame
  None = None
  Wait = 1
  Settle = 1
  Budget = 3
  RowCap = 2
  MaxReceived = 20
  MaxFrames = 2
  Keyed = {0, 1, 2}
  Retries = 1
  MaxSessions = 0
SPECIFICATION TrackSpec
PROPERTIES RestartHolesAreGone
VIEW View
CHECK_DEADLOCK FALSE
