CONSTANTS
  MaxSequence = 2
  Frame <- MCFrame
  None = None
  Wait = 1
  Settle = 1
  Budget = 3
  RowCap = 2
  MaxReceived = 20
  MaxFrames = 1
  Keyed = {1, 2}
  Retries = 1
  MaxSessions = 0
SPECIFICATION PictureFair
PROPERTIES Drains PictureReturns
CHECK_DEADLOCK FALSE
