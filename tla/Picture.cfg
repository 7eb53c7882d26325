CONSTANTS
  MaxSequence = 2
  Frame <- MCFrame
  None = None
  Wait = 1
  Settle = 1
  Budget = 2
  RowCap = 2
  MaxReceived = 20
  MaxFrames = 2
  Keyed = {1}
  Retries = 1
  MaxSessions = 1
SPECIFICATION PictureSpec
INVARIANTS WholeUnlessCut BudgetHeld BeginsAtSync AbsorbsNoGroup JoinNeedsNoGate NeverRefused
PROPERTIES DecodeOrder
VIEW View
CHECK_DEADLOCK FALSE
