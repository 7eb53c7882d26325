CONSTANTS
  MaxSequence = 4
  Frame = {f}
  None = None
  Wait = 1
  Settle = 1
  Budget = 3
  RowCap = 1
  MaxReceived = 4
  MaxFrames = 1
SPECIFICATION Spec
INVARIANTS Accounting HoleAccounting AskIsForTheHole JoinIsLowest
PROPERTIES NoSilentSkip
CHECK_DEADLOCK FALSE
