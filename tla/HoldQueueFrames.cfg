CONSTANTS
  MaxSequence = 2
  Frame = {f}
  None = None
  Wait = 1
  Settle = 1
  Budget = 3
  RowCap = 1
  MaxReceived = 4
  MaxFrames = 2
SPECIFICATION FairSpec
INVARIANTS TypeOK BytesExact AheadOfCursor PassingIsSettled
PROPERTIES HolesSettle BacklogJoins
CHECK_DEADLOCK FALSE
