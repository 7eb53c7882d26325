CONSTANTS
  None = None
  Spacing = 1
  TakeMax = 2
  DeliverMax = 3
  QueueMax = 2
  MaxGroups = 5
  MaxFrames = 1
SPECIFICATION FairSpec
INVARIANTS InOrder OneIsOpen EarlyIsCounted
PROPERTIES AllLeave ImplementsPaced
CHECK_DEADLOCK FALSE
