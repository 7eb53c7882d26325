CONSTANTS
  Most = 1
  PadSets <- Streams
  AudioTicks = 2
  FlushTurns = 1
  CatchUpTurns = 1
  MaxBatch = 2
  MaxPackets <- Packets
SPECIFICATION FairSpec
INVARIANTS TypeOK TailIsOut CatalogFirst QuietHoldsNothing Discipline
PROPERTIES CallsReturn GroupsLeave Mended
CHECK_DEADLOCK FALSE
