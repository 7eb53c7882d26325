CONSTANTS
  Most = 1
  PadSets <- Sound
  AudioTicks = 2
  FlushTurns = 1
  CatchUpTurns = 1
  MaxBatch = 2
  MaxPackets <- Packets
SPECIFICATION Spec
INVARIANTS Flushed
CHECK_DEADLOCK FALSE
