CONSTANTS
  None = None
  Broadcasts <- MCBroadcasts
  MaxTracks = 2
  ProbeDials = 2
  CatalogTries = 2
  TrackRetries = 1
  Window = TRUE
  MaxHeld = 1
  MaxFaults = 2
SPECIFICATION FairSpec
INVARIANTS TypeOK EndsComplete JoinTogether AskAnswered RowsReadBack PortsDistinct
PROPERTIES RunEnds
CHECK_DEADLOCK FALSE
