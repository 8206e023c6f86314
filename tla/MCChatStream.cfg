CONSTANTS
  Streams = {s1, s2}
  NoStream = NoStream
  MaxChunks = 2
  MaxReconnectAttempts = 1
  MaxFaults = 2
SPECIFICATION Spec
INVARIANTS
  TypeOK
  StoredChunksHaveNoHoles
  TextHasNoGaps
  DoneMeansFullAnswer
CHECK_DEADLOCK FALSE
