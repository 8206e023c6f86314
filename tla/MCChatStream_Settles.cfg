CONSTANTS
  Streams = {s1, s2}
  NoStream = NoStream
  MaxChunks = 2
  MaxReconnectAttempts = 3
  MaxFaults = 1
SPECIFICATION Spec
PROPERTY StreamsSettle
CHECK_DEADLOCK FALSE
