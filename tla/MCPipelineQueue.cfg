CONSTANTS
  Processes = {p1}
  Jobs = {j1}
  NoEntry = NoEntry
  NoProcess = NoProcess
  Concurrency = 2
  MaxStalled = 1
  Attempts = 3
  MaxAdds = 2
  MaxCrashes = 1
SPECIFICATION Spec
INVARIANTS
  TypeOK
  FailuresAreKept
  BegunIsNotPending
PROPERTIES
  CompletedStays
  JobsAreNotLost
  CopiesSettle
CHECK_DEADLOCK FALSE
