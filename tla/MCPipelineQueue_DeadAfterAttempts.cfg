CONSTANTS
  Processes = {p1, p2}
  Jobs = {j1}
  NoEntry = NoEntry
  NoProcess = NoProcess
  Concurrency = 1
  MaxStalled = 1
  Attempts = 3
  MaxAdds = 2
  MaxCrashes = 1
SPECIFICATION Spec
INVARIANT DeadAfterAttempts
CHECK_DEADLOCK FALSE
