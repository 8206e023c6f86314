CONSTANTS
  Parts = {"browser", "voice", "webhooks", "limits", "provider", "configs", "chunks", "cursor"}
  Tabs = {m1, m2}
  Requests = {r1, r2}
  NoTab = NoTab
  MaxTokens = 3
  MaxFaults = 1
  MaxStarts = 2
  MaxReconnects = 1
  MaxDrops = 2
  MaxRuns = 2
  MaxChunks = 1
  MaxTurns = 3
  MaxTicks = 2
  Files = {m1, m2}
  NoFile = NoFile
  MaxPolls = 2
  Deliveries = {d1}
  MaxSends = 2
  MaxCrashes = 1
  Attempts = 2
  Quota = 1
  MaxWindows = 1
  MaxOutages = 1
  MaxRetries = 2
  Size = 2
  Admins = {m1, m2}
  Providers = {p1, p2}
  MaxConfigs = 3
  MaxLength = 5
  Fields = {1, 2, 3}
  RowIds = {1, 2}
  Limit = 1
SPECIFICATION JointSpec
SYMMETRY Symmetry
CONSTRAINT Bounds
INVARIANTS
  TypesOK
  JarIsHonoured
  LeftoversHaveReason
  WebhooksAreKept
  WindowsKeepQuota
  NoGapInAttempt
  OneActivePerProvider
  NothingIsCutOut
  WalkSeesEveryRow
CHECK_DEADLOCK FALSE
