CONSTANTS
  Requests = {r1, r2}
  Tenants = {t1}
  Nobody = Nobody
  Unlimited = Unlimited
  Absent = Absent
  CapValues = {2}
  Estimates = {2}
  Usages = {0, 2}
  MaxDay = 2
  DaysPerMonth = 2
  MaxCapChanges = 1
  Starts = {a, b, c}
  MaxChunks = 1
SPECIFICATION JointSpec
INVARIANTS
  TypesOK
  ChargedOnce
  DecisionsFollowCaps
  EndsAreRecorded
PROPERTIES
  RecordsAtomically
  RequestsEnd
  SocketFreesUp
CHECK_DEADLOCK FALSE
