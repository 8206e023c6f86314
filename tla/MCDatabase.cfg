CONSTANTS
  Callers = {c1, c2}
  Conns = {k1}
  Tenants = {t1, t2}
  Slugs = {s1}
  NoOne = NoOne
  MaxFaults = 1
  Queries = {q1, q2}
  Keys = {a, b}
  Prefixed = {b}
  MaxSize = 1
  MaxWrites = 2
  MaxLost = 1
  Requests = {r1, r2, r3}
  Priorities = {0, 1, 2}
SPECIFICATION JointSpec
INVARIANTS
  TypesOK
  ConnectionsAreClean
  StaleHasReason
  OrdersFit
PROPERTY NothingStaysForEver
CHECK_DEADLOCK FALSE
