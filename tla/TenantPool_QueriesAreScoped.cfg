CONSTANTS
  Callers = {c1}
  Conns = {k1}
  Tenants = {t1}
  Slugs = {s1}
  NoOne = NoOne
  MaxFaults = 0
SPECIFICATION Spec
INVARIANT QueriesAreScoped
CHECK_DEADLOCK FALSE
