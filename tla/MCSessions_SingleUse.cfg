CONSTANTS
  Users = {u1}
  Tokens = {t1, t2, t3}
  Requests = {r1, r2}
  NoUser = NoUser
  NoToken = NoToken
SPECIFICATION Spec
SYMMETRY Symmetry
INVARIANT SingleUse
CHECK_DEADLOCK FALSE
