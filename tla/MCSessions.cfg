CONSTANTS
  Users = {u1, u2}
  Tokens = {t1, t2}
  Requests = {r1, r2}
  NoUser = NoUser
  NoToken = NoToken
SPECIFICATION Spec
SYMMETRY Symmetry
INVARIANTS
  TypeOK
  RotationRetiresParent
  AnsweredLogoutIsEffective
PROPERTIES
  RevokedStaysRevoked
  OnlyRacedTokensLeaveIndex
CHECK_DEADLOCK FALSE
