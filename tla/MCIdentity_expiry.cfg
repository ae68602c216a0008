SPECIFICATION Spec
CONSTANTS
  User = {u1}
  MfaUser = {}
  Jti = {j1, j2}
  Request = {r1, r2, r3}
  Ops = {"register", "refresh", "logout"}
  Presented = {"refresh", "access"}
  AccessTtl = 1
  RefreshTtl = 2
  BlacklistTtl = 2
  Durable = TRUE
  MaxTime = 4
  NoJti = NoJti
  NoRow = NoRow
  Never = Never
SYMMETRY Symmetry
INVARIANTS
  RevokedIsBlacklisted
  DeliveredHasSession
  RefusalHasCause
CHECK_DEADLOCK FALSE
