SPECIFICATION Spec
CONSTANTS
  User = {u1}
  MfaUser = {}
  Jti = {j1, j2, j3}
  Request = {r1, r2, r3, r4}
  Ops = {"register", "refresh", "logout"}
  Presented = {"refresh", "access"}
  AccessTtl = 1
  RefreshTtl = 2
  BlacklistTtl = 2
  Durable = FALSE
  MaxTime = 1
  NoJti = NoJti
  NoRow = NoRow
  Never = Never
SYMMETRY Symmetry
INVARIANTS
  NoLateExchange
  PredecessorRevoked
PROPERTIES
  RotationSpec
CHECK_DEADLOCK FALSE
