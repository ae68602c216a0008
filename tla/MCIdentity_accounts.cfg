SPECIFICATION FairSpec
CONSTANTS
  User = {u1, u2}
  MfaUser = {u2}
  Jti = {j1, j2}
  Request = {r1, r2}
  Ops = {"register", "login", "refresh", "logout", "reset", "verify"}
  Presented = {"refresh", "access"}
  AccessTtl = 1
  RefreshTtl = 2
  BlacklistTtl = 2
  Durable = FALSE
  MaxTime = 1
  NoJti = NoJti
  NoRow = NoRow
  Never = Never
INVARIANTS
  TypeOK
  OneRegistrationWins
  TokensAfterAnnouncement
PROPERTIES
  EveryRequestEnds
CHECK_DEADLOCK FALSE
