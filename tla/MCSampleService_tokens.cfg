SPECIFICATION ServiceSpec
CONSTANTS
  Request = {r1}
  User <- Users
  Row <- Roles
  AccessTtl = 2
  RefreshTtl = 4
  MaxIssue = 1
  MaxTime = 6
  MaxEdits = 2
  Nobody = Nobody
  Name <- Names
  MaxItems = 5
INVARIANTS
  TypeOK
  ClaimsOfOneMoment
  LocalCheckAgrees
  BearerEndsAfterLogout
  ExpiresInIsClose
  CreatedIsFound
CHECK_DEADLOCK FALSE
