SPECIFICATION Spec
CONSTANTS
  Request = {r1}
  Service <- OneService
  Query <- PlainQueries
  GuardCall <- GuardCalls
  Row <- GrantRows
  Config <- GrantConfigs
  Target <- PostTargets
  MaxEdits = 2
  NoRows = NoRows
INVARIANTS
  AllowIsGrounded
  SteadyGrantAllows
CHECK_DEADLOCK FALSE
