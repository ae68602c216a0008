SPECIFICATION Spec
CONSTANTS
  Request = {r1}
  Service <- OneService
  Query <- TeamQueries
  GuardCall <- GuardCalls
  Row <- ModelRows
  Config <- ModelConfigs
  Target <- PostTargets
  MaxEdits = 2
  NoRows = NoRows
INVARIANTS
  TypeOK
  OneConfiguration
  AbacAllowIsGrounded
CHECK_DEADLOCK FALSE
