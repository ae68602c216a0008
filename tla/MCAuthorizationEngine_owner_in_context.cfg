SPECIFICATION Spec
CONSTANTS
  Request = {r1}
  Service <- OneService
  Query <- OwnerQueries
  GuardCall = {}
  Row <- TeamRows
  Config <- TeamConfigs
  Target <- PostTargets
  MaxEdits = 2
  NoRows = NoRows
INVARIANTS
  OwnerInContextAllowed
CHECK_DEADLOCK FALSE
