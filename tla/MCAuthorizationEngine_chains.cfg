SPECIFICATION Spec
CONSTANTS
  Request = {r1}
  Service <- OneService
  Query <- PlainQueries
  GuardCall <- GuardCalls
  Row <- MixedRows
  Config <- GraphConfigs
  Target <- PostTargets
  MaxEdits = 2
  NoRows = NoRows
INVARIANTS
  ChainsThroughOrganisations
CHECK_DEADLOCK FALSE
