SPECIFICATION FairSpec
CONSTANTS
  Request = {r1}
  Guarded = {g1}
  Service <- Services
  Query <- Queries
  GuardCall = {}
  Row <- Rows
  Config <- Configs
  MaxEdits = 1
  NoRows = NoRows
  Target <- Targets
  Input <- Inputs
  CacheTtl = 1
  MaxFill = 1
  MaxTime = 3
  MaxSeen = 2
  Never = Never
INVARIANTS
  TypeOK
PROPERTIES
  EngineContract
  SettledPoliciesDecide
  EvaluationEnds
CHECK_DEADLOCK FALSE
