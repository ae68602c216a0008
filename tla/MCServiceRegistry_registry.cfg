SPECIFICATION Spec
CONSTANTS
  Request = {r1, r2, r3}
  Name = {n1}
  Payload <- Configs
  NoRow = NoRow
SYMMETRY Symmetry
INVARIANTS
  TypeOK
  StoredModelsAnnounced
PROPERTIES
  UndisturbedIsStored
CHECK_DEADLOCK FALSE
