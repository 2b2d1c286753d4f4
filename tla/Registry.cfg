SPECIFICATION Spec
CONSTANTS
  Conns = {c1, c2}
  Ids = {i1, i2}
  NoConn = NoConn
  NoId = NoId
  UniqueIds = TRUE
INVARIANT TypeOK
INVARIANT NoGhostEntry
INVARIANT LiveClientIsRegistered
INVARIANT SnapshotStaysValid
PROPERTY ImplementsDirectory
PROPERTY DepartedIsDeregistered
PROPERTY EveryArrivalIsAnswered
CHECK_DEADLOCK FALSE
