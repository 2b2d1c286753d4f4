SPECIFICATION Spec
CONSTANTS
  AutoReconnect = TRUE
  MaxReconnects = 2
  Capacity = 1
  MaxConns = 1
  MaxSends = 3
  MaxFrames = 3
INVARIANT TypeOK
INVARIANT ReceivesWithoutGap
INVARIANT AttemptsAreBounded
INVARIANT LossIsBounded
PROPERTY CloseWritesEverything
PROPERTY CallsReturn
PROPERTY AbandonedConnectionEnds
CHECK_DEADLOCK FALSE
