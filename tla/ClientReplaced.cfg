SPECIFICATION Spec
CONSTANTS
  AutoReconnect = FALSE
  MaxReconnects = 0
  Capacity = 1
  MaxConns = 2
  MaxSends = 1
  MaxFrames = 0
PROPERTY AbandonedConnectionEnds
CHECK_DEADLOCK FALSE
