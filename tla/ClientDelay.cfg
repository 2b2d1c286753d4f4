SPECIFICATION Safety
CONSTANTS
  AutoReconnect = TRUE
  MaxReconnects = 1
  Capacity = 1
  MaxConns = 1
  MaxSends = 1
  MaxFrames = 1
INVARIANT OneDelayBetweenAttempts
CHECK_DEADLOCK FALSE
