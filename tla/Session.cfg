SPECIFICATION Spec
CONSTANTS
  Capacity = 1
  WireCap = 2
  MaxData = 2
INVARIANT TypeOK
INVARIANT ClosedByPeerHasReadAll
INVARIANT NoAbruptEnd
 
 
CHECK_DEADLOCK FALSE
