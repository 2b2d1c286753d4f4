SPECIFICATION Spec
CONSTANTS
  Urls = {u1}
  MaxRetries = 1
  MaxRuns = 2
  MaxRemovals = 2
INVARIANT TypeOK
INVARIANT EstablishedFromOneRun
INVARIANT OneIdentityPerConnect
PROPERTY VerdictCoversKeys
PROPERTY RenewalTakesEffect
CHECK_DEADLOCK FALSE
