SPECIFICATION Spec
CONSTANTS
  Token <- MCToken
  ServerConfigs <- MCServerConfigs
  WsRequests <- MCWsRequests
  OtherRequests <- MCOtherRequests
  GivenBits = {0, 5, 10, 20}
INVARIANT LimitsAreConfirmed
CHECK_DEADLOCK FALSE
