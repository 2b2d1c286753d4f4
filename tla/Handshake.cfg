SPECIFICATION Spec
CONSTANTS
  Token <- MCToken
  ServerConfigs <- MCServerConfigs
  WsRequests <- MCWsRequests
  OtherRequests <- MCOtherRequests
  GivenBits = {0, 5, 10, 20}
INVARIANT TypeOK
INVARIANT SubprotocolIsAgreed
INVARIANT OfferSurvivesHeader
INVARIANT ResponseIsValid
INVARIANT SegmentsAreFaithful
INVARIANT LegalQuotesAreRead
INVARIANT CommandsFollowPath
CHECK_DEADLOCK FALSE
