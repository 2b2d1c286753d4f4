SPECIFICATION Safety
CONSTANTS
  AppCap = 2
  TxCap = 1
  Kinds = {"request", "urgent"}
  Tickers = {}
  MaxFrames = 3
INVARIANT TypeOK
INVARIANT DeliveryInOrder
INVARIANT AnswersMatchRequests
INVARIANT TakenFramesAreAnswered
PROPERTY ImplementsMailbox
CHECK_DEADLOCK FALSE
