SPECIFICATION ReadingClientSpec
CONSTANTS
  AppCap = 1
  TxCap = 1
  Kinds = {"urgent"}
  Tickers = {"ping"}
  MaxFrames = 2
PROPERTY LostLinkIsTornDown
PROPERTY ClosedClientIsTornDown
PROPERTY QueuedFramesAreAnswered
CHECK_DEADLOCK FALSE
