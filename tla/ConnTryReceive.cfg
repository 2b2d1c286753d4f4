SPECIFICATION ReadingClientSpec
CONSTANTS
  AppCap = 1
  TxCap = 1
  Kinds = {"request", "control"}
  Tickers = {"ping"}
  MaxFrames = 1
PROPERTY TryReceiveReturns
CHECK_DEADLOCK FALSE
