SPECIFICATION FairBufSpec
CONSTANTS
  Worker = {w1, w2}
  Main = main
  MaxRequests = 1
  MaxAccepted = 1
  MayExit = TRUE
PROPERTIES
  ExitCompletes
CHECK_DEADLOCK FALSE
