SPECIFICATION FairBufSpec
CONSTANTS
  Worker = {w1, w2}
  Main = main
  MaxRequests = 2
  MaxAccepted = 4
  MayExit = TRUE
INVARIANTS
  BufTypeOK EachRequestOnce NoLostWakeup
PROPERTIES
  BoundedFifo EveryRequestServed
CHECK_DEADLOCK FALSE
