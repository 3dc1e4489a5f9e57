SPECIFICATION FairSpec
CONSTANTS
  RecvTimeout = 3
  Keys = 2
  MaxMessages = 4
INVARIANTS NeverWaitsWithMessage NoneLostOnceSubscribed
PROPERTY ReceiveReturns
CHECK_DEADLOCK FALSE
