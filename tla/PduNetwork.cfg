\* Two I-PDUs that compete for a container, periodic PDUs that change, on CAN and on FlexRay.
SPECIFICATION Spec
CONSTANTS
  TxOrder <- MCTxOrder
  Network <- MCNetwork
  Encoding <- MCEncoding
  Values <- MCValues
  StepSize = 5
  ShortTimes = {15}
  EpochOffset = 5
  SimStep = 5
  CycleTime = 20
  Buses <- MCBuses
  Writers <- MCWriters
  Settled = 40
  HyperPeriod = 40
INVARIANT NoUpdateLost
INVARIANT WithinResolution
PROPERTY PriorityKept
PROPERTY PeriodicOnTime
PROPERTY AllDelivered
