SPECIFICATION Spec
CONSTANTS
  c1 = c1  c2 = c2  sx = sx  sy = sy
  Count = 3
  Channels = {c1, c2}
  Signals = {sx, sy}
  Values = {0, 1}
  SignalsOf <- SameSignals
INVARIANT BusHasLastValue
PROPERTY ImplementsSequentialSteps
