SPECIFICATION Spec
CONSTANTS
  c1 = c1  c2 = c2  sx = sx  sy = sy
  Count = 2
  Channels = {c1}
  Signals = {sx, sy}
  Values = {0, 1}
  SignalsOf <- MoreSignals
PROPERTY LastUpdateIsFinal
