SPECIFICATION Spec
CONSTANTS
  s1 = s1  m1 = m1  m2 = m2  c1 = c1  sx = sx  sy = sy  Bin = Bin
  Sims = {s1}
  Models = {m1, m2}
  Channels = {c1}
  Links <- Stack
  Signals = {sx, sy}
  SignalsOf <- MoreSignals
  Modes <- LookedUp
  CreateValues = {0}
  Values = {0, 1}
  MaxPayloads <- OnePayload
INVARIANT CachedIndexIsLookup
