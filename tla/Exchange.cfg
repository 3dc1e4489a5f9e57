SPECIFICATION Spec
CONSTANTS
  s1 = s1  s2 = s2  m1 = m1  m2 = m2  m3 = m3  c1 = c1  sx = sx
  Sims = {s1, s2}
  Models = {m1, m2, m3}
  Channels = {c1}
  Links <- Stacked
  Signals = {sx}
  SignalsOf <- OneSignal
  Values = {0, 1, 2}
  MaxPayloads <- SomePayloads
INVARIANTS TypeOK Agreement SameStream ExactlyOnceInOrder
PROPERTY ImplementsSharedSignals
