SPECIFICATION Spec
CONSTANTS
  s1 = s1  s2 = s2  m1 = m1  m2 = m2  m3 = m3  c1 = c1  c2 = c2
  Sims = {s1, s2}
  Models = {m1, m2, m3}
  Channels = {c1, c2}
  Links <- Stacked
  RetryCount = 2
  EndTime = 2
  Stoppable = {s1}
  Impatient = {s1, s2}
  Killable = {s1}
INVARIANTS
  TypeOK BatonInv NoMutualWait StartFindsWaiting StepsTheBusCycle
  ReadyIsRegistered LoopHasJoined BusExitsLast
PROPERTY ImplementsLockStep
CHECK_DEADLOCK FALSE
