SPECIFICATION FairSpec
CONSTANTS
  s1 = s1  s2 = s2  m1 = m1  m2 = m2  m3 = m3  c1 = c1  c2 = c2
  Sims = {s1, s2}
  Models = {m1, m2}
  Channels = {c1}
  Links <- TwoSims
  RetryCount = 2
  EndTime = 1
  Stoppable = {s1, s2}
  Impatient = {s1, s2}
  Killable = {s1}
PROPERTIES AllLeave BusFollows
CHECK_DEADLOCK FALSE
