\* Settings of every layer; up to three instances; steps of 2 to an end time of 4.
SPECIFICATION Spec
CONSTANTS
  Unset = Unset
  Cli <- MCCli
  Env <- MCEnv
  Stack <- MCStack
  Files <- MCFiles
  MaxInstances = 3
  SimUids = {0, 7}
  ClientId = 3
  RetryCount = 4
  StepSize = 2
  EndTime = 4
  ReturnCodes <- MCReturnCodes
INVARIANT TypeOK
INVARIANT SettingsByPriority
INVARIANT LoadedAreFound
INVARIANT SignalsAsDocumented
INVARIANT StepsToEnd
PROPERTY ImplementsContract
PROPERTY Ends
CHECK_DEADLOCK FALSE
