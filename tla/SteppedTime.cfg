SPECIFICATION Spec
CONSTANTS
  Kinds = {"runtime", "mcl", "gateway"}
  StepSize = 20
  Grid = 3
  Epsilon = 6
  LastCall = 240
INVARIANTS CompensatedTime StepsAsAsked WithinAStep
