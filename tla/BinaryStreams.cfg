\* Up to three calls in a step, as read, reset and write, or reset and two writes.
SPECIFICATION Spec
CONSTANTS
  StepSize = 2
  TargetSizes <- MCTargetSizes
  MaxSteps = 3
  MaxCalls = 3
INVARIANT PublishesWrites
INVARIANT GivenIsReadOnce
CHECK_DEADLOCK FALSE
