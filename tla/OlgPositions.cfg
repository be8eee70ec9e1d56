SPECIFICATION Spec
CONSTANTS
  Inputs <- MCPositions
  MaxSteps = 2
  TraceLength = 3
INVARIANT OlgUnsatIsRight
CHECK_DEADLOCK FALSE
