SPECIFICATION Spec
CONSTANTS
  Inputs <- MCInputs
  MaxSteps = 2
  TraceLength = 3
INVARIANTS
  TypeOK
  RewritingKeepsTraces
  UnsatIsRight
  LabelsSuffice
  WalkFollowsTraces
  EncodingAsAssumed
  OffSatIsRight
  OfgExact
  VariablesDistinct
CHECK_DEADLOCK FALSE
