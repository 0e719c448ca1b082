SPECIFICATION Spec
CONSTANTS
  Vars <- MCVars
  Queue = "pending"
  Mount <- MCMount
  Dom <- MCDom
  MaxPending = 1
  Requests <- MCRequests
  Depth = 10
  MaxTransitions = 3
INVARIANTS TypeOK SlicesCompile OwnVerdicts FullConeAgrees WitnessesAreReal
CHECK_DEADLOCK FALSE
