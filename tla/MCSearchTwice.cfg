SPECIFICATION TwiceSpec
CONSTANTS
  State <- MCState
  Transition <- MCTransition
  StepProp = {"s", "u"}
  AlwaysProp = {"a"}
  MaxPosts = 2
  Requests <- AllRequests
  Pools <- MCPools
INVARIANTS
  TypeOK
  CutIsReported
  VerifiedIsSound
  StepVerdictIsSound
  BoundedPassCoversTheBound
  ViolationIsReal
  BoundsThatBitAreListed
  ShortestTraces
  SameVerdicts
PROPERTIES
  ImplementsLayeredBFS
  Termination
