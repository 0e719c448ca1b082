SPECIFICATION TwiceSpec
CONSTANTS
  State <- MCState
  Transition <- MCTransition
  StepProp = {"s", "u"}
  AlwaysProp = {"a"}
  MaxPosts = 2
  Requests <- TwiceRequests
  Pools <- MCPools
INVARIANT IdenticalResults
