SPECIFICATION Spec
CONSTANTS
  Unmounted = Unmounted
  NumVars <- MCNumVars
  Value <- MCValue
  Internal <- MCInternal
  Systems <- MCSystems
INVARIANTS
  TypeOK
  EveryOrderIsCovered
  AcyclicSettles
  DerivedStateIsUpToDate
  LocalsFollowMount
\* A system may drop all its initial states, or have no event to take.
CHECK_DEADLOCK FALSE
