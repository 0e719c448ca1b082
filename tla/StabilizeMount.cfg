SPECIFICATION Spec
CONSTANTS
  Unmounted = Unmounted
  NumVars <- MCNumVars
  Value <- MCValue
  Internal <- MCInternal
  Systems <- RedirectSystems
INVARIANT LocalsAlwaysFollowMount
CHECK_DEADLOCK FALSE
