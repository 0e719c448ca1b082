SPECIFICATION Spec
CONSTANTS
  a = a
  b = b
  c = c
  Node <- MCNode
  Jobs <- MCJobs
SYMMETRY Renaming
INVARIANT AGTraceReachesViolation
