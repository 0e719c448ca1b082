SPECIFICATION FinalSpec
CONSTANTS
  a = a
  b = b
  c = c
  d = d
  Node <- MCState
  State <- MCState
  Properties <- MCProperties
  Jobs <- MCFinalJobs
SYMMETRY Renaming
INVARIANTS
  TypeOK
  ReachLabelIsExact
  CycleLabelIsExact
  FairPathsAreKept
  VerdictIsReal
  ComponentsAreClasses
  CallersOnStack
  SuffixMisses
  PassMissesNothing
