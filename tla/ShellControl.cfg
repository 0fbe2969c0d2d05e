SPECIFICATION Spec
CONSTANTS
  Scripts <- MCScripts
  MaxLevel = 2
  MaxCount = 3
INVARIANTS
  CountersFollowTheStack
  NothingRunsWhileLeaving
PROPERTIES
  ErrexitSparesConditions
  LeavingArrives
