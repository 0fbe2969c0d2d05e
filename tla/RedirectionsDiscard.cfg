SPECIFICATION Spec
CONSTANTS
  Line <- MCLine
  Paths = {"f", "g"}
  Directory = "d"
  MaxFd = 4
  FirstAutoFd = 4
  Files <- MCFiles
  Input <- MCInput
  Emits <- MCEmits
  Simple <- MCSimple
  Persistent <- MCPersistent
  Allocated <- MCAllocated
  Compound <- MCCompound
  Lists <- MCLists
  MaxFrames = 2
  MaxSteps = 2
  MaxLines = 5
CONSTRAINT Small
CHECK_DEADLOCK FALSE
INVARIANT DiscardedOutputIsGone
