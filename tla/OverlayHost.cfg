SPECIFICATION HostSpec
CONSTANTS
  Name <- MCName
  MaxDepth = 3
  Chunk <- MCChunk
  Mode <- MCMode
  FileMode = "644"
  DirMode = "755"
  Link <- MCLink
  MaxHops = 8
  Disks <- DeepDisks
  Arg <- DeepArg
  Written <- MCWritten
  NewMode <- MCNewMode
  NewLink <- MCNewLink
  MaxNodes = 2
CONSTRAINT SmallTree
INVARIANTS
  CallsAreHonest
  SyncKeepsView
  LoopsAgree
  RenameMoves
