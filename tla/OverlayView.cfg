SPECIFICATION Spec
CONSTANTS
  Name <- MCName
  MaxDepth = 2
  Chunk <- MCChunk
  Mode <- MCMode
  FileMode = "644"
  DirMode = "755"
  Link <- MCLink
  MaxHops = 8
  Disks <- MCDisks
  Arg <- MCArg
  Written <- MCWritten
  NewMode <- MCNewMode
  NewLink <- MCNewLink2
  MaxNodes = 3
CONSTRAINT SmallTree
INVARIANTS
  TypeOK
  LookupsAgree
  HarnessIsExact
PROPERTIES
  ImplementsMergedFs
