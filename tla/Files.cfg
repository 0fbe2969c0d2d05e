SPECIFICATION Spec
CONSTANTS
  Name <- MCName
  MaxDepth = 2
  Chunk = {"x"}
  Mode <- MCMode
  FileMode <- MCFile
  DirMode <- MCDir
  FifoMode <- MCFifo
  Link <- MCLink
  MaxHops = 3
  Listing <- MCListing
  Word <- MCWord
  Operand <- MCOperand
  Starts <- MCStarts
  Commands <- MCCommands
  Finds <- MCFinds
  Xargs_ <- MCXargs
  Places <- MCPlaces
  HOME <- BA
  CDPATH <- MCCDPATH
  MaxCommands = 2
  Args <- MCArgs
  Questions <- MCQuestions
  MaxNodes = 5
CONSTRAINT Small
CHECK_DEADLOCK FALSE
INVARIANTS
  WalksAgree
  CommandsAreExact
  DirectoriesComeBack
  TestReadsPosix
PROPERTIES
  FindIsThorough
  FindEnds
