SPECIFICATION Spec
CONSTANTS
  Name <- MCName
  MaxDepth = 2
  Chunk <- MCChunk
  Mode <- MCMode
  FileMode = "644"
  DirMode = "755"
  Link <- MCLink
  MaxHops = 6
  Thread = {t1}
  Tables <- MCTables
  Arg <- MCArg
  Written <- MCWritten
  NewMode <- MCNewMode
  NewLink <- MCNewLink
  MaxNodes = 3
  MaxId = 2
  MaxBusy = 1
CONSTRAINT Small
CHECK_DEADLOCK FALSE
INVARIANTS
  TypeOK
  ListingAgreesWithLookup
  CallsAreHonest
  NamesSurvive
