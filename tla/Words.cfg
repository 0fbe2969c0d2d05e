SPECIFICATION Spec
CONSTANTS
  Atom <- MCAtom
  Subscripted <- MCSubscripted
  Upper <- MCUpper
  Valid <- MCValid
  Circular = Circular
  MaxRefs = 3
  MaxString = 10
  MaxElements = 3
  MAX_EXTGLOB_DEPTH = 20
  max_brace_expansion = 6
  Bits = 4
  Parsed <- MCParsed
  MaxNesting = 12
  Elements <- MCElements
  Files <- MCFiles
  max_glob_results = 1
  ShellName <- MCShellName
  Contents <- MCContents
  max_substitution_depth = 2
  StartEnv <- MCStartEnv
  StartArgs <- MCStartArgs
  Settings <- MCSettings
  Stdin <- MCStdin
  ParamWords <- MCParamWords
  Assignments <- MCAssignments
  Expressions <- MCExpressions
  Reads <- MCReads
  Mapfiles <- MCMapfiles
  Getopts <- MCGetopts
  MaxCommands = 3
  Texts <- MCTextNames
  Patterns <- MCPatternNames
  Ring <- MCRing
  Numbers <- MCNumbers
  Untaken <- MCUntaken
  Substitutions <- MCSubstitutions
  MaxText = 5
CHECK_DEADLOCK FALSE
INVARIANTS
  TypeOK
  FieldsAreSplitRight
  PatternsMean
  ArithmeticIsModular
  SubstitutionsAreContained
PROPERTY
  OptionsInOrder
