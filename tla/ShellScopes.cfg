SPECIFICATION Spec
CONSTANTS
  Atom <- MCAtom
  Subscripted <- MCSubscripted
  Upper <- MCUpper
  Valid <- MCValid
  Circular = Circular
  MaxRefs = 3
  MaxString = 1
  MaxElements = 2
  Assignment <- MCAssignment
  Prefix <- MCPrefix
  Declaration <- MCDeclaration
  Marking <- MCMarking
  Name <- MCName
  Key <- MCKey
  Options <- MCOptions
  MaxCalls = 2
  MaxWeight = 4
  MaxCallWeight = 7
CONSTRAINT Few
CHECK_DEADLOCK FALSE
INVARIANTS
  TypeOK
  ReadonlyStands
  AssignmentsLand
PROPERTY
  CallsRestore
