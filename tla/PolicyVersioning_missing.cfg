SPECIFICATION Spec
CONSTANTS
  a1 = a1
  a2 = a2
  b1 = b1
  b2 = b2
  Actors <- MCOneActor
  Bodies <- MCBodies
  Other = Other
  NoBody = NoBody
  MaxSeq = 3
  MaxTerm = 1
  MaxTries = 2
  MaxLate = 1
PROPERTIES ReadRemovesMissing
