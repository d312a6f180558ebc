SPECIFICATION FairSpec
CONSTANTS
  a1 = a1
  a2 = a2
  b1 = b1
  b2 = b2
  Actors <- MCOneActor
  Bodies <- MCBodies
  Other = Other
  NoBody = NoBody
  MaxSeq = 3
  MaxTerm = 2
  MaxTries = 3
  MaxLate = 1
PROPERTIES HandlersReturn
