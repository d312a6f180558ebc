SPECIFICATION Spec
CONSTANTS
  name = name
  i2 = i2
  i3 = i3
  b1 = b1
  b2 = b2
  Ids <- MCIds
  Name <- name
  Bodies <- MCBodies
  NoId = NoId
  NoBody = NoBody
  MaxTries = 2
PROPERTY ScriptsKeepOthers
