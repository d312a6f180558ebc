SPECIFICATION Spec
CONSTANTS
  m1 = m1
  m2 = m2
  Ids <- MCOneId
  NoId = NoId
  MaxPolls = 2
INVARIANTS ProbesOnlyEnabled
