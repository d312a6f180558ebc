SPECIFICATION FairSpec
CONSTANTS
  m1 = m1
  m2 = m2
  Ids <- MCOneId
  NoId = NoId
  MaxPolls = 3
PROPERTIES HandlerReturns
