SPECIFICATION Spec
CONSTANTS
  m1 = m1
  m2 = m2
  Ids <- MCIds
  NoId = NoId
  MaxPolls = 2
SYMMETRY Symmetry
INVARIANTS TypeOK EveryModelAccounted AdoptedIsUsable RedeployStartsClean RecordedFlagIsTrue
PROPERTIES ForgetsOnlyGone DeletesOnlyUndeployed ImplementsTrackedObject
