SPECIFICATION FairSpec
CONSTANTS
  p1 = p1
  p2 = p2
  Posters = {p1, p2}
  NbFiles = 2
  NbSlices <- MCNbSlices
  Unreadable = {2}
  AlreadyPosted <- MCAlreadyPosted
  Advance = 1
  MaxPauses = 1
INVARIANTS
  TypeOK
  NothingLeftAtEnd
  BodyMatchesPart
PROPERTIES
  ImplementsArticleSource
  CallReturns
  EverySliceHanded
CHECK_DEADLOCK FALSE
