SPECIFICATION Spec
CONSTANTS
  f1 = f1
  f2 = f2
  a1 = a1
  a2 = a2
  None = None
  Files = {f1, f2}
  Articles = {a1, a2}
  NbMaxTrySending = 2
  MaxQueued = 2
  MaxFaults = 1
  MaxMishaps = 2
  MaxEnds = 1
  MaxResumes = 1
SYMMETRY Symmetry
INVARIANTS
  TypeOK
  PostedIsAnswered
  SuccessIsWhole
  PublishedIsWhole
  InFlightIsLive
  AmbiguityIsDurable
PROPERTIES
  PostedIsForGood
  ConfirmedIsNotResent
CHECK_DEADLOCK FALSE
