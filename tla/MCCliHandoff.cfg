CONSTANTS
  a = a
  b = b
  d = d
  w1 = w1
  w2 = w2
  Releases <- MCReleases
  Developer <- MCDeveloper
  Ordinal <- MCOrdinal
  Other = Other
  None = None
  Standalone <- MCOther
  Workers <- MCWorkers
  MaxDeaths = 2
  MaxRequests = 1
SPECIFICATION Spec
SYMMETRY Symmetry
CONSTRAINT OrphanBesideManaged
CONSTRAINT SecondDeathAlone
INVARIANT TypeOK
INVARIANT CliMatchesSpace
PROPERTY KeepsACli
PROPERTY AppliedIsTrue
PROPERTY ConsumedIsAnswered
