CONSTANTS
  a = a
  b = b
  d = d
  w1 = w1
  w2 = w2
  Releases <- MCPublished
  Developer <- MCNone
  Ordinal <- MCOrdinal
  Other = Other
  None = None
  Standalone <- Cli
  Workers <- MCOneWorker
  MaxDeaths = 0
  MaxRequests = 0
SPECIFICATION Spec
INVARIANT ResumeIsNeverRefused
