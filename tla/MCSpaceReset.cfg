CONSTANTS
  a = a
  b = b
  d = d
  Releases <- MCPublished
  Developer <- MCNobody
  Ordinal <- MCOrdinal
  Epoch <- MCEpoch
  None = None
  Encrypted = FALSE
  ScopedReset = TRUE
SPECIFICATION Spec
INVARIANT StateReadable
