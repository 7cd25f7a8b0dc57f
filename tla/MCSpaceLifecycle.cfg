CONSTANTS
  a = a
  b = b
  d = d
  Releases <- MCPublished
  Developer <- MCNobody
  Ordinal <- MCOrdinal
  Epoch <- MCEpoch
  None = None
  Encrypted = TRUE
  ScopedReset = FALSE
SPECIFICATION Spec
INVARIANT TypeOK
INVARIANT EpochRecordTruthful
INVARIANT StateReadable
INVARIANT SettledAtRest
INVARIANT EvidenceSound
INVARIANT MarkerOutlivesRecords
PROPERTY NoUnattendedRetry
PROPERTY StopIntentHolds
PROPERTY ImplementsAtomicApply
