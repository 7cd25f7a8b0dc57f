CONSTANTS
  a = a
  b = b
  d = d
  Published <- MCPublished
  Developer <- MCDeveloper
  None = None
  RepairEvery = 2
  BackoffBase = 1
  BackoffCap = 2
  RetryAfterCap = 2
  BusyDefer = 2
  CountBound = 1
  MaxTime = 3
  MaxJumps = 1
SYMMETRY MCSymmetry
SPECIFICATION Spec
INVARIANT TypeOK
INVARIANT CurrentIsProved
INVARIANT DeferralBounded
INVARIANT PollNeverWedges
PROPERTY NoHotLoop
CONSTRAINT ClockOrDeveloper
CHECK_DEADLOCK FALSE
