CONSTANTS
  as1 = as1
  as2 = as2
  Assistants <- MCAssistants
  Changes <- MCChanges
  Wedges = {}
  MaxFaults = 3
  SchedFaults = 2
  SchedMeddles = 1
  MaxHelpers = 2
  HelperFaults = 2
  FailedLooks = 0
  p1 = p1
  p2 = p2
  Processes <- MCProcesses
  NoProcess = NoProcess
  AccessLife = 1
  WaitLimit = 1
  MaxPairs = 3
  AccountFaults = 1
  Sets <- MCSets
  Developer = {"dev"}
  NoSet = NoSet
  Carries <- MCCarries
  Validity = 2
  Skew = 1
  Times = {1, 2, 5}
  MaxPulls = 1
  BrowserFaults = 2
  Apps = {"app"}
  MaxChanges = 1
  Writers = {"w1", "w2"}
  NoWriter = "nobody"
  Values = {"stopped", "other"}
  Stopped = "stopped"
  MaxBreaks = 3
SPECIFICATION Spec
PROPERTY ForeignStays
