CONSTANTS
  d1 = d1
  d2 = d2
  c1 = c1
  A = A
  B = B
  DirectJobs = {d1, d2}
  ControlJobs = {}
  Destinations = {A, B}
  NoDest = NoDest
  NoJob = NoJob
  WireMod = 8
  WordMod = 64
  Stride = 4
  MaxStarts = 1
  InstanceUid <- SameUid
  MaxTasks = 2
  Origin <- MCOrigin
  Commands = {}
  QueryIds = {}
  Faults = FALSE
  MaxCopies = 1
SPECIFICATION Spec
INVARIANT PendingResultRecognised
