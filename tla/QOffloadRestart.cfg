CONSTANTS
  d1 = d1
  d2 = d2
  c1 = c1
  A = A
  B = B
  DirectJobs = {d1, d2}
  ControlJobs = {}
  Destinations = {A, B}
  NoDest = NoDest
  NoJob = NoJob
  WireMod = 32
  WordMod = 64
  Stride = 4
  MaxStarts = 2
  InstanceUid <- NewUidEachStart
  MaxTasks = 2
  Origin <- MCOrigin
  Commands = {}
  QueryIds = {}
  Faults = TRUE
  MaxCopies = 2
SPECIFICATION Spec
INVARIANT ResultsReachTheirClient
