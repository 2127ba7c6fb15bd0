CONSTANTS
  d1 = d1
  d2 = d2
  c1 = c1
  A = A
  B = B
  DirectJobs = {}
  ControlJobs = {c1}
  Destinations = {A, B}
  NoDest = NoDest
  NoJob = NoJob
  WireMod = 32
  WordMod = 64
  Stride = 4
  MaxStarts = 1
  InstanceUid <- SameUid
  MaxTasks = 2
  Origin <- MCOrigin
  Commands = {"create", "status"}
  QueryIds = {1}
  Faults = FALSE
  MaxCopies = 2
SPECIFICATION Spec
INVARIANT CreatedTaskIsKnown
