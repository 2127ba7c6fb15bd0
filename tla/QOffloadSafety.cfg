CONSTANTS
  d1 = d1
  d2 = d2
  c1 = c1
  A = A
  B = B
  DirectJobs = {d1}
  ControlJobs = {c1}
  Destinations = {A, B}
  NoDest = NoDest
  NoJob = NoJob
  WireMod = 32
  WordMod = 64
  Stride = 4
  MaxStarts = 1
  InstanceUid <- SameUid
  MaxTasks = 2
  Origin <- MCOrigin
  Commands = {"create", "invalid", "status", "result", "cancel", "pending"}
  QueryIds = {1, 5}
  Faults = TRUE
  MaxCopies = 2
SPECIFICATION Spec
INVARIANTS TypeOK ResultsReachTheirClient DeliveredOnce FetchedOnce ReplyMatchesQuery
  JobsAccounted StoreConsistent PendingOnlyLeaksLost
PROPERTY ResultKept
