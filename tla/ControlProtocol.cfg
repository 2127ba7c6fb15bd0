SPECIFICATION CSpec
CONSTANTS
  c1 = c1
  c2 = c2
  DirectJobs = {}
  ControlJobs = {c1, c2}
  Destinations = {}
  NoDest = NoDest
  NoJob = NoJob
  NoHandle = NoHandle
  WireMod = 8
  WordMod = 16
  Stride = 3
  MaxStarts = 1
  InstanceUid <- Uid
  MaxTasks = 2
  Origin <- NoOrigin
  Commands = {"create", "list", "invalid", "status", "result", "cancel", "resource", "pending"}
  QueryIds <- MCQueryIds
  Registry <- MCRegistry
  RestRequests <- MCRestRequests
INVARIANTS DecodeMatchesRoutes   
