SPECIFICATION FairSpec
CONSTANTS
  Threads = {t1, t2}
  Queues = {q}
  NoName = NoName
  NoThread = NoThread
  NoMessage = NoMessage
  Modes = {"Manual"}
  MaxCalls = 2
  MaxFaults = 1
CHECK_DEADLOCK FALSE
PROPERTIES StopUnblocks WaiterServed
