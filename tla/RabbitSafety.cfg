SPECIFICATION MSpec
CONSTANTS
  Threads = {t1, t2}
  Queues = {q}
  NoName = NoName
  NoThread = NoThread
  NoMessage = NoMessage
  Modes = {"Auto", "Manual"}
  MaxCalls = 2
  MaxFaults = 2
  Undecodable <- MCUndecodable
SYMMETRY Symmetry
CHECK_DEADLOCK FALSE
INVARIANTS MTypeOK NothingLost ExclusiveDelivery SettledOnce OneMessagePerCall
  AutoAtMostOnce UndecodableKept
