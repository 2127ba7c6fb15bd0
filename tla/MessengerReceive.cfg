SPECIFICATION MSpec
CONSTANTS
  Threads = {t1, t2}
  Queues = {q}
  NoName = NoName
  NoThread = NoThread
  NoMessage = NoMessage
  Modes = {"Manual"}
  MaxCalls = 2
  MaxFaults = 0
  Undecodable <- MCUndecodable
SYMMETRY Symmetry
CHECK_DEADLOCK FALSE
INVARIANTS ReceiveConsumes
