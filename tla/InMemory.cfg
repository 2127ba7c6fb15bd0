SPECIFICATION FairSpec
CONSTANTS
  Threads = {t1, t2, t3}
  Addresses = {a, b}
  NoName = NoName
  NoEnvelope = NoEnvelope
  MaxCalls = 1
INVARIANTS TypeOK NoLostWakeup FifoPerAddress
PROPERTIES FrozenAfterStop StopUnblocks NoStrandedMessage ImplementsContract
