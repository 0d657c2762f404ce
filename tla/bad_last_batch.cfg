SPECIFICATION Spec
CONSTANTS
  Loops = {l1}
  Channel = {c1}
  Invalid = {}
  Receiver = {r1}
  MetaConnect = MetaConnect
  None = None
  Inner = Inner
  ClientIDs = {id1}
  NoID = NoID
  QueueCap = 2
  MessageCap = 2
  Ignored = {}
  Advices = {"retry"}
  ReplyAt = {"first"}
  Faults = {}
  MaxCalls = 1
  MaxBatch = 1
  MaxServed = 1
  MaxDisconnects = 0
INVARIANTS
  AllReceived
CHECK_DEADLOCK FALSE
