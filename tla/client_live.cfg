SPECIFICATION LiveSpec
CONSTANTS
  Loops = {l1}
  Channel = {c1}
  Invalid = {}
  Receiver = {r1}
  MetaConnect = MetaConnect
  None = None
  Inner = Inner
  ClientIDs = {id1}
  NoID = NoID
  QueueCap = 2
  MessageCap = 1
  Ignored = {"subscribe"}
  Advices = {"retry", "handshake", "absent"}
  ReplyAt = {"first", "last"}
  Faults = {"connect", "subscribe"}
  MaxCalls = 3
  MaxBatch = 1
  MaxServed = 2
  MaxDisconnects = 0
PROPERTIES
  CancelStops
  SubscribeServed
  KeepsConnecting
CHECK_DEADLOCK FALSE
