SPECIFICATION LiveSpec
CONSTANTS
  Loops = {l1}
  Channel = {c1}
  Invalid = {}
  Receiver = {r1}
  MetaConnect = MetaConnect
  None = None
  Inner = Inner
  ClientIDs = {id1}
  NoID = NoID
  QueueCap = 2
  MessageCap = 2
  Ignored = {}
  Advices = {"retry"}
  ReplyAt = {"last"}
  Faults = {}
  MaxCalls = 0
  MaxBatch = 1
  MaxServed = 1
  MaxDisconnects = 1
PROPERTIES
  DisconnectStopsLoop
CHECK_DEADLOCK FALSE
