SPECIFICATION Spec
CONSTANTS
  Loops = {l1, l2}
  Channel = {c1}
  Invalid = {}
  Receiver = {r1}
  MetaConnect = MetaConnect
  None = None
  Inner = Inner
  ClientIDs = {id1, id2}
  NoID = NoID
  QueueCap = 2
  MessageCap = 1
  Ignored = {"unsubscribe"}
  Advices = {"retry", "handshake", "absent"}
  ReplyAt = {"first", "last"}
  Faults = {"handshake", "subscribe", "unsubscribe", "connect", "disconnect"}
  MaxCalls = 2
  MaxBatch = 1
  MaxServed = 2
  MaxDisconnects = 2
SYMMETRY Symmetry
INVARIANTS
  TypeOK
  OneLoop
  TroubleExplained
PROPERTIES
  SessionKept
  StrandedForGood
  ImplementsSession
CHECK_DEADLOCK FALSE
