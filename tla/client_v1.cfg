SPECIFICATION Spec1
SYMMETRY ReceiverSymmetry
CONSTANTS
  Loops = {l1}
  Channel = {c1, c2, c3}
  Invalid = {c3}
  Receiver = {r1, r2}
  MetaConnect = MetaConnect
  None = None
  Inner = Inner
  ClientIDs = {id1}
  NoID = NoID
  QueueCap = 2
  MessageCap = 2
  Ignored = {}
  Advices = {"retry", "handshake", "absent"}
  ReplyAt = {"first", "last"}
  Faults = {"handshake", "subscribe", "connect", "disconnect"}
  MaxCalls = 3
  MaxBatch = 1
  MaxServed = 1
  MaxDisconnects = 1
INVARIANTS
  Coherent
  NeverOrphaned
PROPERTIES
  ImplementsV2
  EntriesKept
CHECK_DEADLOCK FALSE
