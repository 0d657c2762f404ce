SPECIFICATION Spec
CONSTANTS
  Loops = {l1}
  Channel = {c1, c2}
  Invalid = {}
  Receiver = {r1, r2}
  MetaConnect = MetaConnect
  None = None
  Inner = Inner
  ClientIDs = {id1}
  NoID = NoID
  QueueCap = 2
  MessageCap = 2
  Ignored = {"duplicate"}
  Advices = {"retry"}
  ReplyAt = {"last"}
  Faults = {"subscribe", "unsubscribe"}
  MaxCalls = 4
  MaxBatch = 3
  MaxServed = 3
  MaxDisconnects = 0
SYMMETRY Symmetry
INVARIANTS
  Routing
  InOrder
  NoLoss
  Coherent
  NeverOrphaned
PROPERTIES
  ImplementsSession
  SubscriptionStable
CHECK_DEADLOCK FALSE
