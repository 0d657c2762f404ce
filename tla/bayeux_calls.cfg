SPECIFICATION Spec
INVARIANT IInv
INVARIANT OneHandshake
INVARIANT ConnectedHasSession
PROPERTY AtomicRequests
PROPERTY SubscribeHolds
SYMMETRY Symmetry
CONSTANTS
  Caller = {c1, c2, c3}
  Channel = {a, b}
  Invalid = {}
  NoChannel = NoChannel
  ClientIDs = {i1, i2}
  NoID = NoID
  Extension = {e}
  Nil = Nil
  Operations = {"handshake", "connect", "subscribe", "unsubscribe", "disconnect"}
  MaxCalls = 4
CHECK_DEADLOCK FALSE
