SPECIFICATION Spec
PROPERTY ImplementsBayeux
PROPERTY EveryCallReturns
CONSTANTS
  Caller = {c1, c2}
  Channel = {a, b}
  Invalid = {}
  NoChannel = NoChannel
  ClientIDs = {i1}
  NoID = NoID
  Extension = {}
  Nil = Nil
  Operations = {"handshake", "connect", "subscribe", "unsubscribe", "disconnect"}
  MaxCalls = 4
