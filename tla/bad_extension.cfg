SPECIFICATION Spec
INVARIANT ExtensionDataSent
CONSTANTS
  Caller = {c1}
  Channel = {a}
  Invalid = {}
  NoChannel = NoChannel
  ClientIDs = {i1, i2}
  NoID = NoID
  Extension = {e}
  Nil = Nil
  Operations = {"handshake"}
  MaxCalls = 1
CHECK_DEADLOCK FALSE
