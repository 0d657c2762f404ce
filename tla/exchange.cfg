SPECIFICATION Spec
INVARIANT IInv
INVARIANT SnapshotConsistent
INVARIANT OneResponse
INVARIANT NeverStale
CONSTANTS
  Caller = {p, g}
  Poller = p
  Channel = {s, a}
  Slash = s
  NoEntry = NoEntry
  MaxId = 2
  MaxSize = 2
  MaxCalls = 3
CHECK_DEADLOCK FALSE
