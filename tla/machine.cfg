SPECIFICATION Spec
PROPERTY Linearizable
SYMMETRY Symmetry
CONSTANTS
  Caller = {g1, g2, g3}
  MaxCalls = 5
CHECK_DEADLOCK FALSE
