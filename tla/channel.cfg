SPECIFICATION Spec
INVARIANT MatchBySegments
INVARIANT PanicsAtParent
CONSTANTS
  Letter = {"a", "b"}
  MaxLength = 5
CHECK_DEADLOCK FALSE
