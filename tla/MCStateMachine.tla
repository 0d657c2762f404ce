--------------------------- MODULE MCStateMachine ---------------------------
(* ConnectionStateMachine for TLC: goroutines are interchangeable. *)
EXTENDS ConnectionStateMachine, TLC

Symmetry == Permutations(Caller)
=============================================================================
