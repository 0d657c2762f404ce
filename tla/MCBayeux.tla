------------------------------ MODULE MCBayeux ------------------------------
(* BayeuxProperties for TLC. *)
EXTENDS BayeuxProperties, TLC

Symmetry == Permutations(Caller) \cup Permutations(Channel) \cup Permutations(ClientIDs)
CallerSymmetry == Permutations(Caller)
=============================================================================
