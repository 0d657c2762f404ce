----------------------------- MODULE MCClientV1 -----------------------------
(* ClientV1 for TLC: receivers are interchangeable. *)
EXTENDS ClientV1

ReceiverSymmetry == Permutations(Receiver)
=============================================================================
