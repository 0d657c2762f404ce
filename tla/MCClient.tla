------------------------------ MODULE MCClient ------------------------------
(***************************************************************************)
(* ClientProperties for TLC.  Loops and channels are interchangeable, and  *)
(* so are receivers and client ids: symmetry, for the runs without         *)
(* liveness properties.                                                    *)
(***************************************************************************)
EXTENDS ClientProperties

Symmetry == Permutations(Loops) \cup Permutations(Channel)
            \cup Permutations(Receiver) \cup Permutations(ClientIDs)

\* With some channels invalid only the receivers remain interchangeable.
ReceiverSymmetry == Permutations(Receiver)
=============================================================================
