---------------------------- MODULE MCMessageApi ----------------------------
(* Instance for TLC: requests are interchangeable. *)
EXTENDS MessageApi, TLC

RequestSymmetry == Permutations(Requests)
=============================================================================
