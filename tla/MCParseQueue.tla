---------------------------- MODULE MCParseQueue ----------------------------
(* Instances of ParseQueue for TLC. *)
EXTENDS ParseQueue, TLC

Symmetry == Permutations(Workers) \union Permutations(Contents)
=============================================================================
