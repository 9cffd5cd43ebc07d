--------------------------- MODULE MCContentStore ---------------------------
EXTENDS ContentStore, TLC

CONSTANTS k1, k2

\* One object of the greatest size and a smaller one.
KeySize == [k \in Keys |-> IF k = k1 THEN MaxBytes ELSE 1]
Symmetry == Permutations(Writers)
=============================================================================
