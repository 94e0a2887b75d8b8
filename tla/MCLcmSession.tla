--------------------------- MODULE MCLcmSession ---------------------------
EXTENDS LcmSession, TLC
CONSTANTS e1, e2, k1
MCMode == [c \in Caller |-> IF c = "mapper" THEN "Upward" ELSE "Dolt"]
Symmetry == Permutations(Entry)
=============================================================================
