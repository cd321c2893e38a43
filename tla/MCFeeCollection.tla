--------------------------- MODULE MCFeeCollection ---------------------------
(* Instances of FeeCollection: one group of two decisions, one of them settled, *)
(* and a second group.                                                          *)
EXTENDS FeeCollection, TLC

CONSTANTS d1, d2, d3, g1, g2

MCGroupOf == [d \in Decisions |-> IF d = d3 THEN g2 ELSE g1]

Symmetry == Permutations(Runs) \cup Permutations(Collectors) \cup Permutations(References)
=============================================================================
