------------------------- MODULE MCQuoteResilience -------------------------
(* Model-checking instance of QuoteResilience. *)
EXTENDS QuoteResilience

CONSTANTS p1, p2, r1, r2, r3
=============================================================================
