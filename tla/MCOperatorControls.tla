------------------------- MODULE MCOperatorControls -------------------------
(***************************************************************************)
(* Instances of OperatorControls.                                          *)
(***************************************************************************)
EXTENDS OperatorControls, TLC

\* Requests are interchangeable.
Symmetry == Permutations(Requests)
=============================================================================
