--------------------------- MODULE MCAgentPayments ---------------------------
(***************************************************************************)
(* Instances of AgentPayments.                                             *)
(***************************************************************************)
EXTENDS AgentPayments, TLC

\* Requests of a kind, and intents, are interchangeable.
Symmetry == Permutations(Intents) \cup Permutations(Lockers) \cup Permutations(Quoters)
=============================================================================
