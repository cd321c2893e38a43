------------------------------- MODULE MCSignIn -------------------------------
(* Instances of SignIn: requests, sessions and challenges are interchangeable. *)
EXTENDS SignIn, TLC

Symmetry == Permutations(Requests) \cup Permutations(Sessions) \cup Permutations(Challenges)
=============================================================================
