-------------------------- MODULE MCInstructionKeys --------------------------
(* Instances of InstructionKeys: no process and no request is special. *)
EXTENDS InstructionKeys, TLC

Symmetry == Permutations(Nodes) \cup Permutations(Requests)
=============================================================================
