------------------------------ MODULE MCBridge ------------------------------
(* Instances of Bridge for TLC: symmetry sets for the safety run. *)
EXTENDS Bridge, TLC

Sym == Permutations(Callers) \cup Permutations(Handles)
         \cup Permutations(Ids) \cup Permutations(Paths) \cup Permutations(Procs)
=============================================================================
