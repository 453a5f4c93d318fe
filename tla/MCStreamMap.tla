---------------------------- MODULE MCStreamMap ----------------------------
\* Instances of StreamMap for TLC: files and heap addresses are symmetric
\* (no CHOOSE ranges over them and no constant distinguishes them).
EXTENDS StreamMap, TLC

(* Postfixed is empty, so the paths are symmetric as well. *)
FullSymmetry == Permutations(Paths) \cup Permutations(Files) \cup Permutations(Streams)
=============================================================================
