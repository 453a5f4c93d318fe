--------------------------- MODULE MCBridgeBuffer ---------------------------
(* Instance of BridgeBuffer for TLC: its sets are symmetric. *)
EXTENDS BridgeBuffer, TLC

Sym == Permutations(Names) \cup Permutations(Objects) \cup Permutations(Datas)
=============================================================================
