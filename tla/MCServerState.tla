--------------------------- MODULE MCServerState ---------------------------
(* Instances of ServerState for TLC. *)
EXTENDS ServerState, TLC

CONSTANTS c1, c2, c3

Symmetric == Permutations({c1, c2, c3})
=============================================================================
