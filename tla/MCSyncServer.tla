---------------------------- MODULE MCSyncServer ----------------------------
(* Instances of SyncServer for TLC. *)
EXTENDS SyncServer

CONSTANTS c1, c2, s1, s2, empty, a1, d1

SymmetricTwo == Permutations({c1, c2})
=============================================================================
