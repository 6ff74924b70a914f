---------------------------- MODULE MCShareStore -----------------------------
(* Instances of ShareStore for TLC. *)
EXTENDS ShareStore, TLC

CONSTANTS k1, k2, c1, c2, c3

Symm == Permutations(Links) \cup Permutations(Clients)
=============================================================================
