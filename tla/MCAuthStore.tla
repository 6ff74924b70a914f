----------------------------- MODULE MCAuthStore -----------------------------
(* Instances of AuthStore for TLC. *)
EXTENDS AuthStore, TLC

CONSTANTS u1, u2, p1, p2

Symm == Permutations(Procs)
=============================================================================
