---------------------------- MODULE MCPassivePorts ----------------------------
(* Instances of PassivePorts for TLC. *)
EXTENDS PassivePorts, TLC

CONSTANTS s1, s2, s3

Symm == Permutations(Sessions)
=============================================================================
