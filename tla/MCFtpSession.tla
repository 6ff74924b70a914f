----------------------------- MODULE MCFtpSession -----------------------------
(* Instances of FtpSession for TLC. *)
EXTENDS FtpSession, TLC

CONSTANTS s1, s2, alice, bob

\* Every account is named as the store names it; the theorems allow any spelling.
MCNormal == [k \in Keys |-> k]

Symm == Permutations(Clients) \cup Permutations(Users)
=============================================================================
