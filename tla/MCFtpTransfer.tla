---------------------------- MODULE MCFtpTransfer ----------------------------
(* Instances of FtpTransfer for TLC. *)
EXTENDS FtpTransfer

CONSTANTS s1, s2

\* Sessions are interchangeable, as users and as the bytes they send.
Symm == Permutations(Sessions)
=============================================================================
