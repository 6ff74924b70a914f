------------------------------ MODULE MCStorage ------------------------------
(* Instances of Storage for TLC. *)
EXTENDS Storage, TLC

CONSTANTS p1, p2, p3, q1, q2, d1, d2, d3, i1, i2, i3

\* Procs and Data are interchangeable; so are Ids.  Paths are interchangeable
\* only where no path is a monitor path, so they are left out.
Symm == Permutations(Procs) \cup Permutations(Data) \cup Permutations(Ids)
=============================================================================
