---------------------------- MODULE MCCachePurge ----------------------------
(* Instances of CachePurge for TLC: a root with a folder, and a file in the *)
(* folder.                                                                  *)
EXTENDS CachePurge

CONSTANTS r, d, f, p1, p2, v1

MCParent == [u \in URLs |-> IF u = f THEN d ELSE r]
MCBelow == [u \in Listings |-> IF u = r THEN {d, f} ELSE {f}]
=============================================================================
