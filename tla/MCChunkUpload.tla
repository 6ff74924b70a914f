---------------------------- MODULE MCChunkUpload ----------------------------
(* Instances of ChunkUpload for TLC. *)
EXTENDS ChunkUpload, TLC

CONSTANTS p1, p2, k1, l1, l2

\* One upload of two bytes.
Two == k1 :> 2
=============================================================================
