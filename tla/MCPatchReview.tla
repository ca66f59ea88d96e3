----------------------------- MODULE MCPatchReview ----------------------------
(* Instances of PatchReview for TLC. *)
EXTENDS PatchReview

CONSTANTS r1, r2, p1, p2, t1, t2, t3

=============================================================================
