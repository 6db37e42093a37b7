----------------------------- MODULE MCLineMem ------------------------------
(* The line port with fewer buffers than ids, so that requests wait for them. *)
EXTENDS LineMem
=============================================================================
