----------------------------- MODULE MCPreview ------------------------------
(* Values for the constants of Preview.                                    *)
EXTENDS Preview

(* The third body is too long for the cache, with or without a merged SVG. *)
Lengths == [b \in Body |-> IF b = 3 THEN 5 ELSE b]
=============================================================================
