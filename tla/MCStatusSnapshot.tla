------------------------- MODULE MCStatusSnapshot -------------------------
(* Instances of StatusSnapshot: the calls as model values. *)
EXTENDS StatusSnapshot

CONSTANTS t1, t2, t3
=============================================================================
