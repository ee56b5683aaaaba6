------------------------------ MODULE MCSource ------------------------------
(* Small instance of Source for TLC. *)
EXTENDS Source

CONSTANTS d1, a, b, r
=============================================================================
