------------------------------ MODULE MCServer ------------------------------
(* Small instance of Server for TLC: one client that reads and one that may
   stall or hang up.                                                         *)
EXTENDS Server

CONSTANTS good, bad
=============================================================================
