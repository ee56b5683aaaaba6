------------------------------ MODULE MCDaemon ------------------------------
(* Small instance of Daemon for TLC. *)
EXTENDS Daemon

CONSTANTS s1, c1
=============================================================================
