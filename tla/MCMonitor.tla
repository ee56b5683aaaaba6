------------------------------ MODULE MCMonitor ------------------------------
(* Small instance of Monitor for TLC.  One decoded status is enough: snapshots
   differ in their times and flags, and no handler looks into the status.     *)
EXTENDS Monitor

CONSTANT s1

MCStatuses == {s1}
=============================================================================
