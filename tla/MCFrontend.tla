----------------------------- MODULE MCFrontend -----------------------------
(* Small instance of Frontend for TLC. *)
EXTENDS Frontend

CONSTANT tray
=============================================================================
