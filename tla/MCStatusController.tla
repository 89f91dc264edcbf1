------------------------- MODULE MCStatusController -------------------------
(* StatusController for TLC. *)
EXTENDS StatusController
=============================================================================
