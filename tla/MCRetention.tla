----------------------------- MODULE MCRetention -----------------------------
(* A few Backups on a clock that goes past the retention period.           *)
EXTENDS Retention
=============================================================================
