--------------------------- MODULE MCResourceCache ---------------------------
(* ResourceCache for TLC. *)
EXTENDS ResourceCache
=============================================================================
