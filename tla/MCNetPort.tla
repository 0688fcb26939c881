----------------------------- MODULE MCNetPort -----------------------------
(* Small instances of NetPort. *)
EXTENDS NetPort
============================================================================
