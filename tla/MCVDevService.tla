---------------------------- MODULE MCVDevService ----------------------------
(* Two calls in one process and its restarts. *)
EXTENDS VDevService
=============================================================================
