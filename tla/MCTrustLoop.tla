----------------------------- MODULE MCTrustLoop -----------------------------
(* All six patches fit into the default bound of six steps. *)
EXTENDS TrustLoop
=============================================================================
