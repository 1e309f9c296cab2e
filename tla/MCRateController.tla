-------------------------- MODULE MCRateController --------------------------
(* Two cloud actions on one host, one on another, and a local action; a token *)
(* takes 100 ms, 200 after the 429 of another task on the host.               *)
EXTENDS RateController, TLC

CONSTANTS t1, t2, t3, t4, h1, h2

MCHostOf == t1 :> h1 @@ t2 :> h1 @@ t3 :> h2
=============================================================================
