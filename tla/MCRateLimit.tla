---------------------------- MODULE MCRateLimit ----------------------------
(***************************************************************************)
(* Limits for TLC: two requests per window, one login.                     *)
(***************************************************************************)
EXTENDS RateLimit

MCMaxRequests == [l \in Limiters |-> IF l = "login" THEN 1 ELSE 2]
=============================================================================
