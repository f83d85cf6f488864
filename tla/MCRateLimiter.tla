---------------------------- MODULE MCRateLimiter ----------------------------
(***************************************************************************)
(* A bucket of 3 tokens, 2 per tick: neither divides the other, so that    *)
(* the clamp at the capacity cuts a partial refill.  The costs are the     *)
(* free call, the usual one, the full burst, and one that no bucket serves.*)
(***************************************************************************)
EXTENDS RateLimiterHistory

MCCosts == {0, 1, 3, 4}
=============================================================================
