--------------------------- MODULE MCCircuitBreaker ---------------------------
(***************************************************************************)
(* Three callers and a threshold of two: two of them trip the breaker while *)
(* the third is a straggler.  The clock allows two full cooldowns and one   *)
(* restarted half-way.                                                      *)
(***************************************************************************)
EXTENDS CircuitBreaker, TLC

CONSTANTS c1, c2, c3

MCCallers == {c1, c2, c3}

\* No caller is distinguished from another by the specification.
CallerSymmetry == Permutations(MCCallers)
=============================================================================
