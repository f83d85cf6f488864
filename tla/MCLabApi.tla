------------------------------- MODULE MCLabApi -------------------------------
(***************************************************************************)
(* Two requests of any field against a bucket of one token that refills    *)
(* twice over, so that the second is refused, or admitted after a refill   *)
(* that may have been due for longer than the bucket can save.             *)
(***************************************************************************)
EXTENDS LabApi

CONSTANTS r1, r2, s1

MCRequests == {r1, r2}
MCUnlucky == {r2}
MCRerankers == {"ai", "heuristic"}
MCCosts == {1}
MCSubscribers == {s1}
=============================================================================
