--------------------------- MODULE MCRerankService ---------------------------
(***************************************************************************)
(* Two requests against a bucket of one, with either reranker, and one     *)
(* client that hears their events.  No port fails.                         *)
(***************************************************************************)
EXTENDS RerankService

CONSTANTS r1, r2, s1

MCRequests == {r1, r2}
MCRerankers == {"ai", "heuristic"}
MCCosts == {1}
MCSubscribers == {s1}
=============================================================================
