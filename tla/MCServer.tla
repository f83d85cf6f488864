------------------------------- MODULE MCServer -------------------------------
(***************************************************************************)
(* Two clients, so that one may hold a subscription or a request while the *)
(* other comes and goes, and up to two seeded queries of two judgments     *)
(* each, so that both loops of the seeding can be interrupted.             *)
(***************************************************************************)
EXTENDS Server

CONSTANTS c1, c2, d1, d2

MCClients == {c1, c2}
MCDocs == {d1, d2}
=============================================================================
