---------------------------- MODULE RerankerPort ----------------------------
(***************************************************************************)
(* What the Reranker port of crates/reranklab-core/src/ports.rs promises   *)
(* its caller, as the adapters of this workspace keep it: a request is     *)
(* answered at most once, with a well-formed ranking of the candidates it  *)
(* came with, and never with an error; a caller that loses interest may    *)
(* drop it.                                                                *)
(***************************************************************************)
EXTENDS Ranking

CONSTANT CandidateLists   \* the lists of candidates requests may come with

VARIABLES phase, offered, answer

portVars == <<phase, offered, answer>>

Init ==
  /\ phase = "idle"
  /\ offered = <<>>
  /\ answer = <<>>

Ask ==
  /\ phase = "idle"
  /\ phase' = "running"
  /\ offered' \in CandidateLists
  /\ UNCHANGED answer

Answer ==
  /\ phase = "running"
  /\ phase' = "answered"
  /\ WellFormed(answer', offered)
  /\ UNCHANGED offered

\* The caller takes the answer, or goes away before there is one.
Leave ==
  /\ phase # "idle"
  /\ phase' = "idle"
  /\ offered' = <<>>
  /\ answer' = <<>>

Next == Ask \/ Answer \/ Leave

Spec == Init /\ [][Next]_portVars
=============================================================================
