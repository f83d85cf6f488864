----------------------------- MODULE MCEvaluation -----------------------------
(***************************************************************************)
(* Three documents with grades 0 to 2, so that two of one grade, an        *)
(* irrelevant one and an unjudged one occur, and cutoffs below, at and     *)
(* above the length of the ranking.  The weights are 20 / log2(rank + 1),  *)
(* rounded.                                                                *)
(***************************************************************************)
EXTENDS EvaluationInputs

MCDocs == {1, 2, 3}
MCDiscount == <<20, 13, 10, 9, 8>>
=============================================================================
