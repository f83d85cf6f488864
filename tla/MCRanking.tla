------------------------------ MODULE MCRanking ------------------------------
(***************************************************************************)
(* Two documents that may repeat, one id the model may invent, two numbers *)
(* and NaN: replies of three items are the shortest on which transitivity, *)
(* ties across NaN and a partly invented reply all show.                   *)
(***************************************************************************)
EXTENDS RankingInputs

MCOfferedIds == {1, 2}
MCInventedIds == {3}
MCNumbers == {0, 1}
MCScores == MCNumbers \union {NaN}
=============================================================================
