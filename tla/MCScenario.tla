------------------------------ MODULE MCScenario ------------------------------
(***************************************************************************)
(* Two topics of three tokens, two fillers, the lowest and the highest     *)
(* retrieval score.  The shapes: nothing, empty pools, one query with too  *)
(* many relevant documents, mixed pools, and three queries, so that the    *)
(* topics go round.  60 is a multiple of every size of a union of tokens,  *)
(* and the table is 60 * ln(1 + n).                                        *)
(***************************************************************************)
EXTENDS Scenario

MCTopics == << <<"rust", "async", "runtime">>, <<"graph", "neural", "networks">> >>
MCFiller == {"guide", "notes"}
MCRetrievals == {0, 59}
MCGrades == {1, 3}
MCShapes == { <<0, 2, 1>>, <<2, 0, 1>>, <<1, 2, 5>>, <<1, 3, 1>>, <<1, 3, 2>>,
              <<2, 2, 1>>, <<3, 1, 1>> }
MCLogTf == <<42, 66, 83, 97, 108>>
MCDiscount == <<60, 38, 30, 26>>
=============================================================================
