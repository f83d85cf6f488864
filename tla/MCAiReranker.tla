---------------------------- MODULE MCAiReranker ----------------------------
(***************************************************************************)
(* Two requests of up to four attempts.  The sleeps grow from 4 to the cap *)
(* of 8, which cuts the second doubling; a second is long enough not to    *)
(* cut the jitter.  The replies: no JSON, an empty array, an invented      *)
(* id, a full ranking in the wrong order, one of the documents, and one    *)
(* document twice, each the text of the first choice or of the only one,   *)
(* and no choice at all.  The statuses lie on both sides of each border.   *)
(***************************************************************************)
EXTENDS AiReranker

MCCandidateLists ==
  { <<>>,
    <<[id |-> 1, lexical |-> 0, retrieval |-> 1],
      [id |-> 2, lexical |-> 2, retrieval |-> 0]>> }

MCReplies ==
  { Garbage, <<>>,
    <<[id |-> 9, score |-> 1]>>,
    <<[id |-> 1, score |-> 0], [id |-> 2, score |-> 1]>>,
    <<[id |-> 1, score |-> 1], [id |-> 9, score |-> 2]>>,
    <<[id |-> 2, score |-> 0], [id |-> 2, score |-> 1]>> }

MCBodies == {<<>>} \union {<<text>> : text \in MCReplies} \union {<<<<>>, Garbage>>}

MCStatuses == {200, 299, 300, 429, 499, 500}
=============================================================================
