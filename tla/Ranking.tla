------------------------------- MODULE Ranking -------------------------------
(***************************************************************************)
(* How scores become a ranking: the comparator and the sort of             *)
(* crates/reranklab-types/src/candidate.rs, the reply parser of            *)
(* crates/reranklab-ai/src/reranker.rs, and the heuristic reranker of      *)
(* crates/reranklab-core/src/rerank.rs.                                    *)
(*                                                                         *)
(* A score is an integer or NaN.  A candidate is [id, lexical, retrieval]: *)
(* its text counts only through `lexical`, the weighted sum of the text    *)
(* features for the query at hand.  A scored candidate is                  *)
(* [id, score, retrieval].                                                 *)
(***************************************************************************)
EXTENDS Sorting

CONSTANTS
  NaN,       \* the f32 that compares with nothing
  Garbage    \* a reply that is not a JSON array of {id, score} objects

ASSUME ScoreAssumption == NaN \notin Int

Score == Int \union {NaN}

\* Broken variant: partial_cmp(..).unwrap_or(Equal).
CmpDescNaNEqual(a, b) ==
  CASE a = NaN \/ b = NaN -> "Equal"
    [] OTHER -> IF b < a THEN "Less" ELSE IF b = a THEN "Equal" ELSE "Greater"

\* ScoredCandidate::cmp_desc: "Less" puts a before b.
CmpDesc(a, b) ==
  CASE a = NaN /\ b = NaN -> "Equal"
    [] a = NaN /\ b # NaN -> "Greater"
    [] a # NaN /\ b = NaN -> "Less"
    [] OTHER -> IF b < a THEN "Less" ELSE IF b = a THEN "Equal" ELSE "Greater"

\* Broken variant: ties come out in the reverse of the order they went in.
PrecedesUnstable(items, i, j) ==
  \/ CmpDesc(items[i].score, items[j].score) = "Less"
  \/ CmpDesc(items[i].score, items[j].score) = "Equal" /\ i > j

\* Vec::sort_by is stable: where cmp_desc says Equal, the old order stays.
Precedes(items, i, j) ==
  \/ CmpDesc(items[i].score, items[j].score) = "Less"
  \/ CmpDesc(items[i].score, items[j].score) = "Equal" /\ i < j

Precedence(items) ==
  {pair \in (DOMAIN items) \X (DOMAIN items) : Precedes(items, pair[1], pair[2])}

\* RankedList::from_scored
FromScored(items) ==
  LET order == Arrangement(DOMAIN items, Precedence(items))
  IN  [p \in DOMAIN items |-> items[order[p]]]

Ids(list) == {list[i].id : i \in DOMAIN list}

\* The map from id to retrieval score that parse_scores collects: of two
\* candidates with one id the later wins.
RetrievalOf(candidates, id) ==
  candidates[Max({i \in DOMAIN candidates : candidates[i].id = id})].retrieval

Scored(candidates, item) ==
  [id |-> item.id, score |-> item.score, retrieval |-> RetrievalOf(candidates, item.id)]

\* Broken variant: an id the model invented gets a retrieval score of zero.
KeptKeepsInvented(reply, candidates) ==
  [i \in DOMAIN reply |->
     IF reply[i].id \in Ids(candidates)
     THEN Scored(candidates, reply[i])
     ELSE [id |-> reply[i].id, score |-> reply[i].score, retrieval |-> 0]]

\* The items of a reply whose id was offered, in the order of the reply.  An
\* id the model names twice is kept twice, one it leaves out is left out.
Kept(reply, candidates) ==
  LET offered == {i \in DOMAIN reply : reply[i].id \in Ids(candidates)}
      order == Arrangement(offered, {pair \in offered \X offered : pair[1] < pair[2]})
  IN  [p \in DOMAIN order |-> Scored(candidates, reply[order[p]])]

\* parse_scores returns Ok.
Parses(reply, candidates) == reply # Garbage /\ Kept(reply, candidates) # <<>>

\* What score_with_model makes of a reply that parses.
ModelRanking(reply, candidates) == FromScored(Kept(reply, candidates))

\* HeuristicReranker::score, with positive weights folded into the units.  A
\* sum with NaN is NaN.
HeuristicScore(candidate) ==
  IF candidate.retrieval = NaN THEN NaN ELSE candidate.lexical + candidate.retrieval

\* Broken variant: scores are collected by id, so that of two candidates with
\* one id only the later survives.
HeuristicRankingKeyed(candidates) ==
  LET last == SelectSeq([i \in DOMAIN candidates |-> i],
                        LAMBDA i : \A j \in DOMAIN candidates :
                          candidates[j].id = candidates[i].id => j <= i)
  IN  FromScored([p \in DOMAIN last |->
                    [id |-> candidates[last[p]].id,
                     score |-> HeuristicScore(candidates[last[p]]),
                     retrieval |-> candidates[last[p]].retrieval]])

\* HeuristicReranker::rerank
HeuristicRanking(candidates) ==
  FromScored([i \in DOMAIN candidates |->
                [id |-> candidates[i].id,
                 score |-> HeuristicScore(candidates[i]),
                 retrieval |-> candidates[i].retrieval]])

-----------------------------------------------------------------------------
(* What a caller may expect of a ranking, stated without the comparator.   *)

Above(a, b) == b = NaN \/ (a # NaN /\ b # NaN /\ a >= b)

\* Best first, and NaN below every number.
BestFirst(list) ==
  \A i, j \in DOMAIN list : i < j => Above(list[i].score, list[j].score)

\* The answer a reranker owes for these candidates: only documents that were
\* offered, best first, and something whenever something was offered.
WellFormed(list, candidates) ==
  /\ BestFirst(list)
  /\ Ids(list) \subseteq Ids(candidates)
  /\ list = <<>> <=> candidates = <<>>
=============================================================================
