------------------------------- MODULE Scenario -------------------------------
(***************************************************************************)
(* The synthetic scenarios of crates/reranklab-infra/src/generator.rs, and *)
(* what the `demo` of crates/reranklab-node/src/main.rs reports on them:   *)
(* generator, features, heuristic reranker and metrics composed.           *)
(*                                                                         *)
(* The numbers that splitmix64 yields are choices.  Texts are sequences of *)
(* tokens, retrieval scores are in units of 1/Unit.                        *)
(***************************************************************************)
EXTENDS Features, Evaluation

CONSTANTS
  Topics,      \* TOPICS, a sequence of texts
  Filler,      \* FILLER, a set of tokens
  Retrievals,  \* the retrieval scores, below Unit
  Grades,      \* the grades of relevant documents
  Shapes       \* the arguments <<queries, pool, relevant>> of generate

ASSUME ScenarioAssumption ==
  /\ Topics \in Seq(Seq(STRING)) /\ Topics # <<>>
  /\ \A t \in DOMAIN Topics : Topics[t] # <<>> /\ Len(Topics[t]) + 2 <= Len(LogTf)
  /\ Filler \subseteq STRING
  /\ Retrievals \subseteq 0 .. Unit - 1
  /\ Grades \subseteq Nat \ {0}
  /\ Shapes \subseteq Nat \X Nat \X Nat

VARIABLES
  shape,       \* the arguments of this scenario
  candidates,  \* the candidates of each query, by slot
  qrels,       \* the judgments of each query
  docCounter   \* the next document id

vars == <<shape, candidates, qrels, docCounter>>

Queries == shape[1]
Pool == shape[2]
Relevant == Lesser(shape[3], Pool)

\* Queries are numbered from 1 here, topics go round.
Topic(q) == Topics[((q - 1) % Len(Topics)) + 1]

Current == Len(candidates)
Slot == Len(candidates[Current])

Complete == Current = Queries /\ (Queries > 0 => Slot = Pool)

Init ==
  /\ shape \in Shapes
  /\ candidates = <<>>
  /\ qrels = <<>>
  /\ docCounter = 0

NextQuery ==
  /\ Current < Queries
  /\ Current > 0 => Slot = Pool
  /\ candidates' = Append(candidates, <<>>)
  /\ qrels' = Append(qrels, NoQrels)
  /\ UNCHANGED <<shape, docCounter>>

Put(text, retrieval) ==
  /\ candidates' = [candidates EXCEPT ![Current] =
       Append(@, [id |-> docCounter, text |-> text, retrieval |-> retrieval])]
  /\ docCounter' = docCounter + 1
  /\ UNCHANGED shape

\* Broken variant: the document is judged by its slot, not by its id.
PutRelevantBySlot(f1, f2, retrieval, grade) ==
  /\ Current > 0 /\ Slot < Relevant
  /\ Put(Topic(Current) \o <<f1, f2>>, retrieval)
  /\ qrels' = [qrels EXCEPT ![Current] = Insert(@, Slot, grade)]

\* The first slots hold the query's own terms, and are judged.
PutRelevant(f1, f2, retrieval, grade) ==
  /\ Current > 0 /\ Slot < Relevant
  /\ Put(Topic(Current) \o <<f1, f2>>, retrieval)
  /\ qrels' = [qrels EXCEPT ![Current] = Insert(@, docCounter, grade)]

\* The others hold a topic that is drawn from all of them.
PutIrrelevant(topic, f, retrieval) ==
  /\ Current > 0 /\ Relevant <= Slot /\ Slot < Pool
  /\ Put(Topics[topic] \o <<f>>, retrieval)
  /\ UNCHANGED qrels

Next ==
  \/ NextQuery
  \/ \E f1, f2 \in Filler, r \in Retrievals, g \in Grades : PutRelevant(f1, f2, r, g)
  \/ \E t \in DOMAIN Topics, f \in Filler, r \in Retrievals : PutIrrelevant(t, f, r)

Spec == Init /\ [][Next]_vars

-----------------------------------------------------------------------------
(* run_demo                                                                *)

DocIds(list) == [i \in DOMAIN list |-> list[i].id]

\* baseline_ranking: by the retrieval score alone.
BaselineRanking(list) ==
  FromScored([i \in DOMAIN list |-> [id |-> list[i].id, score |-> list[i].retrieval,
                                     retrieval |-> list[i].retrieval]])

Baseline(q) == BaselineRanking(candidates[q])
Reranked(q) == Rerank(Topic(q), candidates[q])

\* The mean metrics of one ranking per query; a refused cutoff ends it.
Report(rankings, k) ==
  IF Queries > 0 /\ k = 0 THEN ZeroCutoff
  ELSE Mean([q \in 1 .. Queries |->
               EvaluateQuery(DocIds(rankings[q]), qrels[q], k)])

-----------------------------------------------------------------------------
OnTopic(q, c) == ToSet(Topic(q)) \subseteq ToSet(c.text)

OffTopic(q, c) == ToSet(c.text) \intersect ToSet(Topic(q)) = {}

Judged(q, c) == c.id \in DOMAIN qrels[q]

(***************************************************************************)
(* The comment of generate: a document that is not judged holds            *)
(* "irrelevant filler from a different topic", so none of the query's      *)
(* terms, for no two topics share a word.  But PutIrrelevant may draw the  *)
(* topic of the query itself.                                              *)
(***************************************************************************)
IrrelevantIsOffTopic ==
  \A q \in 1 .. Current : \A i \in DOMAIN candidates[q] :
    Judged(q, candidates[q][i]) \/ OffTopic(q, candidates[q][i])

(***************************************************************************)
(* A scenario holds together: no two candidates share an id, also across   *)
(* queries; of each pool exactly the documents in the first                *)
(* min(relevant, pool) slots are judged, and they hold all terms of their  *)
(* query.  (So may others: see IrrelevantIsOffTopic.)  Each judgment of a  *)
(* full pool counts as relevant.                                           *)
(***************************************************************************)
JudgmentsMatchPools ==
  \A q \in 1 .. Current :
    /\ Cardinality(Ids(candidates[q])) = Len(candidates[q])
    /\ \A p \in 1 .. q - 1 : Ids(candidates[p]) \intersect Ids(candidates[q]) = {}
    /\ DOMAIN qrels[q] \subseteq Ids(candidates[q])
    /\ \A i \in DOMAIN candidates[q] :
         /\ Judged(q, candidates[q][i]) <=> i <= Relevant
         /\ i <= Relevant => OnTopic(q, candidates[q][i])
    /\ Len(candidates[q]) = Pool => RelevantCount(qrels[q]) = Relevant

(***************************************************************************)
(* In every scenario, filler of the query's own topic included, and        *)
(* whatever the retrieval scores, the heuristic ranks each document that   *)
(* holds all terms of the query, and so each judged one, before each       *)
(* document that holds none.                                               *)
(***************************************************************************)
OnTopicFirst ==
  \A q \in 1 .. Current :
    LET best == DocIds(Reranked(q))
    IN  \A i, j \in DOMAIN candidates[q] :
          OnTopic(q, candidates[q][i]) /\ OffTopic(q, candidates[q][j]) =>
            \E p, r \in DOMAIN best :
              /\ best[p] = candidates[q][i].id
              /\ best[r] = candidates[q][j].id
              /\ p < r

(***************************************************************************)
(* The demo's claim: over every complete scenario whose irrelevant texts   *)
(* share no term with their query, and for every cutoff, reranking finds   *)
(* no less than the first stage, and finds a relevant document first.      *)
(* NDCG is not claimed: the heuristic does not see the grades.             *)
(***************************************************************************)
RerankFindsNoLess ==
  Complete /\ IrrelevantIsOffTopic =>
    \A k \in 1 .. Pool + 1 :
      LET base == Report([q \in 1 .. Queries |-> Baseline(q)], k)
          reranked == Report([q \in 1 .. Queries |-> Reranked(q)], k)
      IN  /\ \A m \in {"mrr", "recall", "precision", "average_precision"} :
               AtMost(base[m], reranked[m])
          /\ Queries > 0 /\ Relevant > 0 =>
               SameValue(reranked.mrr, Over(1, 1))
=============================================================================
