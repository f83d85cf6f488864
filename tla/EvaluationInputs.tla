--------------------------- MODULE EvaluationInputs ---------------------------
(***************************************************************************)
(* Every small set of judgments with every small ranking and cutoff: an    *)
(* exhaustive test of module Evaluation, one input per state.              *)
(***************************************************************************)
EXTENDS Evaluation

CONSTANTS
  Docs,            \* the documents that may be judged and ranked
  MaxGrade,        \* bound: the highest relevance grade
  MaxRanked,       \* bound: the longest ranking
  MaxCutoff,       \* bound: the highest cutoff
  MayRepeat        \* whether a ranking may name a document twice, as that of
                   \* a model reply may (see Ranking!Kept)

\* The table of weights reaches as far as a ranking can.
ASSUME TrialAssumption ==
  /\ IsFiniteSet(Docs) /\ Cardinality(Docs) <= Len(Discount)
  /\ {MaxGrade, MaxRanked, MaxCutoff} \subseteq Nat /\ MaxRanked <= Len(Discount)

VARIABLES judgments, ranking, k

trial == <<judgments, ranking, k>>

EvaluationInit ==
  /\ judgments = NoQrels
  /\ ranking = <<>>
  /\ k \in 0 .. MaxCutoff

\* A judgment is loaded, or corrected.
Judge(doc, grade) ==
  /\ ranking = <<>>
  /\ judgments' = Insert(judgments, doc, grade)
  /\ UNCHANGED <<ranking, k>>

\* The ranking grows by one document.
Place(doc) ==
  /\ Len(ranking) < MaxRanked
  /\ MayRepeat \/ ~Contains(ranking, doc)
  /\ ranking' = Append(ranking, doc)
  /\ UNCHANGED <<judgments, k>>

EvaluationNext ==
  \/ \E doc \in Docs, grade \in 0 .. MaxGrade : Judge(doc, grade)
  \/ \E doc \in Docs : Place(doc)

EvaluationSpec == EvaluationInit /\ [][EvaluationNext]_trial

-----------------------------------------------------------------------------
One == Over(1, 1)
Metrics == EvaluateQuery(ranking, judgments, k)

(***************************************************************************)
(* Every metric of a ranking that repeats no document lies between 0 and   *)
(* 1, wherever the cutoff cuts: the ideal ranking that NDCG divides by and *)
(* the min(R, k) that AP divides by are really the most there is to get.   *)
(***************************************************************************)
MetricsInRange ==
  k > 0 => \A m \in MetricNames : AtMost(Zero, Metrics[m]) /\ AtMost(Metrics[m], One)

Swapped(list, i) ==
  [list EXCEPT ![i] = list[i + 1], ![i + 1] = list[i]]

(***************************************************************************)
(* Moving a document up past a less relevant one never lowers a metric,    *)
(* and raises NDCG when both are in the cutoff.                            *)
(***************************************************************************)
PromotionPays ==
  k > 0 =>
    \A i \in 1 .. Len(ranking) - 1 :
      Relevance(judgments, ranking[i]) < Relevance(judgments, ranking[i + 1]) =>
        LET better == EvaluateQuery(Swapped(ranking, i), judgments, k)
        IN  /\ \A m \in MetricNames : AtMost(Metrics[m], better[m])
            /\ i < k => ~AtMost(better.ndcg, Metrics.ndcg)

(***************************************************************************)
(* A ranking that holds every relevant document, the more relevant ones    *)
(* first, scores 1 on NDCG and MRR wherever the cutoff cuts, and on AP and *)
(* recall when the cutoff has room for all of them.  (With a smaller       *)
(* cutoff evaluate_query divides AP by k, the README's formula by R: the   *)
(* two disagree there, and nothing is asked.)                              *)
(***************************************************************************)
IdealScoresOne ==
  LET perfect == /\ RelevantDocs(judgments) # {}
                 /\ RelevantDocs(judgments) \subseteq ToSet(ranking)
                 /\ \A i, j \in DOMAIN ranking :
                      i < j => Relevance(judgments, ranking[i]) >= Relevance(judgments, ranking[j])
  IN  k > 0 /\ perfect =>
        /\ \A m \in {"ndcg", "mrr"} : SameValue(Metrics[m], One)
        /\ k >= RelevantCount(judgments) =>
             \A m \in {"average_precision", "recall"} : SameValue(Metrics[m], One)

(***************************************************************************)
(* A larger cutoff finds no less: recall and the reciprocal rank never     *)
(* fall, and precision times k, the documents found, never falls.          *)
(***************************************************************************)
LargerCutoffFindsMore ==
  k > 0 =>
    LET more == EvaluateQuery(ranking, judgments, k + 1)
    IN  /\ AtMost(Metrics.recall, more.recall)
        /\ AtMost(Metrics.mrr, more.mrr)
        /\ Metrics.precision.num <= more.precision.num
=============================================================================
