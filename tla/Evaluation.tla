------------------------------ MODULE Evaluation ------------------------------
(***************************************************************************)
(* The offline metrics of crates/reranklab-core/src/eval.rs over the       *)
(* judgments of crates/reranklab-types/src/qrel.rs, for one query, and     *)
(* their mean over queries (metrics.rs).                                   *)
(*                                                                         *)
(* Metrics are exact fractions [num, den].  The discount 1/log2(rank+1) is *)
(* irrational: Discount is any strictly decreasing table of weights, which *)
(* is all that the properties of NDCG rest on.                             *)
(***************************************************************************)
EXTENDS Sorting

CONSTANT Discount   \* the weight of each rank, from 1 on

ASSUME DiscountAssumption ==
  /\ Discount \in Seq(Nat \ {0})
  /\ \A i, j \in DOMAIN Discount : i < j => Discount[i] > Discount[j]

Zero == [num |-> 0, den |-> 1]
Over(n, d) == [num |-> n, den |-> d]
AtMost(f, g) == f.num * g.den <= g.num * f.den
SameValue(f, g) == f.num * g.den = g.num * f.den
Plus(f, g) == Over(f.num * g.den + g.num * f.den, f.den * g.den)
Divided(f, n) == Over(f.num, f.den * n)

-----------------------------------------------------------------------------
(* Qrels of one query: a function from judged documents to grades.         *)

NoQrels == [d \in {} |-> 0]

\* Qrels::insert overwrites an earlier judgment.
Insert(qrels, doc, grade) ==
  [d \in DOMAIN qrels \union {doc} |-> IF d = doc THEN grade ELSE qrels[d]]

\* Qrels::relevance: 0 if unjudged.
Relevance(qrels, doc) == IF doc \in DOMAIN qrels THEN qrels[doc] ELSE 0

RelevantDocs(qrels) == {d \in DOMAIN qrels : qrels[d] > 0}

RelevantCount(qrels) == Cardinality(RelevantDocs(qrels))

\* Broken variant: the judgments in no particular order.
IdealGainsUnsorted(qrels) ==
  LET docs == SetToSeq(RelevantDocs(qrels)) IN [i \in DOMAIN docs |-> qrels[docs[i]]]

\* Qrels::ideal_gains: the positive grades, highest first.
IdealGains(qrels) ==
  LET relevant == RelevantDocs(qrels)
      docs == Arrangement(relevant,
                          {pair \in relevant \X relevant : qrels[pair[1]] >= qrels[pair[2]]})
  IN  [i \in DOMAIN docs |-> qrels[docs[i]]]

-----------------------------------------------------------------------------
(* evaluate_query                                                          *)

Lesser(a, b) == IF a <= b THEN a ELSE b

Take(list, k) == SubSeq(list, 1, Lesser(k, Len(list)))

Gains(ranking, qrels, k) ==
  LET top == Take(ranking, k) IN [i \in DOMAIN top |-> Relevance(qrels, top[i])]

Total(values) ==
  LET sum[n \in 0 .. Len(values)] == IF n = 0 THEN 0 ELSE sum[n - 1] + values[n]
  IN  sum[Len(values)]

\* Broken variant: the older formula, which discounts by the logarithm of the
\* rank itself, from the second rank on: the first two count alike.
DcgFromRankTwo(gains) ==
  Total([i \in DOMAIN gains |-> (2^gains[i] - 1) * Discount[IF i = 1 THEN 1 ELSE i - 1]])

\* dcg
Dcg(gains) == Total([i \in DOMAIN gains |-> (2^gains[i] - 1) * Discount[i]])

Ndcg(gains, qrels, k) ==
  LET ideal == Dcg(Take(IdealGains(qrels), k))
  IN  IF ideal > 0 THEN Over(Dcg(gains), ideal) ELSE Zero

Hits(gains, i) == Cardinality({j \in 1 .. i : gains[j] > 0})

Precision(gains, k) == Over(Hits(gains, Len(gains)), k)

\* Broken variant: relative to what the cutoff has room for.
RecallInReach(gains, qrels) ==
  IF RelevantCount(qrels) > 0
  THEN Over(Hits(gains, Len(gains)), Lesser(RelevantCount(qrels), Len(gains)))
  ELSE Zero

Recall(gains, qrels) ==
  IF RelevantCount(qrels) > 0
  THEN Over(Hits(gains, Len(gains)), RelevantCount(qrels))
  ELSE Zero

Mrr(gains) ==
  LET hits == {i \in DOMAIN gains : gains[i] > 0}
  IN  IF hits = {} THEN Zero ELSE Over(1, Min(hits))

\* The precisions at the relevant ranks, added up.
PrecisionSum(gains) ==
  LET sum[i \in 0 .. Len(gains)] ==
        IF i = 0 THEN Zero
        ELSE IF gains[i] > 0 THEN Plus(sum[i - 1], Over(Hits(gains, i), i))
        ELSE sum[i - 1]
  IN  sum[Len(gains)]

\* Broken variant: divided by the cutoff, however few documents are relevant.
AveragePrecisionOverCutoff(gains, qrels, k) ==
  IF RelevantCount(qrels) > 0 THEN Divided(PrecisionSum(gains), k) ELSE Zero

AveragePrecision(gains, qrels, k) ==
  IF RelevantCount(qrels) > 0
  THEN Divided(PrecisionSum(gains), Lesser(RelevantCount(qrels), k))
  ELSE Zero

\* RerankError::ZeroCutoff
ZeroCutoff == [error |-> "zero_cutoff"]

EvaluateQuery(ranking, qrels, k) ==
  IF k = 0 THEN ZeroCutoff ELSE
  LET gains == Gains(ranking, qrels, k)
  IN  [ndcg |-> Ndcg(gains, qrels, k),
       mrr |-> Mrr(gains),
       recall |-> Recall(gains, qrels),
       precision |-> Precision(gains, k),
       average_precision |-> AveragePrecision(gains, qrels, k)]

MetricNames == {"ndcg", "mrr", "recall", "precision", "average_precision"}

\* EvalMetrics::zeroed
Zeroed == [m \in MetricNames |-> Zero]

-----------------------------------------------------------------------------
(* MetricsAccumulator, and evaluate over the rankings of several queries.  *)

\* The sum of fractions.
SumOf(fractions) ==
  LET sum[n \in 0 .. Len(fractions)] == IF n = 0 THEN Zero ELSE Plus(sum[n - 1], fractions[n])
  IN  sum[Len(fractions)]

Mean(metrics) ==
  IF metrics = <<>> THEN Zeroed
  ELSE [m \in MetricNames |->
          Divided(SumOf([i \in DOMAIN metrics |-> metrics[i][m]]), Len(metrics))]

\* evaluate: the first error ends it.
Evaluate(rankings, qrels, k) ==
  IF rankings # <<>> /\ k = 0
  THEN ZeroCutoff
  ELSE Mean([i \in DOMAIN rankings |-> EvaluateQuery(rankings[i], qrels, k)])
=============================================================================
