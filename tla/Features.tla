------------------------------- MODULE Features -------------------------------
(***************************************************************************)
(* The lexical features of crates/reranklab-core/src/features.rs and the   *)
(* score that rerank.rs blends from them.  A text is the sequence of its   *)
(* tokens.                                                                 *)
(*                                                                         *)
(* Scores are integers, in units of 1/Unit: Unit is a common multiple of   *)
(* the divisors that occur, so that the fractions are exact, and the       *)
(* logarithm is a table of weights that grow.                              *)
(***************************************************************************)
EXTENDS Ranking

CONSTANTS
  Unit,        \* what a fraction of 1 is counted in
  LogTf,       \* LogTf[n]: Unit * ln(1 + n), rounded, for n > 0
  WCoverage, WJaccard, WTermFreq, WRetrieval   \* RerankConfig

ASSUME FeaturesAssumption ==
  /\ Unit \in Nat \ {0}
  /\ LogTf \in Seq(Nat \ {0})
  /\ \A n \in DOMAIN LogTf : n > 1 => LogTf[n] > LogTf[n - 1]
  /\ {WCoverage, WJaccard, WTermFreq, WRetrieval} \subseteq Nat

Ratio(n, d) == IF d = 0 THEN 0 ELSE (n * Unit) \div d

\* jaccard_overlap
JaccardOverlap(query, doc) ==
  Ratio(Cardinality(ToSet(query) \intersect ToSet(doc)),
        Cardinality(ToSet(query) \union ToSet(doc)))

\* The distinct query terms that occur in the document.
Covered(query, doc) == Cardinality(ToSet(query) \intersect ToSet(doc))

QueryCoverage(query, doc) == Ratio(Covered(query, doc), Cardinality(ToSet(query)))

\* The tokens of the document that are query terms.
TermFrequency(query, doc) == Cardinality({i \in DOMAIN doc : doc[i] \in ToSet(query)})

LnOnePlus(n) == IF n = 0 THEN 0 ELSE LogTf[n]

\* HeuristicReranker::score without the retrieval score.
Lexical(query, doc) ==
  WCoverage * QueryCoverage(query, doc)
    + WJaccard * JaccardOverlap(query, doc)
    + WTermFreq * LnOnePlus(TermFrequency(query, doc))

\* Broken variant: the retrieval score is added at full weight.
WeighedFully(query, c) ==
  [id |-> c.id, lexical |-> Lexical(query, c.text), retrieval |-> 10 * c.retrieval]

\* A candidate as module Ranking scores it, with its weights folded in.
Weighed(query, c) ==
  [id |-> c.id, lexical |-> Lexical(query, c.text), retrieval |-> WRetrieval * c.retrieval]

\* HeuristicReranker::rerank
Rerank(query, candidates) ==
  HeuristicRanking([i \in DOMAIN candidates |-> Weighed(query, candidates[i])])
=============================================================================
