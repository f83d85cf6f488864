# RerankLab in TLA+

TLA+ models of RerankLab, a second-stage reranking service with an offline
relevance evaluator (seven Rust crates under `crates/`). Each module is
translated from the Rust source; the lines a definition stands for are listed
under `map` in `PROJECT.json`. TLC checks the models on small instances, and
TLAPS proves, for every value of the constants, each of the invariants that the
passing runs check, and their action properties and refinements.

## 1. The system

    HTTP server (seeded, then served, then shut down)    crates/reranklab-node
      |                                       |
    GraphQL resolvers                         |          crates/reranklab-api
      |  \-- evaluate --> CandidateStore, JudgmentStore (infra)
      | rerank, evaluate                      | subscription rerank_events
      v                                       v
    RerankService  -- publish -->  BroadcastEventSink (tokio broadcast)
      |  \-- try_acquire_n --> RateLimiter -- now --> Clock
      | rerank (port Reranker)
      v
    HeuristicReranker   or   AiReranker -- complete --> ChatModel (HTTP)
                               | retry_if, with_timeout, backoff
                               \-- on any failure --> HeuristicReranker

    evaluate_query / evaluate over Qrels, EvalMetrics, MetricsAccumulator
    ScenarioGenerator --> seeds the stores of `serve`, feeds `demo`

The server (`startup.rs`) wires the heuristic reranker; the AI reranker is
offered to deployments, and nothing calls the circuit breaker yet
(EVALUATION.md offers it "for the model boundary"). Both are library code with
public entry points, and are modelled as such.

### Inventory

| component | state | operations | hard parts | what makes it correct |
|---|---|---|---|---|
| Rate limiter (`resilience/rate_limit.rs`, `clock.rs`) | tokens, last refill, behind one mutex | `try_acquire_n` | lazy refill: time credited twice, lost, or beyond the capacity | no window grants more than bucket plus refill; equals a bucket that refills continuously |
| Circuit breaker (`resilience/breaker.rs`) | state, consecutive failures, opening time, behind one mutex | `state`, `allow`, `on_success`, `on_failure` | outcomes of concurrent calls in any order, late, or never; a read that changes the state | count, state and timestamp agree; probes only after a quiet cooldown |
| Retry, timeout (`resilience/retry.rs`, `timeout.rs`) | attempt count, sleep | `retry_if`, `backoff`, `with_timeout` | timeout against late answer, last attempt, cap and jitter | bounded attempts and time; growing sleeps |
| AI reranker (`ai/reranker.rs`) | metrics counters | `rerank` | any reply, any error, silence, cancellation | always one well-formed ranking, never an error; counters exact |
| Chat client (`ai/client.rs`, `error.rs`) | none | `complete` | failures before the head, in the status, in the body; which of them are retried | the reranker's promises hold for every exchange |
| Ranked lists (`types/candidate.rs`) | none | `cmp_desc`, `from_scored`, `doc_ids` | NaN, ties, repeated ids | total preorder, stable sort, best first |
| Heuristic reranker (`core/rerank.rs`, `features.rs`) | weights | `rerank`, features | ties, NaN retrieval scores, how the features outweigh the retrieval score | a permutation of its input; finds no less than the first stage |
| Rerank service (`core/service.rs`, `event.rs`) | counters | `rerank` | concurrent requests, cancellation at an await, failures after counting | tokens, counters, events and outcomes agree |
| Event bus (`infra/bus.rs`) | ring of slots, cursors | `publish`, `subscribe`, streams | slow and absent subscribers, silent lag | order, no loss but by overrun, publisher never waits |
| Evaluation (`core/eval.rs`, `types/qrel.rs`, `metrics.rs`) | judgments, sums | `insert`, `evaluate_query`, `evaluate`, `mean` | cutoffs, empty sets, repeats | range, monotonicity, ideal ranking scores 1 |
| Stores (`infra/store.rs`) | locked maps | insert, read | filled one insertion at a time, read one after the other | no answer from half a scenario |
| GraphQL API (`api/`) | shared handles | `evaluate`, `rerank`, `rerank_events` | three awaits in a row, late validation of `k`, clients that leave | an answer tells truly what was charged and announced |
| Generator (`infra/generator.rs`) | PRNG state | `generate` | boundary shapes; the "different topic" of irrelevant text may be the same | unique ids, exactly the relevant documents judged |
| Server (`node/startup.rs`, `main.rs`) | stores, listener, signals, connections | `serve` (seed, bind, shut down), `demo` | signals at any moment, handlers between two reads during a shutdown, subscriptions that never end | received requests are answered; the shutdown ends |
| Config, telemetry, ids, queries | none | parsing | none | parameters of the models |

The hazards these parts are exposed to, each at its line and with the
properties that cover it, are the `hazards` of `PROJECT.json`.

## 2. Modules

| module | models | remark |
|---|---|---|
| `RateLimiter` | the bucket and its clock | `Grant` and `Throttle` are the two returns of `try_acquire_n`; the mutex covers the clock reading, so a call is one step |
| `TokenBucket` | abstract: a bucket that refills every tick | |
| `RateLimiterHistory` | the limiter with the last reply and one observed window of time | `OpenWindow` may start the window at any moment, so every window is observed |
| `RateLimiterProofs` | proofs | |
| `CircuitBreaker` | the breaker and its callers | `inFlight`, `probes`, `lastFailure` are the callers' side and history |
| `CircuitBreakerProofs` | proofs | |
| `Sorting` | what the sorts of the standard library do: `Arrangement`, a set in an order | shared by `Ranking` and `Evaluation` |
| `Ranking` | comparator, `from_scored`, reply parser, heuristic ranking, as operators | shared by the rerankers |
| `RankingInputs` | one candidate list (`offered`) and one `reply` per state | exhaustive test of `Ranking` |
| `RankingProofs` | proofs | |
| `ChatModel` | `HttpChatModel::complete` and `AiError`, as operators on an exchange | |
| `RerankerPort` | abstract: what a reranker promises its caller | |
| `AiReranker` | a request through `rerank`, `score_with_model`, `complete`, `retry_if`, `with_timeout`, `backoff` | `pc` is the await the future is suspended at |
| `AiRerankerProofs` | proofs | |
| `EventBus` | sender, ring, streams | the ring is the tail of the history `log` |
| `EventBusHistory` | the bus with a publisher and clients | |
| `EventBusProofs` | proofs | |
| `RerankService` | concurrent requests over `RateLimiter` and `EventBus` | one step between two accesses to shared state |
| `LabApi` | the resolvers over `RerankService` | its requests are the service's |
| `LabFacade` | abstract: what an answer tells a client | |
| `LabApiProofs` | proofs of service and API, the refinement included | |
| `Evaluation` | judgments, metrics, means, in exact fractions | |
| `EvaluationInputs` | one set of `judgments`, one `ranking`, one cutoff `k` per state | exhaustive test of `Evaluation` |
| `Features` | the text features and the weighted score, as operators over `Ranking` | |
| `Scenario` | `generate` document by document, and what `demo` reports | composes `Features`, `Ranking`, `Evaluation` |
| `OfflineProofs` | proofs of evaluation and scenario | |
| `Server` | `serve` from wiring to the end of the process, stores and connections | |
| `ServerProofs` | proofs | |
| `MC*` | the constants of the runs | |

Composition: `RerankService` extends `RateLimiter`, whose `Grant` and
`Throttle` are conjuncts of its `Admit` and `Refuse`, and instantiates
`EventBus`, whose `Publish` is a conjunct of `PublishEvent`. It uses the
reranker by its port: an answer that arrives some time after the call.
`AiReranker` extends `ChatModel`, implements the port (`ImplementsPort`) and
always answers (`EveryRequestEnds`), which is what the fairness of `LabApi`
assumes. `LabApi` extends `RerankService`: a resolver that waits for the service
takes the service's steps, and the theorem `ApiRunsService` says that nothing
else happens to the service. `Scenario` extends `Features`, which extends
`Ranking`, and `Evaluation`. `Server` takes from `LabApi` only that
a handler may end in an error.

Some modules hold, next to a definition, a "broken variant" of it: the form a
plausible mistake in that code would take. No specification uses these. Each
is there to show that a property notices the mistake when the variant takes
the definition's place; the pairs are the `mutants` of `PROJECT.json`.

### Correspondence

* **Rate limiter.** `tokens` and `lastRefill` are the fields of `Bucket`. Both
  outcomes store the refilled level and the time. Amounts are integers; f64
  rounding is not modelled, nor are negative or NaN amounts, which no caller
  passes.
* **Breaker.** `LogicalState` is the body of `state()`, which `allow` calls and
  which stores the state it computes. `PollState` is a call of `state()` for its
  own sake. `OnSuccess` and `OnFailure` look at nothing but the shared fields:
  an outcome carries no mark of its admission. `Abandon` is a cancelled caller.
* **AI reranker.** `started`, `calling`, `sleeping`, `answered` are where the
  future may be. `AttemptFails` is the error arm of `retry_if`: count, compare,
  give up or sleep. `FallBack` is the error arm of `rerank`. `ModelReplies` may
  still happen at the instant of the timeout, since tokio's `timeout` polls the
  inner future before the timer. A parse error is outside the retry loop and
  is not retried. `Drop` is a cancelled caller. Timers are exact: time does
  not pass beyond a deadline that is due. `ModelAnswers` is the outcome of one
  exchange: `ChatModel!Completes` when there is a text, else `ChatModel!Failure`
  with the error. The statuses lie on both sides of each comparison.
* **Service.** `pc` runs `new`, `ranking` (at the await), `ranked`, `counted`,
  `labelled`, `done`. Cancellation can strike only at the await of a
  reranker that suspends, as the AI one does: the heuristic one and publishing
  on the bus never wait. `RankFails` and
  `PublishFails` are errors the ports allow and today's adapters never report;
  they strike the requests in `Unlucky`.
* **API.** `place` runs `none`, `listing` (only `evaluate`), `calling` (the
  service works), `judging` (only `evaluate`), `over`. Of a call only what decides
  its course is kept: which texts are blank, and whether `k` is 0, which
  `evaluate_query` refuses after everything else has been done. `Vanish` is the
  client that leaves while the reranker is awaited; the awaits of the stores
  and the bus never suspend. `ListFails` and `JudgeFails` are errors that the
  store ports allow.
* **Facade.** `charged` are the requests that got a token, `announced` those
  whose event was sent. `May` says what each answer implies: `ok` and
  `zero_cutoff` were announced, `invalid` and `throttled` cost nothing, a client
  that left was charged but not announced.
* **Event bus.** tokio's channel is external and modelled from its use: a
  ring of `Slots` events, a cursor per receiver, a lagging receiver is moved
  to the oldest event kept. `Lag` is the `Err` that `filter_map(r.ok())` drops.
  Before the first subscriber, and after the last, `send` fails and `publish`
  ignores it.
* **Ranking.** A sort is not computed: `Arrangement` picks the sequence that the
  order admits, and `Precedes` decides what `cmp_desc` calls equal by the old
  place, so that there is exactly one. That there always is one is a theorem.
* **Evaluation.** Metrics are fractions with integer parts. `1/log2(rank+1)` is
  irrational; the weights are any strictly decreasing positive table.
* **Features and scenario.** A text is the sequence of its tokens. Scores are
  integers in units of `1/Unit`, a common multiple of the divisors that occur, so
  that fractions are exact; the logarithm is a growing table. The weights are
  those of `RerankConfig::default`, times 10; other weights must not be negative.
  Topics have a word at least, and the logarithm's table covers the longest text. The numbers of splitmix64 are
  choices. `PutRelevant` and `PutIrrelevant` are one turn of the inner loop of
  `generate`.
* **Server.** `phase` is where `main` is. Seeding is one step per insertion, the
  candidate lists first. `signals` is what `shutdown_signal()` is: until it is
  first polled a signal kills the process, a handler that cannot be installed
  ends it at once, and once it is over further signals do nothing. A
  connection carries one request at a time; `reading` and `judging` are the
  places before the two reads of the stores. From axum's graceful shutdown is
  taken: the listener goes, idle connections are closed, those with a request
  on them are waited for without a deadline, upgraded ones are not waited for.

## 3. Runs

| run | question | bounds | result |
|---|---|---|---|
| `rate_limiter` | is any window ever granted too much; does the lazy bucket answer like the ideal one | capacity 3, 2 tokens a tick, costs 0, 1, 3, 4, 4 ticks | holds |
| `circuit_breaker` | do state, count, timestamp agree; are probes rested | 3 callers (symmetric), threshold 2, cooldown 2, 6 ticks | holds |
| `circuit_breaker_trial` | is there one trial call at a time | the same | **violated** |
| `ranking` | comparator, stability, parsing, heuristic | up to 2 candidates of 2 ids, up to 3 items with NaN and an invented id | holds |
| `ai_reranker` | latency, counters, backoff, the port, termination | 4 attempts, timeout 2, base 4, cap 8, second 9, 2 requests; 6 statuses, 8 bodies | holds |
| `event_bus` | order, gaps, delivery | 2 subscribers, 2 slots, 5 events | holds |
| `lab_api` | budget, counters, events, answers; is every call answered | 2 requests of any field, one of which the ports may fail, either reranker, capacity 1, 2 ticks, 1 slot, 1 subscriber | holds |
| `rerank_service_used_ai` | does `used_ai` tell the truth | 2 requests, either reranker | **violated** |
| `evaluation` | range, order, ideal, cutoff | 3 documents, grades 0 to 2, rankings up to 3, cutoffs 0 to 4 | holds |
| `evaluation_repeats` | are metrics at most 1 | as `evaluation`, repeats allowed | **violated** |
| `server` | half scenarios, lost requests, shutdown | 2 clients, up to 2 queries of 2 judgments | holds |
| `scenario` | do scenarios hold together; do texts on the topic come first; does reranking pay | 7 shapes of up to 3 queries and pools up to 3, 2 topics, 2 fillers, 2 retrieval scores, 2 grades | holds |

Why the bounds are enough:

* Rate limiter: costs below, at and above the capacity, and a rate that does
  not divide it, so that the clamp cuts part of a tick's refill. Proved for
  all values besides.
* Breaker: the third caller lets a straggler fail, and another succeed, while a
  probe runs; 6 ticks hold a trip, a cooldown, a reopening and a second one.
* AI reranker: the cap is reached on the second sleep, so both the growing and
  the capped part of `backoff` occur; four attempts show three sleeps; the
  second request starts on what the first left behind. `Second` is larger than
  any jitter, as the sub-second clock reading is for sleeps under two seconds;
  a smaller value only narrows the jitter.
* Event bus: five events over two slots overrun a stream twice, also one that
  joined in the middle.
* API: two requests over a bucket of one token: the second is refused, or waits
  for the refill; the single slot makes the second event overrun a stream that
  has not read the first. Every property but termination is proved for any
  number of requests.
* Server: one client can hold a subscription or a request while the other comes
  and goes; two queries of two judgments let both loops of the seeding be
  interrupted. Its safety is proved for all sizes.
* Scenario: more relevant documents than the pool holds, empty pools, no
  queries, and more queries than topics, with the lowest and the highest
  retrieval score.
* Evaluation and ranking are exhaustive to the given sizes; cutoffs lie below,
  at and above the ranking's length and the number of relevant documents.

Deadlock is checked in `rate_limiter`, `circuit_breaker` and `event_bus`, whose
callers always may call again. The others are bounded in the number of requests
or inputs and really stop: `CHECK_DEADLOCK FALSE`.

### What disagrees with the documentation

The violated runs are the `findings` of `PROJECT.json`, with the lines that
disagree:

1. `HalfOpen` is documented as "a single trial call"; `allow` admits every
   caller while the state lasts.
2. `used_ai` is documented to be false for the heuristic fallback;
   `AiReranker` keeps its name when it falls back.
3. NDCG is documented to lie in `0.0..=1.0`; with repeated documents, which a
   model's reply may bring about, it exceeds 1.

Others were met and are in the models, without a run of their own:

* AP is documented as `1/R` times the sum (src/README.md:174); the code divides
  by `min(R, k)` (eval.rs:81). Where the cutoff has room for all relevant
  documents the two agree, and only there `IdealScoresOne` asks for 1. With three
  relevant documents and a cutoff of 1, a perfect ranking has AP 1 by the code and
  1/3 by the formula.
* A reranker is documented to rerank its candidates, returning them
  (ports.rs:19); `parse_scores` leaves out what the model left out
  (reranker.rs:99), as one of its tests expects. `WellFormed`, which
  `RerankerPort` asks for, therefore allows a shorter ranking, and no property
  says that a ranking made from a reply is complete.
* "Irrelevant filler from a different topic" (generator.rs:102) is drawn from
  all topics, the query's own included (`PutIrrelevant`). `OnTopicFirst` says what
  holds nevertheless. `RerankFindsNoLess` is stated for the scenarios in which the
  comment is true (`IrrelevantIsOffTopic`); in the others an unjudged document
  may come first. At the sizes `demo` defaults to, 42 unjudged texts for each of
  200 queries, it is practically never true: the property is about small
  scenarios, and about how the parts fit.
* A timeout while the body is read is reported as `Parse` and not retried
  (client.rs:128-131, `Failure`), although the error is documented as "the
  response could not be parsed" and timeouts as retryable.
* `retry_if` is documented to run `op` up to `max_attempts` times (retry.rs:48)
  and with 0 runs it once (`AttemptFails` compares after counting).
* `k = 0` is documented as a hard error (EVALUATION.md:57) but `evaluate` accepts
  it for an empty set of rankings (`Evaluate`).

## 4. Fairness

* `AiReranker`: weak fairness of what the runtime does for a future that can go
  on: the first poll, a due timeout, a due wake-up, the passing of time. None
  for the chat model, which may stay silent, nor for callers.
* `EventBusHistory`: weak fairness of a stream that has something to yield; its
  task is woken by the channel. None for publishers and clients.
* `LabApi`: weak fairness of each resolver that can go on, the service's steps
  for it included. That the reranker answers is `EveryRequestEnds` of
  `AiReranker`; the heuristic one does not wait for anything. None for the
  clients of the bus, for new calls, for clients that leave and for the clock.
* `Server`: weak fairness of `main` and of the handlers, which the runtime polls.
  A client that has begun to send a request finishes it or leaves; the code has
  no deadline for it, so `ShutdownEnds` fails without this assumption. Nobody has
  to connect, unsubscribe or send a signal.

## 5. Proofs

`CONSTANTS` range over all values their assumptions admit: natural numbers for
amounts, times and thresholds, any sets for callers, candidates and replies.

* **`RateLimiterProofs`.** `TypeCorrect`: the level stays in the bucket.
  `GrantsAreBounded`: `WindowBound` alone is not inductive, because the stored
  level says nothing of the time since `lastRefill`. The strengthening `WindowInv`
  adds the tokens left and counts refill up to `lastRefill` only, or up to the
  start of the window if that is later; it is checked by TLC and implies
  the bound. `ImplementsIdealBucket`: under `level <- Refilled` the initial
  state and every step of the lazy bucket maps to the ideal bucket's; the tick
  is where the clamp of the whole interval must equal the clamp tick by tick.
* **`CircuitBreakerProofs`.** `BreakerInvariant` proves the conjunction of type
  correctness, `CountMatchesState`, `StampIsLastFailure` and `HalfOpenIsRested`
  inductive. `CountAgrees` and `StampAgrees` are its parts; `AdmitsAfterQuiet` proves
  the action property `QuietBeforeProbe`: an admission through a tripped breaker
  finds either `HalfOpenIsRested` or the cooldown test of `LogicalState` true, and
  the timestamp is that of the last failure.
* **`RankingProofs`.** `ComparatorIsSound`: `cmp_desc` is a total preorder on
  the integers and NaN, so `sort_by` never sees an inconsistent order, however
  long the list. `ArrangementExists`: a finite set that an order relates in full
  can be put in that order, each element at the place which the number of those
  before it gives; without it the `CHOOSE` of `Arrangement` would promise nothing.
  From it `FromScoredReorders`: `from_scored` permutes its input, best first, and
  leaves ties where they were, which is `SortIsStableAlways`. What the parser keeps
  of a reply are offered documents (`KeptIsOffered`), hence `ReplyIsSanitisedAlways`;
  a permutation changes no count (`FromScoredCounts`), hence
  `HeuristicIsPermutationAlways`.
* **`AiRerankerProofs`.** `LatencyBound` does not tell where a request is. The
  strengthening `PhaseBound` bounds the time by the attempts and sleeps behind
  it, for each place (it is proved only; the run checks what follows from it);
  `BudgetInvariant` proves it inductive with `TypeOK`, from
  lemmas about the backoff's cap and jitter. `CountersAreExact` proves the counters.
  `BackoffGrows` proves the action property `SleepsGrow`: the delay in hand is one
  that `backoff` may have given for the attempt before (`DelayIsLastBackoff`), it
  is at most that attempt's cap (`JitterWithinHalf`), and half of the next one's cap,
  which is twice as high (`CapDoubles`), is the least the next sleep can be.
  `PortIsImplemented`: each step is one of `RerankerPort` or a stutter. The answering
  steps rest on `RankingProofs`, whichever of model and heuristic ranked, and
  `NoStaleAnswer` shows that the port has not answered before.
* **`EventBusProofs`.** `StreamInvariant` relates a stream's cursor, what it has
  yielded and where it joined; `StreamsAreInOrder` and `GapsAreOverwritten` follow.
* **`LabApiProofs`**, the service. `CountersLeadEvents` is not inductive: it does
  not tell how many requests are where. `Tally` counts the requests in each phase
  against the counters; every step moves one request and changes at most one
  counter, and `MoveTallies` says what a move does to the counts, from the
  cardinalities of finite sets (`MoveCounts`). `AdmissionBudget` is inductive with the
  types and `RefillIsBounded`. `SentIsDone`: the requests that are done are those
  whose event was sent. `ApiRunsService`: every step of the API is one of the service
  or leaves it alone, so these theorems hold behind the API.
* **`LabApiProofs`**, the API. `ApiInStep` proves `InStep`. `ApiImplementsFacade`:
  under `charged` and `announced` as functions of `pc` and `published`, each
  resolver step is a `Charge`, an `Announce`, a `Reply` or a stutter; the cases need
  `InStep`, for nothing may happen to a request that has been answered, and
  `SentIsDone`.
* **`ServerProofs`.** `StoresInvariant`: no connection exists before everything is
  seeded, nothing is stored after, and so what a handler found at its first read
  agrees with what it will find at the second; `AnswersAreWhole` and
  `ReceivedAreAnswered` follow.
* **`OfflineProofs`**, evaluation. Sums are recursive functions. That such a function
  exists and takes its defined values is `ScanExists`, and statements about it go by
  `Induction` over a set of numbers, which needs no operator parameter.
  `MetricsAlwaysInRange`: for NDCG, `Rearrangement`: no choice of different documents
  is worth more than the best ones in order, for one that is no better than the
  last of the best can be taken out and the gap closed without a loss
  (`RearrangementStep`). The others are counts. Its hypothesis `~MayRepeat` is
  needed: with repeats run `evaluation_repeats` shows the contrary.
  `LargerCutoffAlwaysFindsMore`: a longer prefix has no fewer hits.
  `PromotionAlwaysPays`: exchanging two neighbours, the more relevant one forward,
  raises the discounted sum by the product of the two differences
  (`PromotionRaisesDcg`), and each precision term is no less than it was.
  `IdealAlwaysScoresOne`: the first places of a ranking that is perfect hold the
  ideal gains, so both sums are equal, again without repeats.
* **`OfflineProofs`**, scenario. `ScenarioInv` types the generator's state, ties
  `docCounter` to the ids given out and the judged documents to the first slots of
  their pool; `JudgmentsAlwaysMatch` follows: judged are exactly those slots.
  `OnTopicAlwaysFirst`: a document with all terms of the query outscores one with
  none (`OnTopicWins`), for its coverage alone is worth `WCoverage`, and the other
  has its retrieval score only, which is below 1; so it comes first
  (`RankingsOfPool`). `RerankAlwaysFindsNoLess`: where irrelevant texts are off the
  topic, the judged documents come first (`JudgedComeFirst`); such a ranking loses
  nothing against any other of the same pool (`RelevantFirstWins`), for the pools
  that are reported are full (`PoolsAreFull`); and the mean of better fractions is
  better (`MeanCompares`). The hypotheses of both, `0 < WCoverage` and
  `WRetrieval <= WCoverage`, hold for `RerankConfig::default` (0.5 and 0.1). They are
  weights a configuration may change: a high enough `WRetrieval` puts an
  off-topic document first.

Assumptions: those named in the modules. Amounts, times, thresholds and weights
are natural numbers, requests are finite in number, markers for "no reply" and
NaN are none of the values they stand beside (`ScoreAssumption`, `InputsAssumption`,
`ServerAssumption`). Candidates and replies have numbers for ids and scores
(`InputAssumption`). Discounts are positive and strictly decreasing, as
`1/log2(rank+1)` is, and there are enough of them (`DiscountAssumption`,
`TrialAssumption`). The logarithm's table grows and covers the texts, topics are
not empty, retrieval scores lie below 1 (`FeaturesAssumption`,
`ScenarioAssumption`), as they do in `generator.rs`. TLC evaluates each of them on
the instances of the runs.

Only model-checked: liveness (`EveryRequestEnds`, `EventsReachSubscribers`,
`CallsAreAnswered`, `ShutdownEnds`), which the prover does not cover, and what the
violated runs show.

## 6. Not modelled

* Command line parsing, logging, the metrics exporter and its scrape, the
  playground page, container and CI files: I/O without state of the program's
  own. `bench` measures time only.
* GraphQL documents with several fields, which the library resolves together:
  each field is a request of `LabApi` of its own. Depth and complexity limits
  belong to the library. The output objects copy fields.
* How `tokenize` cuts a string, and how JSON is parsed: a text is its tokens, a
  body is the texts of its choices or none.
* The histogram of candidates per query, error codes and display texts.
* f64 and f32 rounding; counters that wrap after 2^32 failures; delays beyond
  2^64 nanoseconds or the saturation of 2^attempt at `u32::MAX`.
* Restarts: nothing is persisted, a restarted process begins at `Server!Init`.

## 7. Plan

Done, in this order: rate limiter, breaker, ranking, AI reranker, bus, service,
evaluation; then the API and its facade, the server, features, generator and
demo, the chat client, and the proofs of bus, service, API and server; then
those of ranking, the reranker port, evaluation and scenario.

Next:

1. `Backoff`: saturation, cap and jitter at the edges of their widths.
2. That the means which `evaluate` reports lie between 0 and 1, as a theorem.
3. A breaker around the model boundary, as soon as the code wires one.
