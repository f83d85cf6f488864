----------------------------- MODULE AiReranker -----------------------------
(***************************************************************************)
(* The generative reranker of crates/reranklab-ai/src/reranker.rs with the *)
(* retry loop and the timeout of crates/reranklab-resilience: one request  *)
(* after another, each a chain of calls to the chat model that ends in the *)
(* model's ranking or in the heuristic one.                                *)
(*                                                                         *)
(* The reranker keeps no state between requests but its metrics counters.  *)
(* While a call runs the exchange with the chat model may take any course  *)
(* (module ChatModel), or the model stays silent.  Timers are exact: a     *)
(* timeout fires, and a sleep ends, before time passes beyond it.          *)
(***************************************************************************)
EXTENDS Ranking, ChatModel

CONSTANTS
  CandidateLists,  \* the lists of candidates requests come with
  MaxAttempts,     \* RetryPolicy.max_attempts
  Timeout,         \* AiReranker.timeout, in ticks
  BaseDelay,       \* RetryPolicy.base_delay
  MaxDelay,        \* RetryPolicy.max_delay
  Second,          \* the ticks of a second: jitter is a sub-second reading
  MaxRequests      \* bound of the model: the requests made

\* Document ids are u64; JSON has no NaN.
ASSUME InputAssumption ==
  /\ CandidateLists \subseteq Seq([id : Nat, lexical : Int, retrieval : Score])
  /\ Bodies \subseteq Seq(Seq([id : Nat, score : Int]) \union {Garbage})

ASSUME RetryAssumption ==
  /\ MaxAttempts \in Nat
  /\ Timeout \in Nat
  /\ BaseDelay \in Nat
  /\ MaxDelay \in Nat
  /\ Second \in Nat \ {0}
  /\ MaxRequests \in Nat

VARIABLES
  pc,          \* where the request is
  candidates,  \* its candidates
  attempt,     \* retry_if's count of failed attempts
  delay,       \* the sleep chosen after the last of them
  waited,      \* ticks since the current call or sleep began
  elapsed,     \* ticks since the request began
  ranked,      \* the answer
  requests,    \* history: requests made,
  unanswered,  \* history: those dropped or answered without asking the model
  success,     \* reranklab_ai_success_total
  fallback     \* reranklab_ai_fallback_total, by reason

counters == <<success, fallback>>
vars == <<pc, candidates, attempt, delay, waited, elapsed, ranked,
          requests, unanswered, counters>>

-----------------------------------------------------------------------------
(* RetryPolicy::backoff.  u32::MAX, at which the power of two saturates,   *)
(* and Duration::MAX are out of the model's range.                         *)

Lesser(a, b) == IF a <= b THEN a ELSE b
Greater(a, b) == IF a >= b THEN a ELSE b

\* Broken variant: the growth is not capped.
BackoffCapUncapped(n) == BaseDelay * 2^n

BackoffCap(n) == Lesser(BaseDelay * 2^n, MaxDelay)

\* Broken variant: full jitter, which may retry at once.
BackoffDelaysFullJitter(n) == 0 .. BackoffCap(n)

\* Half of the capped delay, plus a jitter below that half, taken from the
\* sub-second part of the wall clock.
BackoffDelays(n) ==
  LET half == BackoffCap(n) \div 2
  IN  {half + jitter : jitter \in 0 .. Lesser(Greater(half, 1), Second) - 1}

-----------------------------------------------------------------------------
Init ==
  /\ pc = "idle"
  /\ candidates = <<>>
  /\ attempt = 0 /\ delay = 0
  /\ waited = 0 /\ elapsed = 0
  /\ ranked = <<>>
  /\ requests = 0 /\ unanswered = 0
  /\ success = 0
  /\ fallback = [reason \in Reasons |-> 0]

\* rerank() is called.
Rerank(list) ==
  /\ pc = "idle"
  /\ requests < MaxRequests
  /\ pc' = "started"
  /\ candidates' = list
  /\ attempt' = 0 /\ delay' = 0 /\ waited' = 0 /\ elapsed' = 0
  /\ requests' = requests + 1
  /\ UNCHANGED <<ranked, unanswered, counters>>

\* No candidates: an empty list, without asking the model.
ShortCircuit ==
  /\ pc = "started"
  /\ candidates = <<>>
  /\ pc' = "answered"
  /\ unanswered' = unanswered + 1
  /\ UNCHANGED <<candidates, attempt, delay, waited, elapsed, ranked, requests, counters>>

\* The first call to the model.
FirstCall ==
  /\ pc = "started"
  /\ candidates # <<>>
  /\ pc' = "calling"
  /\ UNCHANGED <<candidates, attempt, delay, waited, elapsed, ranked, requests,
                 unanswered, counters>>

\* The error arm of rerank: count the reason, rank heuristically.
FallBack(e) ==
  /\ pc' = "answered"
  /\ ranked' = HeuristicRanking(candidates)
  /\ fallback' = [fallback EXCEPT ![e.code] = @ + 1]
  /\ UNCHANGED <<candidates, delay, waited, elapsed, requests, unanswered, success>>

\* Broken variant: the attempt is compared before it is counted.
AttemptFailsOneMore(e) ==
  /\ attempt' = attempt + 1
  /\ IF attempt >= MaxAttempts \/ ~IsRetryable(e)
     THEN FallBack(e)
     ELSE /\ pc' = "sleeping"
          /\ delay' \in BackoffDelays(attempt)
          /\ waited' = 0
          /\ UNCHANGED <<candidates, elapsed, ranked, requests, unanswered, counters>>

\* The error arm of retry_if: give up, or sleep and try again.
AttemptFails(e) ==
  /\ attempt' = attempt + 1
  /\ IF attempt' >= MaxAttempts \/ ~IsRetryable(e)
     THEN FallBack(e)
     ELSE /\ pc' = "sleeping"
          /\ delay' \in BackoffDelays(attempt)
          /\ waited' = 0
          /\ UNCHANGED <<candidates, elapsed, ranked, requests, unanswered, counters>>

\* complete() returns an error.
ModelFails(e) == pc = "calling" /\ AttemptFails(e)

\* Broken variant: only the first call runs under the timeout.
CallTimesOutOnce ==
  /\ pc = "calling"
  /\ waited = Timeout
  /\ attempt = 0
  /\ AttemptFails(TimeoutError)

\* with_timeout fires; the call is dropped and a late reply goes nowhere.
CallTimesOut ==
  /\ pc = "calling"
  /\ waited = Timeout
  /\ AttemptFails(TimeoutError)

\* Broken variant: the reply's order is taken for the ranking.
ModelRepliesUnsorted(text) ==
  /\ pc = "calling"
  /\ IF Parses(text, candidates)
     THEN /\ pc' = "answered"
          /\ ranked' = Kept(text, candidates)
          /\ success' = success + 1
          /\ UNCHANGED <<candidates, delay, waited, elapsed, requests, unanswered, fallback>>
     ELSE FallBack(ParseError)
  /\ UNCHANGED attempt

\* Broken variant: success is counted before the reply is parsed.
ModelRepliesCountsEarly(text) ==
  /\ pc = "calling"
  /\ pc' = "answered"
  /\ success' = success + 1
  /\ IF Parses(text, candidates)
     THEN ranked' = ModelRanking(text, candidates) /\ UNCHANGED fallback
     ELSE /\ ranked' = HeuristicRanking(candidates)
          /\ fallback' = [fallback EXCEPT !["parse"] = @ + 1]
  /\ UNCHANGED <<candidates, attempt, delay, waited, elapsed, requests, unanswered>>

\* complete() returns a text, up to the last instant of the timeout, which
\* polls the call before its own timer.  A text that does not parse is not
\* retried.
ModelReplies(text) ==
  /\ pc = "calling"
  /\ IF Parses(text, candidates)
     THEN /\ pc' = "answered"
          /\ ranked' = ModelRanking(text, candidates)
          /\ success' = success + 1
          /\ UNCHANGED <<candidates, delay, waited, elapsed, requests, unanswered, fallback>>
     ELSE FallBack(ParseError)
  /\ UNCHANGED attempt

\* complete() returns.
ModelAnswers(x) ==
  \/ Completes(x) /\ ModelReplies(Text(x))
  \/ ~Completes(x) /\ ModelFails(Failure(x))

\* The backoff is over: the next call.
Wake ==
  /\ pc = "sleeping"
  /\ waited = delay
  /\ pc' = "calling"
  /\ waited' = 0
  /\ UNCHANGED <<candidates, attempt, delay, elapsed, ranked, requests, unanswered, counters>>

\* Time passes for a request that waits.
Tick ==
  /\ \/ pc = "calling" /\ waited < Timeout
     \/ pc = "sleeping" /\ waited < delay
  /\ waited' = waited + 1
  /\ elapsed' = elapsed + 1
  /\ UNCHANGED <<pc, candidates, attempt, delay, ranked, requests, unanswered, counters>>

\* The caller drops the future at one of its await points.
Drop ==
  /\ pc \in {"calling", "sleeping"}
  /\ pc' = "idle"
  /\ candidates' = <<>> /\ ranked' = <<>>
  /\ unanswered' = unanswered + 1
  /\ UNCHANGED <<attempt, delay, waited, elapsed, requests, counters>>

\* The caller takes the answer.
Return ==
  /\ pc = "answered"
  /\ pc' = "idle"
  /\ candidates' = <<>> /\ ranked' = <<>>
  /\ UNCHANGED <<attempt, delay, waited, elapsed, requests, unanswered, counters>>

Next ==
  \/ \E list \in CandidateLists : Rerank(list)
  \/ ShortCircuit \/ FirstCall
  \/ \E x \in Exchanges : ModelAnswers(x)
  \/ CallTimesOut \/ Wake \/ Tick
  \/ Drop \/ Return

Spec == Init /\ [][Next]_vars

\* The runtime polls a task that can go on, and its timers fire.  Nothing is
\* asked of the chat model.
Fairness ==
  /\ WF_vars(ShortCircuit) /\ WF_vars(FirstCall)
  /\ WF_vars(CallTimesOut) /\ WF_vars(Wake) /\ WF_vars(Tick)

FairSpec == Spec /\ Fairness

-----------------------------------------------------------------------------
Busy == pc \in {"started", "calling", "sleeping"}

TypeOK ==
  /\ pc \in {"idle", "started", "calling", "sleeping", "answered"}
  /\ candidates \in CandidateLists \union {<<>>}
  /\ attempt \in 0 .. Greater(1, MaxAttempts)
  /\ delay \in Int /\ delay <= MaxDelay
  /\ waited \in Nat /\ elapsed \in Nat
  /\ requests \in 0 .. MaxRequests
  /\ unanswered \in Nat /\ success \in Nat
  /\ fallback \in [Reasons -> Nat]

\* The time that calls and sleeps of the longest kind take.
Spent(calls, sleeps) == calls * Timeout + sleeps * MaxDelay

(***************************************************************************)
(* However the model behaves, a request is answered in bounded time: every *)
(* attempt in the timeout, and a capped sleep between two of them.         *)
(***************************************************************************)
LatencyBound ==
  pc # "idle" =>
    elapsed <= Spent(Greater(1, MaxAttempts), Greater(0, MaxAttempts - 1))

(***************************************************************************)
(* The strengthening that is inductive: where a request is says how many   *)
(* attempts and sleeps its time can have gone into, and that the attempts  *)
(* have not run out.                                                       *)
(***************************************************************************)
PhaseBound ==
  /\ pc = "started" => attempt = 0 /\ elapsed = 0 /\ waited = 0
  /\ pc = "calling" => /\ attempt < Greater(1, MaxAttempts)
                       /\ waited <= Timeout
                       /\ elapsed <= Spent(attempt, attempt) + waited
  /\ pc = "sleeping" => /\ attempt >= 1 /\ attempt < MaxAttempts
                        /\ waited <= MaxDelay
                        /\ elapsed <= Spent(attempt, attempt - 1) + waited

(***************************************************************************)
(* The two counters tell every request that asked the model and was        *)
(* answered, exactly once each, and no dropped one.                        *)
(***************************************************************************)
CountersAddUp ==
  LET fellBack == fallback["transport"] + fallback["timeout"]
                    + fallback["status"] + fallback["parse"]
  IN  success + fellBack + unanswered + (IF Busy THEN 1 ELSE 0) = requests

(***************************************************************************)
(* Retries back off: until the cap is reached, each sleep is at least as   *)
(* long as the one before it, jitter notwithstanding.                      *)
(***************************************************************************)
SleepsGrow ==
  [][pc = "calling" /\ pc' = "sleeping" /\ BaseDelay * 2^attempt <= MaxDelay
       => delay' >= delay]_vars

(***************************************************************************)
(* A request is always answered, even by a model that never says a word,   *)
(* unless its caller drops it.                                             *)
(***************************************************************************)
EveryRequestEnds == Busy ~> ~Busy

(***************************************************************************)
(* The reranker keeps the promise of the port: one well-formed ranking per *)
(* request and never an error, whatever the model replied.                 *)
(***************************************************************************)
Port == INSTANCE RerankerPort
          WITH phase <- IF Busy THEN "running" ELSE pc,
               offered <- candidates,
               answer <- ranked

ImplementsPort == Port!Spec
=============================================================================
