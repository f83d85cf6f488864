-------------------------- MODULE AiRerankerProofs --------------------------
(***************************************************************************)
(* The generative reranker, for every retry policy, timeout, set of        *)
(* candidates and behaviour of the chat model.                             *)
(***************************************************************************)
EXTENDS AiReranker, RankingProofs

USE RetryAssumption DEF RetryAssumption

(* Half of the cap is the least of the delays, and the jitter stays within *)
(* the other half, or within nothing.                                      *)
LEMMA JitterWithinHalf ==
  ASSUME NEW n \in Nat, NEW d \in BackoffDelays(n)
  PROVE  /\ d \in Int /\ BackoffCap(n) \in Int
         /\ BackoffCap(n) \div 2 <= d /\ d <= BackoffCap(n)
<1> DEFINE cap == BackoffCap(n)
           half == cap \div 2
           span == Lesser(Greater(half, 1), Second)
<1>1. cap \in Int /\ cap >= 0
  <2>1. 2^n \in Nat
    BY PowerDoubles
  <2>2. BaseDelay * 2^n \in Nat
    BY <2>1
  <2> QED
    BY <2>2 DEF BackoffCap, Lesser
<1>2. half \in Int /\ 0 <= half /\ 2 * half <= cap
  BY <1>1
<1>3. PICK jitter \in 0 .. span - 1 : d = half + jitter
  BY DEF BackoffDelays
<1>4. span \in Int /\ span <= Greater(half, 1)
  BY <1>2 DEF Lesser, Greater
<1> HIDE DEF half, cap, span
<1>5. jitter \in Int /\ 0 <= jitter /\ jitter <= Greater(half, 1) - 1
  BY <1>2, <1>3, <1>4 DEF Greater
<1>6. half + jitter <= cap
  BY <1>1, <1>2, <1>5 DEF Greater
<1>7. d \in Int /\ half <= d /\ d <= cap
  BY <1>2, <1>3, <1>5, <1>6
<1> QED
  BY <1>1, <1>7 DEF half, cap

(* A sleep never exceeds the cap of the policy, jitter included.           *)
LEMMA SleepsAreCapped ==
  ASSUME NEW n \in Nat, NEW d \in BackoffDelays(n)
  PROVE  d \in Int /\ d <= MaxDelay
<1>1. BackoffCap(n) <= MaxDelay
  <2>1. BaseDelay * 2^n \in Nat
    <3>1. 2^n \in Nat
      BY PowerDoubles
    <3> QED
      BY <3>1
  <2> QED
    BY <2>1 DEF BackoffCap, Lesser
<1>2. d \in Int /\ BackoffCap(n) \in Int /\ d <= BackoffCap(n)
  BY JitterWithinHalf
<1> QED
  BY <1>1, <1>2

(* An attempt that fails: what it leaves, in either branch.                *)
LEMMA AfterFailure ==
  ASSUME TypeOK, NEW e \in AiError, pc = "calling", attempt < Greater(1, MaxAttempts),
         AttemptFails(e)
  PROVE  /\ attempt' = attempt + 1 /\ attempt' \in 0 .. Greater(1, MaxAttempts)
         /\ elapsed' = elapsed
         /\ \/ pc' = "answered" /\ waited' = waited
            \/ pc' = "sleeping" /\ waited' = 0 /\ attempt' < MaxAttempts
         /\ delay' \in Int /\ delay' <= MaxDelay
<1>1. attempt \in Nat /\ Greater(1, MaxAttempts) \in Nat
  BY DEF TypeOK, Greater
<1>2. attempt' = attempt + 1 /\ attempt' \in 0 .. Greater(1, MaxAttempts)
  BY <1>1 DEF AttemptFails
<1>3. CASE FallBack(e)
  BY <1>2, <1>3 DEF FallBack, TypeOK
<1>4. CASE /\ pc' = "sleeping" /\ delay' \in BackoffDelays(attempt) /\ waited' = 0
           /\ attempt' < MaxAttempts /\ elapsed' = elapsed
  BY <1>1, <1>2, <1>4, SleepsAreCapped
<1> QED
  BY <1>1, <1>2, <1>3, <1>4 DEF AttemptFails

(* The time budget is a number, it is monotonic, and one more call or      *)
(* sleep adds one more timeout or cap.                                     *)
LEMMA SpentIsNat ==
  ASSUME NEW a \in Nat, NEW b \in Nat
  PROVE  Spent(a, b) \in Nat
<1>1. a * Timeout \in Nat /\ b * MaxDelay \in Nat
  BY SMT
<1> QED
  BY <1>1 DEF Spent

LEMMA SpentGrows ==
  ASSUME NEW a \in Nat, NEW b \in Nat, NEW c \in Nat, NEW d \in Nat, a <= c, b <= d
  PROVE  Spent(a, b) <= Spent(c, d)
<1>1. a * Timeout <= c * Timeout /\ b * MaxDelay <= d * MaxDelay
  BY SMT
<1>2. /\ a * Timeout \in Nat /\ c * Timeout \in Nat
      /\ b * MaxDelay \in Nat /\ d * MaxDelay \in Nat
  BY SMT
<1> QED
  BY <1>1, <1>2 DEF Spent

LEMMA SpentAdds ==
  ASSUME NEW a \in Nat, NEW b \in Nat
  PROVE  /\ Spent(a + 1, b) = Spent(a, b) + Timeout
         /\ Spent(a, b + 1) = Spent(a, b) + MaxDelay
<1>1. (a + 1) * Timeout = a * Timeout + Timeout /\ (b + 1) * MaxDelay = b * MaxDelay + MaxDelay
  BY SMT
<1>2. a * Timeout \in Nat /\ b * MaxDelay \in Nat
  BY SMT
<1> QED
  BY <1>1, <1>2 DEF Spent

(* A failed attempt keeps the budget, whether it is the last or not.       *)
LEMMA FailureKeepsBudget ==
  ASSUME TypeOK, PhaseBound, NEW e \in AiError, pc = "calling", AttemptFails(e)
  PROVE  PhaseBound'
<1>1. /\ attempt \in Nat /\ waited \in Nat /\ elapsed \in Nat
      /\ attempt < Greater(1, MaxAttempts) /\ waited <= Timeout
      /\ elapsed <= Spent(attempt, attempt) + waited
  BY DEF TypeOK, PhaseBound
<1>2. elapsed <= Spent(attempt + 1, attempt)
  <2>1. Spent(attempt, attempt) \in Nat
    BY <1>1, SpentIsNat
  <2> QED
    BY <1>1, <2>1, SpentAdds
<1>3. /\ attempt' = attempt + 1 /\ elapsed' = elapsed
      /\ \/ pc' = "answered"
         \/ pc' = "sleeping" /\ waited' = 0 /\ attempt' < MaxAttempts
  BY <1>1, AfterFailure
<1>4. CASE pc' = "answered"
  BY <1>4 DEF PhaseBound
<1>5. CASE pc' = "sleeping" /\ waited' = 0 /\ attempt' < MaxAttempts
  <2>1. attempt' - 1 = attempt /\ attempt' >= 1
    BY <1>1, <1>3
  <2>2. elapsed' <= Spent(attempt', attempt' - 1) + waited'
    <3>1. Spent(attempt + 1, attempt) \in Nat
      <4>1. attempt + 1 \in Nat
        BY <1>1
      <4> QED
        BY <1>1, <4>1, SpentIsNat
    <3> QED
      BY <1>1, <1>2, <1>3, <1>5, <2>1, <3>1
  <2> QED
    BY <1>5, <2>1, <2>2 DEF PhaseBound
<1> QED
  BY <1>3, <1>4, <1>5

(* Time passing, and the end of a sleep, keep the budget.                  *)
LEMMA WaitingKeepsBudget ==
  ASSUME TypeOK, PhaseBound, Tick \/ Wake
  PROVE  PhaseBound'
<1>1. /\ attempt \in Nat /\ waited \in Nat /\ elapsed \in Nat
      /\ delay \in Int /\ delay <= MaxDelay
  BY DEF TypeOK
<1>2. CASE Tick /\ pc = "calling"
  <2>1. Spent(attempt, attempt) \in Nat
    BY <1>1, SpentIsNat
  <2> QED
    BY <1>1, <1>2, <2>1 DEF Tick, PhaseBound, Spent
<1>3. CASE Tick /\ pc = "sleeping"
  <2>1. attempt - 1 \in Nat
    BY <1>1, <1>3 DEF PhaseBound
  <2>2. Spent(attempt, attempt - 1) \in Nat
    BY <1>1, <2>1, SpentIsNat
  <2> QED
    BY <1>1, <1>3, <2>2 DEF Tick, PhaseBound, Spent
<1>4. CASE Wake
  <2>1. /\ attempt - 1 \in Nat /\ (attempt - 1) + 1 = attempt
        /\ attempt < MaxAttempts /\ waited <= MaxDelay
        /\ elapsed <= Spent(attempt, attempt - 1) + waited
    BY <1>1, <1>4 DEF Wake, PhaseBound
  <2>2. Spent(attempt, attempt) = Spent(attempt, attempt - 1) + MaxDelay
    BY <1>1, <2>1, SpentAdds
  <2>3. Spent(attempt, attempt - 1) \in Nat
    BY <1>1, <2>1, SpentIsNat
  <2>4. elapsed <= Spent(attempt, attempt) + 0
    BY <1>1, <2>1, <2>2, <2>3
  <2> QED
    BY <1>1, <1>4, <2>1, <2>4 DEF Wake, PhaseBound, Spent, Greater
<1> QED
  BY <1>2, <1>3, <1>4 DEF Tick

(* A request in flight has time left for what it still may do.             *)
LEMMA PhaseWithinLatency ==
  ASSUME TypeOK, PhaseBound, Busy
  PROVE  elapsed <= Spent(Greater(1, MaxAttempts), Greater(0, MaxAttempts - 1))
<1> DEFINE calls == Greater(1, MaxAttempts)
           sleeps == Greater(0, MaxAttempts - 1)
<1>1. /\ calls \in Nat /\ sleeps \in Nat /\ calls = sleeps + 1
      /\ attempt \in Nat /\ waited \in Nat /\ elapsed \in Nat
  BY DEF TypeOK, Greater
<1> HIDE DEF calls, sleeps
<1>2. CASE pc = "started"
  <2>1. Spent(calls, sleeps) \in Nat
    BY <1>1, SpentIsNat
  <2> QED
    BY <1>2, <2>1 DEF PhaseBound, calls, sleeps
<1>3. CASE pc = "calling"
  <2>1. /\ attempt + 1 <= calls /\ attempt <= sleeps /\ waited <= Timeout
        /\ elapsed <= Spent(attempt, attempt) + waited
    BY <1>1, <1>3 DEF PhaseBound, calls
  <2>2. Spent(attempt + 1, attempt) = Spent(attempt, attempt) + Timeout
        /\ Spent(attempt, attempt) \in Nat
    BY <1>1, SpentAdds, SpentIsNat
  <2>3. Spent(attempt + 1, attempt) <= Spent(calls, sleeps)
        /\ Spent(calls, sleeps) \in Nat
    <3>1. attempt + 1 \in Nat
      BY <1>1
    <3> QED
      BY <1>1, <2>1, <3>1, SpentGrows, SpentIsNat
  <2> QED
    BY <1>1, <2>1, <2>2, <2>3 DEF calls, sleeps
<1>4. CASE pc = "sleeping"
  <2>1. /\ attempt - 1 \in Nat /\ (attempt - 1) + 1 = attempt
        /\ attempt <= calls /\ attempt <= sleeps /\ waited <= MaxDelay
        /\ elapsed <= Spent(attempt, attempt - 1) + waited
    BY <1>1, <1>4 DEF PhaseBound, calls, Greater
  <2>2. Spent(attempt, attempt) = Spent(attempt, attempt - 1) + MaxDelay
        /\ Spent(attempt, attempt - 1) \in Nat
    BY <1>1, <2>1, SpentAdds, SpentIsNat
  <2>3. Spent(attempt, attempt) <= Spent(calls, sleeps)
        /\ Spent(calls, sleeps) \in Nat
    BY <1>1, <2>1, SpentGrows, SpentIsNat
  <2> QED
    BY <1>1, <2>1, <2>2, <2>3 DEF calls, sleeps
<1> QED
  BY <1>2, <1>3, <1>4 DEF Busy

-----------------------------------------------------------------------------
(* The error arm of rerank keeps the types.                                *)
LEMMA FallBackTyped ==
  ASSUME TypeOK, NEW e, e.code \in Reasons, FallBack(e),
         attempt' \in 0 .. Greater(1, MaxAttempts)
  PROVE  TypeOK'
BY DEF TypeOK, FallBack, Reasons

(* The error arm of retry_if keeps the types: the attempts are counted up  *)
(* to the limit and not beyond.                                            *)
LEMMA AttemptFailsTyped ==
  ASSUME TypeOK, PhaseBound, NEW e \in AiError, pc = "calling", AttemptFails(e)
  PROVE  TypeOK'
<1>1. e.code \in Reasons
  BY DEF AiError, Reasons
<1>2. /\ attempt' \in 0 .. Greater(1, MaxAttempts)
      /\ delay' \in Int /\ delay' <= MaxDelay
  BY AfterFailure DEF PhaseBound
<1>3. CASE FallBack(e)
  BY <1>1, <1>2, <1>3, FallBackTyped
<1>4. CASE /\ pc' = "sleeping" /\ waited' = 0
           /\ UNCHANGED <<candidates, elapsed, ranked, requests, unanswered, counters>>
  BY <1>2, <1>4 DEF TypeOK, counters
<1> QED
  BY <1>3, <1>4 DEF AttemptFails

LEMMA TimeoutIsError == TimeoutError \in AiError
BY DEF TimeoutError, AiError

LEMMA ParseIsReason == ParseError.code \in Reasons
BY DEF ParseError, Reasons

(* However an exchange with the endpoint goes, complete() returns a text   *)
(* or one of the errors that are counted.                                  *)
LEMMA FailureIsError ==
  ASSUME NEW x \in Exchanges, ~Completes(x)
  PROVE  Failure(x) \in AiError
<1>1. CASE x \in [sent : {FALSE}, code : {"timeout", "transport"}]
  BY <1>1 DEF Failure, AiError
<1>2. CASE x \in [sent : {TRUE}, status : Statuses, body : Bodies \union {NoBody}]
  BY <1>2 DEF Failure, AiError, ParseError
<1> QED
  BY <1>1, <1>2 DEF Exchanges

LEMMA ExchangeEnds ==
  ASSUME NEW x \in Exchanges, ModelAnswers(x)
  PROVE  (\E e \in AiError : ModelFails(e)) \/ (\E text : ModelReplies(text))
BY FailureIsError DEF ModelAnswers

(* The types and the time budget are invariant together: the count of      *)
(* attempts stays in its type because a call is under way only while       *)
(* attempts are left.                                                      *)
LEMMA StepKeepsBudget ==
  ASSUME TypeOK, PhaseBound, [Next]_vars
  PROVE  TypeOK' /\ PhaseBound'
<1>1. ASSUME NEW list \in CandidateLists, Rerank(list) PROVE TypeOK' /\ PhaseBound'
  <2>1. Greater(1, MaxAttempts) \in Nat
    BY DEF Greater
  <2> QED
    BY <1>1, <2>1 DEF Rerank, TypeOK, PhaseBound, counters
<1>2. CASE ShortCircuit
  BY <1>2 DEF ShortCircuit, TypeOK, PhaseBound, counters
<1>3. CASE FirstCall
  <2>1. attempt = 0 /\ elapsed = 0 /\ waited = 0 /\ Spent(0, 0) \in Nat
    BY <1>3, SpentIsNat DEF FirstCall, PhaseBound
  <2> QED
    BY <1>3, <2>1 DEF FirstCall, TypeOK, PhaseBound, counters, Greater
<1>4. ASSUME NEW e \in AiError, ModelFails(e) PROVE TypeOK' /\ PhaseBound'
  BY <1>4, AttemptFailsTyped, FailureKeepsBudget DEF ModelFails
<1>5. CASE CallTimesOut
  BY <1>5, AttemptFailsTyped, FailureKeepsBudget, TimeoutIsError DEF CallTimesOut
<1>6. ASSUME NEW text, ModelReplies(text) PROVE TypeOK' /\ PhaseBound'
  <2>1. attempt' \in 0 .. Greater(1, MaxAttempts) /\ pc' = "answered"
    BY <1>6 DEF ModelReplies, TypeOK, FallBack
  <2>2. ASSUME success' = success + 1,
               UNCHANGED <<candidates, delay, waited, elapsed, requests, unanswered, fallback>>
        PROVE  TypeOK'
    BY <2>1, <2>2 DEF TypeOK
  <2>3. ASSUME FallBack(ParseError) PROVE TypeOK'
    BY <2>1, <2>3, FallBackTyped, ParseIsReason
  <2>4. TypeOK'
    BY <1>6, <2>2, <2>3 DEF ModelReplies
  <2>5. PhaseBound'
    BY <2>1 DEF PhaseBound
  <2> QED
    BY <2>4, <2>5
<1>7. CASE Wake
  <2>1. PhaseBound'
    BY <1>7, WaitingKeepsBudget
  <2>2. TypeOK'
    BY <1>7 DEF Wake, TypeOK, counters
  <2> QED
    BY <2>1, <2>2
<1>8. CASE Tick
  <2>1. PhaseBound'
    BY <1>8, WaitingKeepsBudget
  <2>2. TypeOK'
    BY <1>8 DEF Tick, TypeOK, counters
  <2> QED
    BY <2>1, <2>2
<1>9. CASE Drop
  BY <1>9 DEF Drop, TypeOK, PhaseBound, counters
<1>10. CASE Return
  BY <1>10 DEF Return, TypeOK, PhaseBound, counters
<1>11. CASE UNCHANGED vars
  BY <1>11 DEF vars, counters, TypeOK, PhaseBound, Spent
<1> QED
  BY <1>1, <1>2, <1>3, <1>4, <1>5, <1>6, <1>7, <1>8, <1>9, <1>10, <1>11,
     ExchangeEnds DEF Next

THEOREM BudgetInvariant == Spec => [](TypeOK /\ PhaseBound)
<1>1. Init => TypeOK /\ PhaseBound
  BY DEF Init, TypeOK, PhaseBound, Reasons, Greater
<1>2. (TypeOK /\ PhaseBound) /\ [Next]_vars => (TypeOK /\ PhaseBound)'
  BY StepKeepsBudget
<1> QED
  BY <1>1, <1>2, PTL DEF Spec

(* Type correctness: in particular no request makes more attempts than the *)
(* policy allows, or one if it allows none.                                *)
THEOREM TypeCorrect == Spec => []TypeOK
BY BudgetInvariant, PTL

(* A request in flight, or just answered, has not taken longer than its    *)
(* attempts in the timeout and the capped sleeps between them.             *)
THEOREM LatencyIsBounded == Spec => []LatencyBound
<1> DEFINE Answered == pc = "answered" =>
             elapsed <= Spent(Greater(1, MaxAttempts), Greater(0, MaxAttempts - 1))
<1>1. Init => Answered
  BY DEF Init
<1>2. TypeOK /\ PhaseBound /\ Answered /\ [Next]_vars => Answered'
  <2> SUFFICES ASSUME TypeOK, PhaseBound, Answered, [Next]_vars, pc' = "answered"
               PROVE  elapsed' <= Spent(Greater(1, MaxAttempts), Greater(0, MaxAttempts - 1))
    OBVIOUS
  <2>1. CASE Busy
    <3>1. elapsed' = elapsed
      BY <2>1, ExchangeEnds
         DEF Next, Busy, vars, counters, Rerank, ShortCircuit, FirstCall, ModelFails,
             ModelReplies, CallTimesOut, AttemptFails, FallBack, Wake, Tick, Drop, Return
    <3> QED
      BY <2>1, <3>1, PhaseWithinLatency
  <2>2. CASE ~Busy
    <3>1. pc = "answered" /\ elapsed' = elapsed
      BY <2>2, ExchangeEnds
         DEF Next, Busy, vars, counters, Rerank, ShortCircuit, FirstCall, ModelFails,
             ModelReplies, CallTimesOut, AttemptFails, FallBack, Wake, Tick, Drop, Return
    <3> QED
      BY <3>1
  <2> QED
    BY <2>1, <2>2
<1>3. TypeOK /\ PhaseBound /\ Answered => LatencyBound
  <2> SUFFICES ASSUME TypeOK, PhaseBound, Answered, pc # "idle"
               PROVE  elapsed <= Spent(Greater(1, MaxAttempts), Greater(0, MaxAttempts - 1))
    BY DEF LatencyBound
  <2>1. Busy \/ pc = "answered"
    BY DEF Busy, TypeOK
  <2> QED
    BY <2>1, PhaseWithinLatency
<1> QED
  BY <1>1, <1>2, <1>3, BudgetInvariant, PTL DEF Spec

(* The counters account for every request: no reply, late failure or drop  *)
(* is counted twice or missed.                                             *)
THEOREM CountersAreExact == Spec => []CountersAddUp
<1>1. Init => CountersAddUp
  BY DEF Init, CountersAddUp, Reasons, Busy
<1>2. TypeOK /\ CountersAddUp /\ [Next]_vars => CountersAddUp'
  <2> SUFFICES ASSUME TypeOK, CountersAddUp, [Next]_vars PROVE CountersAddUp'
    OBVIOUS
  <2> DEFINE total(f) == f["transport"] + f["timeout"] + f["status"] + f["parse"]
  <2>1. /\ success \in Nat /\ unanswered \in Nat /\ requests \in Nat
        /\ fallback \in [Reasons -> Nat] /\ total(fallback) \in Nat
    BY DEF TypeOK, Reasons
  <2>2. ASSUME NEW e, e.code \in Reasons, FallBack(e), Busy PROVE CountersAddUp'
    <3>1. total([fallback EXCEPT ![e.code] = @ + 1]) = total(fallback) + 1
      BY <2>1, <2>2 DEF Reasons
    <3>2. /\ total(fallback') = total(fallback) + 1 /\ ~Busy'
          /\ success' = success /\ unanswered' = unanswered /\ requests' = requests
      BY <2>2, <3>1 DEF FallBack, Busy
    <3>3. success + total(fallback) + unanswered + 1 = requests
      BY <2>2 DEF CountersAddUp
    <3> HIDE DEF total
    <3>4. success' + total(fallback') + unanswered' + 0 = requests'
      BY <2>1, <3>2, <3>3
    <3> QED
      BY <3>2, <3>4 DEF CountersAddUp, total
  <2>3. ASSUME NEW list \in CandidateLists, Rerank(list) PROVE CountersAddUp'
    BY <2>1, <2>3 DEF Rerank, CountersAddUp, Busy, counters
  <2>4. CASE ShortCircuit
    BY <2>1, <2>4 DEF ShortCircuit, CountersAddUp, Busy, counters
  <2>5. ASSUME NEW e \in AiError, AttemptFails(e), pc = "calling" PROVE CountersAddUp'
    <3>1. e.code \in Reasons /\ Busy
      BY <2>5 DEF AiError, Reasons, Busy
    <3>2. CASE FallBack(e)
      BY <2>2, <3>1, <3>2
    <3>3. CASE pc' = "sleeping" /\ UNCHANGED <<requests, unanswered, counters>>
      BY <2>1, <2>5, <3>3 DEF CountersAddUp, Busy, counters
    <3> QED
      BY <2>5, <3>2, <3>3 DEF AttemptFails
  <2>6. ASSUME NEW text, ModelReplies(text) PROVE CountersAddUp'
    <3>1. CASE FallBack(ParseError)
      BY <2>2, <2>6, <3>1, ParseIsReason DEF ModelReplies, Busy
    <3>2. CASE /\ pc' = "answered" /\ success' = success + 1
               /\ UNCHANGED <<requests, unanswered, fallback>>
      BY <2>1, <2>6, <3>2 DEF ModelReplies, CountersAddUp, Busy
    <3> QED
      BY <2>6, <3>1, <3>2 DEF ModelReplies
  <2>7. CASE FirstCall \/ Wake \/ Tick \/ Return
    BY <2>1, <2>7 DEF FirstCall, Wake, Tick, Return, CountersAddUp, Busy, counters
  <2>8. CASE Drop
    BY <2>1, <2>8 DEF Drop, CountersAddUp, Busy, counters
  <2>9. CASE UNCHANGED vars
    BY <2>9 DEF vars, counters, CountersAddUp, Busy
  <2> QED
    BY <2>3, <2>4, <2>5, <2>6, <2>7, <2>8, <2>9, TimeoutIsError, ExchangeEnds
       DEF Next, ModelFails, CallTimesOut
<1> QED
  BY <1>1, <1>2, TypeCorrect, PTL DEF Spec

-----------------------------------------------------------------------------
(* The delay of a request is the one chosen after its last failed attempt, *)
(* if there was one: what SleepsGrow compares the next delay with.         *)
DelayIsLastBackoff ==
  pc \in {"started", "calling", "sleeping"} =>
    /\ attempt = 0 => delay = 0
    /\ attempt > 0 => delay \in BackoffDelays(attempt - 1)

(* The cap doubles until MaxDelay cuts it.                                 *)
LEMMA CapDoubles ==
  ASSUME NEW n \in Nat, BaseDelay * 2^(n + 1) <= MaxDelay
  PROVE  /\ BackoffCap(n) \in Int
         /\ BackoffCap(n + 1) = 2 * BackoffCap(n)
<1>1. 2^n \in Nat /\ 2^(n + 1) = 2 * 2^n
  BY PowerDoubles
<1> DEFINE grown == BaseDelay * 2^n
<1>2. grown \in Nat
  BY <1>1
<1>3. BaseDelay * 2^(n + 1) = 2 * grown
  BY <1>1
<1> HIDE DEF grown
<1>4. grown <= MaxDelay
  BY <1>2, <1>3
<1>5. BackoffCap(n) = grown
  BY <1>4 DEF BackoffCap, Lesser, grown
<1>6. BackoffCap(n + 1) = 2 * grown
  BY <1>3 DEF BackoffCap, Lesser
<1> QED
  BY <1>2, <1>5, <1>6

LEMMA DelayInvariant == Spec => []DelayIsLastBackoff
<1>1. Init => DelayIsLastBackoff
  BY DEF Init, DelayIsLastBackoff
<1>2. TypeOK /\ DelayIsLastBackoff /\ [Next]_vars => DelayIsLastBackoff'
  <2> SUFFICES ASSUME TypeOK, DelayIsLastBackoff, [Next]_vars PROVE DelayIsLastBackoff'
    OBVIOUS
  <2>1. attempt \in Nat
    BY DEF TypeOK
  <2>2. ASSUME NEW e, AttemptFails(e) PROVE DelayIsLastBackoff'
    <3>1. attempt' = attempt + 1
      BY <2>2 DEF AttemptFails
    <3>2. CASE FallBack(e)
      BY <3>2 DEF FallBack, DelayIsLastBackoff
    <3>3. CASE pc' = "sleeping" /\ delay' \in BackoffDelays(attempt)
      <4>1. attempt' - 1 = attempt /\ attempt' # 0
        BY <2>1, <3>1
      <4> QED
        BY <3>3, <4>1 DEF DelayIsLastBackoff
    <3> QED
      BY <2>2, <3>2, <3>3 DEF AttemptFails
  <2>3. ASSUME NEW list \in CandidateLists, Rerank(list) PROVE DelayIsLastBackoff'
    BY <2>3 DEF Rerank, DelayIsLastBackoff
  <2>4. ASSUME NEW text, ModelReplies(text) PROVE DelayIsLastBackoff'
    BY <2>4 DEF ModelReplies, FallBack, DelayIsLastBackoff
  <2>5. CASE ShortCircuit \/ Drop \/ Return
    BY <2>5 DEF ShortCircuit, Drop, Return, DelayIsLastBackoff
  <2>6. CASE FirstCall \/ Wake \/ Tick
    BY <2>6 DEF FirstCall, Wake, Tick, DelayIsLastBackoff
  <2>7. CASE UNCHANGED vars
    BY <2>7 DEF vars, DelayIsLastBackoff
  <2> QED
    BY <2>2, <2>3, <2>4, <2>5, <2>6, <2>7, ExchangeEnds DEF Next, ModelFails, CallTimesOut
<1> QED
  BY <1>1, <1>2, TypeCorrect, PTL DEF Spec

(* While the cap doubles, the shortest next sleep is as long as the        *)
(* longest last one, for every policy.                                     *)
THEOREM BackoffGrows == Spec => SleepsGrow
<1>1. ASSUME TypeOK, DelayIsLastBackoff, [Next]_vars,
             pc = "calling", pc' = "sleeping", BaseDelay * 2^attempt <= MaxDelay
      PROVE  delay' >= delay
  <2>1. attempt \in Nat
    BY <1>1 DEF TypeOK
  <2>2. ASSUME NEW e, AttemptFails(e) PROVE delay' \in BackoffDelays(attempt)
    BY <1>1, <2>2 DEF AttemptFails, FallBack
  <2>3. delay' \in BackoffDelays(attempt)
    BY <1>1, <2>2, ExchangeEnds
       DEF Next, vars, Rerank, ShortCircuit, FirstCall, ModelFails, ModelReplies, FallBack,
           CallTimesOut, Wake, Tick, Drop, Return
  <2>4. delay' \in Int /\ BackoffCap(attempt) \div 2 <= delay'
    BY <2>1, <2>3, JitterWithinHalf
  <2>5. CASE attempt = 0
    <3>1. delay = 0
      BY <1>1, <2>5 DEF DelayIsLastBackoff
    <3>2. BackoffCap(0) \in Nat
      <4>1. 2^0 \in Nat
        BY PowerDoubles
      <4>2. BaseDelay * 2^0 \in Nat
        BY <4>1
      <4> QED
        BY <4>2 DEF BackoffCap, Lesser
    <3> QED
      BY <2>4, <2>5, <3>1, <3>2
  <2>6. CASE attempt # 0
    <3> DEFINE last == attempt - 1
    <3>1. last \in Nat /\ last + 1 = attempt
      BY <2>1, <2>6
    <3>2. delay \in BackoffDelays(last)
      BY <1>1, <2>1, <2>6 DEF DelayIsLastBackoff
    <3> HIDE DEF last
    <3>3. delay \in Int /\ delay <= BackoffCap(last)
      BY <3>1, <3>2, JitterWithinHalf
    <3>4. BackoffCap(last) \in Int /\ BackoffCap(attempt) = 2 * BackoffCap(last)
      BY <1>1, <3>1, CapDoubles
    <3> QED
      BY <2>4, <3>3, <3>4
  <2> QED
    BY <2>5, <2>6
<1>2. TypeOK /\ DelayIsLastBackoff /\ [Next]_vars =>
        [pc = "calling" /\ pc' = "sleeping" /\ BaseDelay * 2^attempt <= MaxDelay
           => delay' >= delay]_vars
  BY <1>1
<1> QED
  BY <1>2, TypeCorrect, DelayInvariant, PTL DEF Spec, SleepsGrow

-----------------------------------------------------------------------------
(* An answer is only held while the caller has yet to take it.             *)
NoStaleAnswer == pc # "answered" => ranked = <<>>

LEMMA NoStaleAnswerHolds == Spec => []NoStaleAnswer
<1>1. Init => NoStaleAnswer
  BY DEF Init, NoStaleAnswer
<1>2. NoStaleAnswer /\ [Next]_vars => NoStaleAnswer'
  <2> SUFFICES ASSUME NoStaleAnswer, [Next]_vars PROVE NoStaleAnswer'
    OBVIOUS
  <2>1. ASSUME NEW e, AttemptFails(e) , pc = "calling" PROVE NoStaleAnswer'
    BY <2>1 DEF AttemptFails, FallBack, NoStaleAnswer
  <2>2. ASSUME NEW text, ModelReplies(text) PROVE NoStaleAnswer'
    BY <2>2 DEF ModelReplies, FallBack, NoStaleAnswer
  <2> QED
    BY <2>1, <2>2, ExchangeEnds
       DEF Next, vars, Rerank, ShortCircuit, FirstCall, ModelFails, CallTimesOut, Wake, Tick,
           Drop, Return, NoStaleAnswer
<1> QED
  BY <1>1, <1>2, PTL DEF Spec

Offers == [id : Nat, lexical : Int, retrieval : Score]
ReplyItems == [id : Nat, score : Int]

LEMMA CandidatesAreRankable ==
  ASSUME TypeOK
  PROVE  candidates \in Seq(Offers) /\ Rankable(candidates, Len(candidates))
<1>1. candidates \in Seq(Offers)
  <2>1. candidates \in CandidateLists \/ candidates = <<>>
    BY DEF TypeOK
  <2>2. CandidateLists \subseteq Seq(Offers)
    BY InputAssumption DEF InputAssumption, Offers
  <2>3. CASE candidates = <<>>
    <3>1. <<>> \in Seq(Offers)
      OBVIOUS
    <3> QED
      BY <2>3, <3>1, Zenon
  <2> QED
    BY <2>1, <2>2, <2>3
<1>2. \A i \in 1 .. Len(candidates) : candidates[i] \in Offers
  BY <1>1
<1>3. DOMAIN candidates = 1 .. Len(candidates)
  BY <1>1
<1> QED
  BY <1>1, <1>2, <1>3 DEF Rankable, Offers

LEMMA RepliesAreScorable ==
  ASSUME NEW text \in Seq(ReplyItems)
  PROVE  Scorable(text, Len(text))
<1>1. \A i \in 1 .. Len(text) : text[i] \in ReplyItems
  OBVIOUS
<1>2. DOMAIN text = 1 .. Len(text)
  OBVIOUS
<1> QED
  BY <1>1, <1>2 DEF Scorable, ReplyItems, Score

(* complete() ends in an error, or in a text: a list of items, or nothing  *)
(* that parses as one.                                                     *)
LEMMA ExchangeEndsTyped ==
  ASSUME NEW x \in Exchanges, ModelAnswers(x)
  PROVE  \/ \E e \in AiError : ModelFails(e)
         \/ \E text \in Seq(ReplyItems) \union {Garbage} : ModelReplies(text)
<1>1. CASE ~Completes(x)
  BY <1>1, FailureIsError DEF ModelAnswers
<1>2. CASE Completes(x)
  <2>1. x.body \in Bodies /\ x.body # <<>>
    BY <1>2 DEF Completes, Exchanges
  <2>2. x.body \in Seq(Seq(ReplyItems) \union {Garbage})
    BY <2>1, InputAssumption DEF InputAssumption, ReplyItems
  <2>3. Text(x) \in Seq(ReplyItems) \union {Garbage}
    BY <2>1, <2>2 DEF Text
  <2> QED
    BY <1>2, <2>3 DEF ModelAnswers
<1> QED
  BY <1>1, <1>2

LEMMA PortWellFormed ==
  ASSUME NEW list, NEW cs
  PROVE  Port!WellFormed(list, cs) <=> WellFormed(list, cs)
BY DEF Port!WellFormed, Port!BestFirst, Port!Above, Port!Ids, WellFormed, BestFirst, Above, Ids

(* Every step of the reranker is a step of the port, or none of it.        *)
LEMMA StepImplementsPort ==
  ASSUME TypeOK, NoStaleAnswer, [Next]_vars
  PROVE  [Port!Next]_(Port!portVars)
<1> USE DEF Port!portVars
<1>1. ASSUME NEW e, FallBack(e), pc = "calling" PROVE Port!Answer
  <2>1. WellFormed(ranked', candidates)
    BY <1>1, CandidatesAreRankable, HeuristicIsWellFormed DEF FallBack
  <2> QED
    BY <1>1, <2>1, PortWellFormed DEF FallBack, Port!Answer, Busy
<1>2. ASSUME NEW e, AttemptFails(e), pc = "calling" PROVE [Port!Next]_(Port!portVars)
  <2>1. CASE FallBack(e)
    BY <1>1, <1>2, <2>1 DEF Port!Next
  <2>2. CASE pc' = "sleeping" /\ UNCHANGED <<candidates, ranked>>
    BY <1>2, <2>2 DEF Busy
  <2> QED
    BY <1>2, <2>1, <2>2 DEF AttemptFails
<1>3. ASSUME NEW text \in Seq(ReplyItems) \union {Garbage}, ModelReplies(text) PROVE Port!Answer
  <2>1. CASE FallBack(ParseError)
    BY <1>1, <1>3, <2>1 DEF ModelReplies
  <2>2. CASE /\ Parses(text, candidates) /\ pc' = "answered" /\ UNCHANGED candidates
             /\ ranked' = ModelRanking(text, candidates)
    <3>1. text \in Seq(ReplyItems) /\ Kept(text, candidates) # <<>>
      BY <2>2 DEF Parses
    <3>2. WellFormed(ranked', candidates)
      BY <2>2, <3>1, CandidatesAreRankable, RepliesAreScorable, ModelRankingIsSanitised
    <3> QED
      BY <1>3, <2>2, <3>2, PortWellFormed DEF ModelReplies, Port!Answer, Busy
  <2> QED
    BY <1>3, <2>1, <2>2 DEF ModelReplies
<1>4. ASSUME NEW list \in CandidateLists, Rerank(list) PROVE Port!Ask
  BY <1>4 DEF Rerank, Port!Ask, Busy
<1>5. CASE ShortCircuit
  <2>1. ranked' = <<>> /\ candidates' = <<>>
    BY <1>5 DEF ShortCircuit, NoStaleAnswer
  <2>2. WellFormed(<<>>, <<>>)
    BY DEF WellFormed, BestFirst, Ids
  <2> QED
    BY <1>5, <2>1, <2>2, PortWellFormed DEF ShortCircuit, Port!Answer, Port!Next, Busy
<1>6. CASE Drop \/ Return
  BY <1>6 DEF Drop, Return, Port!Leave, Port!Next, Busy
<1>7. CASE FirstCall \/ Wake \/ Tick \/ UNCHANGED vars
  BY <1>7 DEF FirstCall, Wake, Tick, vars, Busy
<1> QED
  BY <1>2, <1>3, <1>4, <1>5, <1>6, <1>7, ExchangeEndsTyped
     DEF Next, ModelFails, CallTimesOut, Port!Next

(* The generative reranker implements the reranker port: one well-formed   *)
(* ranking per request and no error, whatever the chat model does.         *)
THEOREM PortIsImplemented == Spec => ImplementsPort
<1>1. Init => Port!Init
  BY DEF Init, Port!Init, Busy
<1>2. TypeOK /\ NoStaleAnswer /\ [Next]_vars => [Port!Next]_(Port!portVars)
  BY StepImplementsPort
<1> QED
  BY <1>1, <1>2, TypeCorrect, NoStaleAnswerHolds, PTL DEF Spec, ImplementsPort, Port!Spec
=============================================================================
