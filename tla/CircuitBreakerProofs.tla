------------------------- MODULE CircuitBreakerProofs -------------------------
(***************************************************************************)
(* The circuit breaker, for any set of callers, threshold and cooldown.    *)
(***************************************************************************)
EXTENDS CircuitBreaker, TLAPS

USE BreakerAssumption DEF BreakerAssumption

(* Type correctness: opened_at never lies in the future, and a probe is a  *)
(* call that has not ended.                                                *)
THEOREM TypeCorrect == Spec => []TypeOK
<1>1. Init => TypeOK
  BY DEF Init, TypeOK, BreakerState
<1>2. TypeOK /\ [Next]_vars => TypeOK'
  <2> SUFFICES ASSUME TypeOK, [Next]_vars PROVE TypeOK'
    OBVIOUS
  <2> USE DEF TypeOK, BreakerState
  <2>1. CASE Tick
    BY <2>1 DEF Tick
  <2>2. CASE PollState
    BY <2>2 DEF PollState, LogicalState
  <2>3. ASSUME NEW c \in Callers, Admit(c) PROVE TypeOK'
    BY <2>3 DEF Admit, LogicalState
  <2>4. ASSUME NEW c \in Callers, OnSuccess(c) PROVE TypeOK'
    BY <2>4 DEF OnSuccess
  <2>5. ASSUME NEW c \in Callers, OnFailure(c) PROVE TypeOK'
    BY <2>5 DEF OnFailure
  <2>6. ASSUME NEW c \in Callers, Abandon(c) PROVE TypeOK'
    BY <2>6 DEF Abandon
  <2>7. CASE UNCHANGED vars
    BY <2>7 DEF vars
  <2> QED
    BY <2>1, <2>2, <2>3, <2>4, <2>5, <2>6, <2>7 DEF Next, Reject
<1> QED
  BY <1>1, <1>2, PTL DEF Spec

(* The inductive invariant.  None of the three parts is inductive alone:   *)
(* a failure in the half-open state reopens the breaker, and so restarts   *)
(* the cooldown, only because the count has stayed at the threshold.       *)
BreakerInv == CountMatchesState /\ StampIsLastFailure /\ HalfOpenIsRested

(* Every step keeps the invariant, in whatever order the outcomes of the   *)
(* calls are reported.                                                     *)
LEMMA BreakerInductive == TypeOK /\ BreakerInv /\ [Next]_vars => BreakerInv'
<1> SUFFICES ASSUME TypeOK, BreakerInv, [Next]_vars PROVE BreakerInv'
  OBVIOUS
<1> USE DEF BreakerInv, CountMatchesState, StampIsLastFailure, HalfOpenIsRested
<1>1. /\ clock \in Nat /\ openedAt \in Nat /\ consecutiveFailures \in Nat
      /\ state \in BreakerState
  BY DEF TypeOK
<1>2. CASE Tick
  BY <1>1, <1>2 DEF Tick
<1>3. CASE PollState
  BY <1>1, <1>3 DEF PollState, LogicalState
<1>4. ASSUME NEW c \in Callers, Admit(c) PROVE BreakerInv'
  BY <1>1, <1>4 DEF Admit, LogicalState
<1>5. ASSUME NEW c \in Callers, OnSuccess(c) PROVE BreakerInv'
  BY <1>1, <1>5 DEF OnSuccess
<1>6. ASSUME NEW c \in Callers, OnFailure(c) PROVE BreakerInv'
  <2>1. CASE consecutiveFailures + 1 >= FailureThreshold
    BY <1>1, <1>6, <2>1 DEF OnFailure
  <2>2. CASE consecutiveFailures + 1 < FailureThreshold
    <3>1. state = "closed"
      BY <1>1, <2>2
    <3> QED
      BY <1>1, <1>6, <2>2, <3>1 DEF OnFailure
  <2> QED
    BY <1>1, <2>1, <2>2
<1>7. ASSUME NEW c \in Callers, Abandon(c) PROVE BreakerInv'
  BY <1>7 DEF Abandon
<1>8. CASE UNCHANGED vars
  BY <1>8 DEF vars
<1> QED
  BY <1>2, <1>3, <1>4, <1>5, <1>6, <1>7, <1>8 DEF Next, Reject

(* The invariant of every behaviour.                                       *)
THEOREM BreakerInvariant == Spec => []BreakerInv
<1>1. Init => BreakerInv
  BY DEF Init, BreakerInv, CountMatchesState, StampIsLastFailure, HalfOpenIsRested
<1> QED
  BY <1>1, TypeCorrect, BreakerInductive, PTL DEF Spec

(* The counter and the state agree: a closed breaker has not reached its   *)
(* threshold, and one that has tripped stays at or above it.               *)
THEOREM CountAgrees == Spec => []CountMatchesState
<1>1. BreakerInv => CountMatchesState
  BY DEF BreakerInv
<1> QED
  BY <1>1, BreakerInvariant, PTL

(* The timestamp of a tripped breaker is that of the most recent failure.  *)
THEOREM StampAgrees == Spec => []StampIsLastFailure
<1>1. BreakerInv => StampIsLastFailure
  BY DEF BreakerInv
<1> QED
  BY <1>1, BreakerInvariant, PTL

(* Whoever made the breaker half-open, and whatever failures arrived since, *)
(* its cooldown has passed.                                                *)
THEOREM HalfOpenRests == Spec => []HalfOpenIsRested
<1>1. BreakerInv => HalfOpenIsRested
  BY DEF BreakerInv
<1> QED
  BY <1>1, BreakerInvariant, PTL

(* No call passes a tripped breaker within a cooldown of the most recent   *)
(* failure.                                                                *)
THEOREM AdmitsAfterQuiet == Spec => QuietBeforeProbe
<1> DEFINE Quiet == \A c \in Callers :
                      c \in inFlight' \ inFlight /\ state # "closed"
                        => clock - lastFailure >= Cooldown
<1>1. TypeOK /\ BreakerInv /\ [Next]_vars => [Quiet]_vars
  <2> SUFFICES ASSUME TypeOK, BreakerInv, Next,
                      NEW d \in Callers, d \in inFlight' \ inFlight, state # "closed"
               PROVE  clock - lastFailure >= Cooldown
    OBVIOUS
  <2>1. PICK c \in Callers : Admit(c)
    BY DEF Next, Tick, PollState, Reject, OnSuccess, OnFailure, Abandon, vars
  <2>2. LogicalState # "open"
    BY <2>1 DEF Admit
  <2>3. clock - openedAt >= Cooldown
    BY <2>2 DEF LogicalState, TypeOK, BreakerState, BreakerInv, HalfOpenIsRested
  <2> QED
    BY <2>3 DEF BreakerInv, StampIsLastFailure
<1> QED
  BY <1>1, TypeCorrect, BreakerInvariant, PTL DEF Spec, QuietBeforeProbe
=============================================================================
