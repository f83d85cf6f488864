---------------------------- MODULE CircuitBreaker ----------------------------
(***************************************************************************)
(* The breaker of crates/reranklab-resilience/src/breaker.rs, shared by    *)
(* concurrent callers.  allow, on_success and on_failure each take the     *)
(* mutex for their whole body, so each is one step; the guarded call       *)
(* itself runs between them, with the mutex released.                      *)
(*                                                                         *)
(* Nothing ties an outcome to the admission it belongs to: a call admitted *)
(* before a trip may report after it.  A caller may also be dropped        *)
(* without reporting (a cancelled future).                                 *)
(*                                                                         *)
(* Nothing in the workspace calls the breaker yet: EVALUATION.md offers it *)
(* for the model boundary.  The callers are therefore the protocol its     *)
(* public methods are documented for: ask allow, call, report the outcome. *)
(***************************************************************************)
EXTENDS Integers

CONSTANTS
  Callers,           \* the tasks that share the breaker
  FailureThreshold,  \* BreakerConfig.failure_threshold
  Cooldown,          \* BreakerConfig.cooldown, in ticks
  MaxTime            \* bound of the model: the last clock reading

ASSUME BreakerAssumption ==
  /\ FailureThreshold \in Nat
  /\ Cooldown \in Nat
  /\ MaxTime \in Nat

VARIABLES
  clock,                \* the breaker's Clock
  state,                \* Inner.state
  consecutiveFailures,  \* Inner.consecutive_failures
  openedAt,             \* Inner.opened_at
  inFlight,             \* the callers whose admitted call has not ended
  probes,               \* those of them admitted in the half-open state
  lastFailure           \* history: when the last failure was recorded, or -1

vars == <<clock, state, consecutiveFailures, openedAt, inFlight, probes, lastFailure>>

BreakerState == {"closed", "open", "half_open"}

TypeOK ==
  /\ clock \in 0 .. MaxTime
  /\ state \in BreakerState
  /\ consecutiveFailures \in Nat
  /\ openedAt \in 0 .. clock
  /\ inFlight \subseteq Callers
  /\ probes \subseteq inFlight
  /\ lastFailure \in -1 .. clock

Init ==
  /\ clock = 0
  /\ state = "closed"
  /\ consecutiveFailures = 0
  /\ openedAt = 0
  /\ inFlight = {}
  /\ probes = {}
  /\ lastFailure = -1

Tick ==
  /\ clock < MaxTime
  /\ clock' = clock + 1
  /\ UNCHANGED <<state, consecutiveFailures, openedAt, inFlight, probes, lastFailure>>

\* Broken variant: an open breaker does not wait for the cooldown.
LogicalStateNoCooldown == IF state = "open" THEN "half_open" ELSE state

\* What state() returns, and stores: Open turns HalfOpen after the cooldown.
LogicalState ==
  IF state = "open" /\ clock - openedAt >= Cooldown THEN "half_open" ELSE state

\* A look at the breaker, such as for a metrics label.
PollState ==
  /\ state' = LogicalState
  /\ UNCHANGED <<clock, consecutiveFailures, openedAt, inFlight, probes, lastFailure>>

\* allow() that returns true: the call starts.
Admit(c) ==
  /\ c \notin inFlight
  /\ LogicalState # "open"
  /\ state' = LogicalState
  /\ inFlight' = inFlight \union {c}
  /\ probes' = IF state' = "half_open" THEN probes \union {c} ELSE probes
  /\ UNCHANGED <<clock, consecutiveFailures, openedAt, lastFailure>>

\* allow() that returns false: the caller goes without.
Reject(c) ==
  /\ c \notin inFlight
  /\ LogicalState = "open"
  /\ UNCHANGED vars

\* Broken variant: a success closes the breaker and keeps the count.
OnSuccessKeepsCount(c) ==
  /\ c \in inFlight
  /\ state' = "closed"
  /\ inFlight' = inFlight \ {c}
  /\ probes' = probes \ {c}
  /\ UNCHANGED <<clock, consecutiveFailures, openedAt, lastFailure>>

\* on_success()
OnSuccess(c) ==
  /\ c \in inFlight
  /\ consecutiveFailures' = 0
  /\ state' = "closed"
  /\ inFlight' = inFlight \ {c}
  /\ probes' = probes \ {c}
  /\ UNCHANGED <<clock, openedAt, lastFailure>>

\* Broken variant: only the transition out of Closed records the time, so that
\* a failure of a probe or of a straggler does not restart the cooldown.
OnFailureKeepsStamp(c) ==
  /\ c \in inFlight
  /\ consecutiveFailures' = consecutiveFailures + 1
  /\ IF consecutiveFailures' >= FailureThreshold
     THEN state' = "open" /\ openedAt' = IF state = "closed" THEN clock ELSE openedAt
     ELSE UNCHANGED <<state, openedAt>>
  /\ inFlight' = inFlight \ {c}
  /\ probes' = probes \ {c}
  /\ lastFailure' = clock
  /\ UNCHANGED clock

\* Broken variant: opened_at holds the end of the cooldown, not its start.
OnFailureStoresDeadline(c) ==
  /\ c \in inFlight
  /\ consecutiveFailures' = consecutiveFailures + 1
  /\ IF consecutiveFailures' >= FailureThreshold
     THEN state' = "open" /\ openedAt' = clock + Cooldown
     ELSE UNCHANGED <<state, openedAt>>
  /\ inFlight' = inFlight \ {c}
  /\ probes' = probes \ {c}
  /\ lastFailure' = clock
  /\ UNCHANGED clock

\* on_failure().  The counter is a u32; 2^32 failures without a success are
\* out of the model's range.
OnFailure(c) ==
  /\ c \in inFlight
  /\ consecutiveFailures' = consecutiveFailures + 1
  /\ IF consecutiveFailures' >= FailureThreshold
     THEN state' = "open" /\ openedAt' = clock
     ELSE UNCHANGED <<state, openedAt>>
  /\ inFlight' = inFlight \ {c}
  /\ probes' = probes \ {c}
  /\ lastFailure' = clock
  /\ UNCHANGED clock

\* The caller's future is dropped: neither outcome is recorded.
Abandon(c) ==
  /\ c \in inFlight
  /\ inFlight' = inFlight \ {c}
  /\ probes' = probes \ {c}
  /\ UNCHANGED <<clock, state, consecutiveFailures, openedAt, lastFailure>>

Next ==
  \/ Tick
  \/ PollState
  \/ \E c \in Callers :
       Admit(c) \/ Reject(c) \/ OnSuccess(c) \/ OnFailure(c) \/ Abandon(c)

Spec == Init /\ [][Next]_vars

-----------------------------------------------------------------------------
(***************************************************************************)
(* The state and the counter agree whatever the order in which outcomes    *)
(* arrive: a closed breaker has fewer failures than the threshold, and one *)
(* that is open or half-open has reached it, so that a single failed probe *)
(* reopens it.                                                             *)
(***************************************************************************)
CountMatchesState ==
  /\ state = "closed" => consecutiveFailures = 0 \/ consecutiveFailures < FailureThreshold
  /\ state # "closed" => consecutiveFailures >= FailureThreshold

(***************************************************************************)
(* While the breaker is tripped, its timestamp is that of the most recent  *)
(* failure: stragglers that fail late push the cooldown out.               *)
(***************************************************************************)
StampIsLastFailure == state # "closed" => openedAt = lastFailure

(***************************************************************************)
(* The half-open state, which nothing re-examines, is never entered early  *)
(* nor kept across a failure: as long as it lasts, the cooldown counted    *)
(* from the stored timestamp has elapsed.                                  *)
(***************************************************************************)
HalfOpenIsRested == state = "half_open" => clock - openedAt >= Cooldown

(***************************************************************************)
(* Load is let through a tripped breaker only after a quiet period: when a *)
(* call is admitted and no success has closed the breaker, no failure was  *)
(* recorded, by a probe or by a straggler, in the last Cooldown ticks.     *)
(***************************************************************************)
QuietBeforeProbe ==
  [][\A c \in Callers :
       c \in inFlight' \ inFlight /\ state # "closed"
         => clock - lastFailure >= Cooldown]_vars

(***************************************************************************)
(* The documentation of HalfOpen: "A single trial call is allowed to probe *)
(* recovery."  While half-open, at most one admitted probe is in flight.   *)
(***************************************************************************)
SingleTrialCall ==
  state = "half_open" => \A c, d \in probes : c = d
=============================================================================
