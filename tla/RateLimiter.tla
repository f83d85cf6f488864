----------------------------- MODULE RateLimiter -----------------------------
(***************************************************************************)
(* The token bucket of crates/reranklab-resilience/src/rate_limit.rs.      *)
(*                                                                         *)
(* The bucket refills lazily: nothing happens while time passes, and a     *)
(* call to try_acquire_n first credits the time since the previous call,   *)
(* clamps the level at the capacity and then decides.  The mutex is held   *)
(* over the whole call, the clock reading included, so that a call is one  *)
(* atomic step whatever thread makes it.                                   *)
(*                                                                         *)
(* Token amounts and clock readings are integers: a token unit is the      *)
(* smallest amount the configuration distinguishes, a tick the smallest    *)
(* interval the clock does.  Rounding of f64 is not modelled.              *)
(***************************************************************************)
EXTENDS Integers

CONSTANTS
  Capacity,       \* most tokens the bucket may hold
  RefillPerTick,  \* tokens that accrue in one tick (refill_per_sec)
  Costs,          \* the amounts n that callers ask for
  MaxTime         \* bound of the model: the last clock reading

ASSUME LimiterAssumption ==
  /\ Capacity \in Nat
  /\ RefillPerTick \in Nat
  /\ Costs \subseteq Nat
  /\ MaxTime \in Nat

VARIABLES
  clock,       \* the Clock the limiter was built with
  tokens,      \* Bucket.tokens
  lastRefill   \* Bucket.last_refill

limiterVars == <<clock, tokens, lastRefill>>

LimiterTypeOK ==
  /\ clock \in 0 .. MaxTime
  /\ tokens \in 0 .. Capacity
  /\ lastRefill \in 0 .. clock

LimiterInit ==
  /\ clock = 0
  /\ tokens = Capacity
  /\ lastRefill = clock

Lesser(a, b) == IF a <= b THEN a ELSE b

\* Duration::saturating_sub
SaturatingSub(a, b) == IF a >= b THEN a - b ELSE 0

\* Broken variant: the refill is not clamped at the capacity.
RefilledUnclamped == tokens + SaturatingSub(clock, lastRefill) * RefillPerTick

\* The level once the time since the last call has been credited.
Refilled ==
  Lesser(tokens + SaturatingSub(clock, lastRefill) * RefillPerTick, Capacity)

\* Broken variant: a granted call credits the elapsed time but forgets to
\* move the timestamp, so that the next call credits it again.
GrantKeepsStamp(n) ==
  /\ Refilled >= n
  /\ tokens' = Refilled - n
  /\ UNCHANGED <<clock, lastRefill>>

\* try_acquire_n(n) that returns true.
Grant(n) ==
  /\ Refilled >= n
  /\ tokens' = Refilled - n
  /\ lastRefill' = clock
  /\ UNCHANGED clock

\* Broken variant: the same oversight on the refused path.
ThrottleKeepsStamp(n) ==
  /\ Refilled < n
  /\ tokens' = Refilled
  /\ UNCHANGED <<clock, lastRefill>>

\* Broken variant: a refused call moves the timestamp and loses the credit.
ThrottleLosesCredit(n) ==
  /\ Refilled < n
  /\ lastRefill' = clock
  /\ UNCHANGED <<clock, tokens>>

\* try_acquire_n(n) that returns false: it stores the refill all the same.
Throttle(n) ==
  /\ Refilled < n
  /\ tokens' = Refilled
  /\ lastRefill' = clock
  /\ UNCHANGED clock

\* Time passes: SystemClock is monotonic, ManualClock only advances.
Tick ==
  /\ clock < MaxTime
  /\ clock' = clock + 1
  /\ UNCHANGED <<tokens, lastRefill>>
=============================================================================
