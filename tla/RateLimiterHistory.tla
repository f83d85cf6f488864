------------------------- MODULE RateLimiterHistory -------------------------
(***************************************************************************)
(* The rate limiter with its callers, and what an observer records: the    *)
(* last answer, and the tokens granted since an instant of the observer's  *)
(* choice.  The observer's variables never influence the limiter.          *)
(***************************************************************************)
EXTENDS RateLimiter

VARIABLES
  reply,       \* what the last try_acquire_n returned, and for which n
  winStart,    \* the instant the observer started to count
  winGranted   \* the tokens granted since then

vars == <<clock, tokens, lastRefill, reply, winStart, winGranted>>

Ideal == INSTANCE TokenBucket
           WITH time <- clock, level <- Refilled, answer <- reply

Init ==
  /\ LimiterInit
  /\ reply = Ideal!NoAnswer
  /\ winStart = 0
  /\ winGranted = 0

Acquire(n) ==
  \/ /\ Grant(n)
     /\ reply' = [n |-> n, allowed |-> TRUE]
     /\ winGranted' = winGranted + n
     /\ UNCHANGED winStart
  \/ /\ Throttle(n)
     /\ reply' = [n |-> n, allowed |-> FALSE]
     /\ UNCHANGED <<winStart, winGranted>>

Advance == Tick /\ UNCHANGED <<reply, winStart, winGranted>>

\* The observer starts a new window, at any instant.
OpenWindow ==
  /\ winStart' = clock
  /\ winGranted' = 0
  /\ UNCHANGED <<clock, tokens, lastRefill, reply>>

Next == Advance \/ OpenWindow \/ \E n \in Costs : Acquire(n)

Spec == Init /\ [][Next]_vars

-----------------------------------------------------------------------------
TypeOK ==
  /\ LimiterTypeOK
  /\ reply \in [n : Nat, allowed : BOOLEAN]
  /\ winStart \in 0 .. clock
  /\ winGranted \in Nat

(***************************************************************************)
(* In every interval of time the limiter grants at most one full bucket    *)
(* plus what accrued during the interval: the calls of rate_limit.rs that  *)
(* refill lazily never credit the same instant twice, whichever calls,     *)
(* refused ones included, fall in between.                                 *)
(***************************************************************************)
WindowBound ==
  winGranted <= Capacity + (clock - winStart) * RefillPerTick

(***************************************************************************)
(* The strengthening that is inductive: the tokens granted in the window   *)
(* and those still in the bucket have the budget of the window in common.  *)
(* A window opened after the last call has granted nothing yet.            *)
(***************************************************************************)
WindowInv ==
  IF lastRefill >= winStart
  THEN winGranted + tokens <= Capacity + (lastRefill - winStart) * RefillPerTick
  ELSE winGranted = 0

(***************************************************************************)
(* The lazily refilled bucket answers every call exactly as the ideal      *)
(* bucket does, whose level rises with every tick: a refused call does not *)
(* lose the credit of the time before it, an idle bucket does not grow     *)
(* past its capacity.                                                      *)
(***************************************************************************)
ImplementsTokenBucket == Ideal!Spec
=============================================================================
