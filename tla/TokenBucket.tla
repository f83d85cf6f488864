----------------------------- MODULE TokenBucket -----------------------------
(***************************************************************************)
(* What the rate limiter promises: a bucket whose level rises with every   *)
(* tick until it is full, and that answers a request for n tokens with yes *)
(* exactly when it holds n of them.  No lazy refill, no stored timestamp.  *)
(***************************************************************************)
EXTENDS Integers

CONSTANTS Capacity, RefillPerTick, Costs, MaxTime

VARIABLES
  time,    \* the time that has passed
  level,   \* the tokens in the bucket
  answer   \* the last answer given, with the amount that was asked for

bucketVars == <<time, level, answer>>

NoAnswer == [n |-> 0, allowed |-> FALSE]

Rise == IF level + RefillPerTick <= Capacity THEN level + RefillPerTick ELSE Capacity

Init ==
  /\ time = 0
  /\ level = Capacity
  /\ answer = NoAnswer

Drip ==
  /\ time < MaxTime
  /\ time' = time + 1
  /\ level' = Rise
  /\ UNCHANGED answer

Yes(n) ==
  /\ level >= n
  /\ level' = level - n
  /\ answer' = [n |-> n, allowed |-> TRUE]
  /\ UNCHANGED time

No(n) ==
  /\ level < n
  /\ answer' = [n |-> n, allowed |-> FALSE]
  /\ UNCHANGED <<time, level>>

Next == Drip \/ \E n \in Costs : Yes(n) \/ No(n)

Spec == Init /\ [][Next]_bucketVars
=============================================================================
