-------------------------- MODULE RateLimiterProofs --------------------------
(***************************************************************************)
(* The rate limiter, for every capacity, refill rate, set of costs and     *)
(* length of the run.                                                      *)
(***************************************************************************)
EXTENDS RateLimiterHistory, TLAPS

USE LimiterAssumption DEF LimiterAssumption

(* Credit for a time span is a natural number, and credit for two adjacent *)
(* spans adds up.                                                          *)
LEMMA CreditNat ==
  ASSUME NEW a \in Nat
  PROVE  a * RefillPerTick \in Nat
BY SMT

LEMMA CreditAdds ==
  ASSUME NEW a \in Int, NEW b \in Int
  PROVE  (a + b) * RefillPerTick = a * RefillPerTick + b * RefillPerTick
BY SMT

(* What a call of try_acquire_n finds in the bucket, given the type        *)
(* invariant: between the stored level and the capacity.                   *)
LEMMA RefilledBounds ==
  ASSUME LimiterTypeOK
  PROVE  /\ Refilled \in 0 .. Capacity
         /\ tokens <= Refilled
         /\ Refilled <= tokens + (clock - lastRefill) * RefillPerTick
<1>1. clock - lastRefill \in Nat /\ SaturatingSub(clock, lastRefill) = clock - lastRefill
  BY DEF LimiterTypeOK, SaturatingSub
<1>2. (clock - lastRefill) * RefillPerTick \in Nat
  BY <1>1, CreditNat
<1> DEFINE credit == (clock - lastRefill) * RefillPerTick
<1>3. Refilled = Lesser(tokens + credit, Capacity)
  BY <1>1 DEF Refilled
<1> QED
  BY <1>2, <1>3 DEF LimiterTypeOK, Lesser

(* Type correctness: in particular the level of the bucket stays between 0 *)
(* and the capacity, and the timestamp never runs ahead of the clock.      *)
THEOREM TypeCorrect == Spec => []TypeOK
<1>1. Init => TypeOK
  BY DEF Init, LimiterInit, TypeOK, LimiterTypeOK, Ideal!NoAnswer
<1>2. TypeOK /\ [Next]_vars => TypeOK'
  <2> SUFFICES ASSUME TypeOK, [Next]_vars PROVE TypeOK'
    OBVIOUS
  <2>1. Refilled \in 0 .. Capacity
    BY RefilledBounds DEF TypeOK
  <2>2. CASE Advance
    BY <2>2 DEF Advance, Tick, TypeOK, LimiterTypeOK
  <2>3. CASE OpenWindow
    BY <2>3 DEF OpenWindow, TypeOK, LimiterTypeOK
  <2>4. ASSUME NEW n \in Costs, Acquire(n) PROVE TypeOK'
    <3>1. n \in Nat
      OBVIOUS
    <3>2. CASE Grant(n) /\ reply' = [n |-> n, allowed |-> TRUE]
               /\ winGranted' = winGranted + n /\ UNCHANGED winStart
      <4>1. tokens' \in 0 .. Capacity
        BY <2>1, <3>1, <3>2 DEF Grant
      <4> QED
        BY <3>1, <3>2, <4>1 DEF Grant, TypeOK, LimiterTypeOK
    <3>3. CASE Throttle(n) /\ reply' = [n |-> n, allowed |-> FALSE]
               /\ UNCHANGED <<winStart, winGranted>>
      BY <2>1, <3>1, <3>3 DEF Throttle, TypeOK, LimiterTypeOK
    <3> QED
      BY <2>4, <3>2, <3>3 DEF Acquire
  <2>5. CASE UNCHANGED vars
    BY <2>5 DEF vars, TypeOK, LimiterTypeOK
  <2> QED
    BY <2>2, <2>3, <2>4, <2>5 DEF Next
<1> QED
  BY <1>1, <1>2, PTL DEF Spec

(* A call keeps the budget of the window: what it credits is the time since *)
(* the last call, clipped to the window, and what it grants leaves the      *)
(* bucket.                                                                  *)
LEMMA AcquireKeepsWindow ==
  ASSUME TypeOK, WindowInv, NEW n \in Costs, Acquire(n)
  PROVE  WindowInv'
<1> DEFINE budget(t) == (t - winStart) * RefillPerTick
<1>1. /\ n \in Nat /\ winGranted \in Nat /\ tokens \in Nat
      /\ clock \in Nat /\ lastRefill \in Nat /\ winStart \in Nat
      /\ winStart <= clock /\ lastRefill <= clock
  BY DEF TypeOK, LimiterTypeOK
<1>2. /\ Refilled \in 0 .. Capacity
      /\ Refilled <= tokens + (clock - lastRefill) * RefillPerTick
  BY RefilledBounds DEF TypeOK
<1>3. winGranted + Refilled <= Capacity + budget(clock)
  <2>1. CASE lastRefill >= winStart
    <3>1. winGranted + tokens <= Capacity + budget(lastRefill)
      BY <2>1 DEF WindowInv
    <3>2. budget(lastRefill) + (clock - lastRefill) * RefillPerTick = budget(clock)
      <4>1. (lastRefill - winStart) + (clock - lastRefill) = clock - winStart
        BY <1>1
      <4> QED
        BY <1>1, <4>1, CreditAdds
    <3>3. /\ budget(lastRefill) \in Int /\ budget(clock) \in Int
          /\ (clock - lastRefill) * RefillPerTick \in Int
      BY <1>1
    <3> HIDE DEF budget
    <3> QED
      BY <1>1, <1>2, <3>1, <3>2, <3>3
  <2>2. CASE lastRefill < winStart
    <3>1. winGranted = 0
      BY <1>1, <2>2 DEF WindowInv
    <3>2. budget(clock) \in Nat
      BY <1>1, CreditNat
    <3> QED
      BY <1>2, <3>1, <3>2
  <2> QED
    BY <1>1, <2>1, <2>2
<1>4. /\ lastRefill' = clock /\ winStart' = winStart /\ lastRefill' >= winStart'
      /\ winGranted' + tokens' = winGranted + Refilled
  BY <1>1, <1>2 DEF Acquire, Grant, Throttle
<1> QED
  BY <1>3, <1>4 DEF WindowInv

(* What a window was granted and what is left together never exceed the    *)
(* bucket and what was credited since: inductive relative to the types.    *)
THEOREM WindowInductive == Spec => []WindowInv
<1>1. Init => WindowInv
  BY DEF Init, LimiterInit, WindowInv
<1>2. TypeOK /\ WindowInv /\ [Next]_vars => WindowInv'
  <2> SUFFICES ASSUME TypeOK, WindowInv, [Next]_vars PROVE WindowInv'
    OBVIOUS
  <2>1. CASE Advance
    BY <2>1 DEF Advance, Tick, WindowInv
  <2>2. CASE OpenWindow
    <3>1. /\ lastRefill' = lastRefill /\ winStart' = clock
          /\ winGranted' = 0 /\ tokens' = tokens
      BY <2>2 DEF OpenWindow
    <3>2. /\ lastRefill \in Nat /\ clock \in Nat /\ lastRefill <= clock
          /\ tokens \in Nat /\ tokens <= Capacity
      BY DEF TypeOK, LimiterTypeOK
    <3>3. CASE lastRefill = clock
      <4>1. (lastRefill - clock) * RefillPerTick = 0
        BY <3>2, <3>3
      <4> QED
        BY <3>1, <3>2, <4>1 DEF WindowInv
    <3>4. CASE lastRefill < clock
      BY <3>1, <3>2, <3>4 DEF WindowInv
    <3> QED
      BY <3>2, <3>3, <3>4
  <2>3. ASSUME NEW n \in Costs, Acquire(n) PROVE WindowInv'
    BY <2>3, AcquireKeepsWindow
  <2>4. CASE UNCHANGED vars
    BY <2>4 DEF vars, WindowInv
  <2> QED
    BY <2>1, <2>2, <2>3, <2>4 DEF Next
<1> QED
  BY <1>1, <1>2, TypeCorrect, PTL DEF Spec

(* The limit itself: in no interval does the limiter grant more than one   *)
(* full bucket plus the refill of that interval.                           *)
THEOREM GrantsAreBounded == Spec => []WindowBound
<1>1. TypeOK /\ WindowInv => WindowBound
  <2> SUFFICES ASSUME TypeOK, WindowInv PROVE WindowBound
    OBVIOUS
  <2>1. /\ winGranted \in Nat /\ tokens \in Nat /\ clock \in Nat
        /\ lastRefill \in Nat /\ winStart \in Nat
        /\ winStart <= clock /\ lastRefill <= clock
    BY DEF TypeOK, LimiterTypeOK
  <2>2. (clock - winStart) * RefillPerTick \in Nat
    BY <2>1, CreditNat
  <2>3. CASE lastRefill >= winStart
    <3>1. (clock - winStart) * RefillPerTick
            = (lastRefill - winStart) * RefillPerTick
              + (clock - lastRefill) * RefillPerTick
      <4>1. clock - winStart = (lastRefill - winStart) + (clock - lastRefill)
        BY <2>1
      <4> QED
        BY <2>1, <4>1, CreditAdds
    <3>2. (clock - lastRefill) * RefillPerTick \in Nat
          /\ (lastRefill - winStart) * RefillPerTick \in Nat
      BY <2>1, <2>3, CreditNat
    <3>3. winGranted + tokens <= Capacity + (lastRefill - winStart) * RefillPerTick
      BY <2>3 DEF WindowInv
    <3> QED
      BY <2>1, <3>1, <3>2, <3>3 DEF WindowBound
  <2>4. CASE lastRefill < winStart
    <3>1. winGranted = 0
      BY <2>1, <2>4 DEF WindowInv
    <3> QED
      BY <2>2, <3>1 DEF WindowBound
  <2> QED
    BY <2>1, <2>3, <2>4
<1> QED
  BY <1>1, TypeCorrect, WindowInductive, PTL

(* What one tick does to the level of the ideal bucket: crediting the      *)
(* longer span at once and clamping it is the same as clamping after every *)
(* tick.                                                                   *)
LEMMA TickRaisesLevel ==
  ASSUME LimiterTypeOK, Tick
  PROVE  Refilled' = Ideal!Rise
<1> DEFINE credit == (clock - lastRefill) * RefillPerTick
<1>1. /\ clock \in Nat /\ lastRefill \in Nat /\ lastRefill <= clock /\ tokens \in Nat
      /\ clock' = clock + 1 /\ lastRefill' = lastRefill /\ tokens' = tokens
  BY DEF LimiterTypeOK, Tick
<1>2. ((clock + 1) - lastRefill) * RefillPerTick = credit + RefillPerTick
  <2>1. (clock + 1) - lastRefill = (clock - lastRefill) + 1
    BY <1>1
  <2>2. ((clock - lastRefill) + 1) * RefillPerTick = credit + 1 * RefillPerTick
    BY <1>1, CreditAdds
  <2> QED
    BY <2>1, <2>2
<1>3. credit \in Nat
  BY <1>1, CreditNat
<1>4. Refilled = Lesser(tokens + credit, Capacity)
  BY <1>1 DEF Refilled, SaturatingSub
<1>5. Refilled' = Lesser(tokens + ((clock + 1) - lastRefill) * RefillPerTick, Capacity)
  BY <1>1 DEF Refilled, SaturatingSub, Lesser
<1> HIDE DEF credit
<1>6. Refilled' = Lesser(tokens + (credit + RefillPerTick), Capacity)
  BY <1>2, <1>5
<1> QED
  BY <1>1, <1>3, <1>4, <1>6 DEF Lesser, Ideal!Rise

(* Right after a call the bucket holds what the call stored.               *)
LEMMA CallStoresLevel ==
  ASSUME LimiterTypeOK, NEW level \in 0 .. Capacity,
         lastRefill' = clock, clock' = clock, tokens' = level
  PROVE  Refilled' = level
<1>1. (clock - clock) * RefillPerTick = 0
  <2>1. clock - clock = 0
    BY DEF LimiterTypeOK
  <2> QED
    BY <2>1
<1>2. Refilled' = Lesser(level + (clock - clock) * RefillPerTick, Capacity)
  BY DEF LimiterTypeOK, Refilled, SaturatingSub, Lesser
<1> QED
  BY <1>1, <1>2 DEF Lesser

(* The code implements the ideal bucket: same answers, in the same order,  *)
(* at the same times.                                                      *)
THEOREM ImplementsIdealBucket == Spec => ImplementsTokenBucket
<1>1. Init => Ideal!Init
  <2> SUFFICES ASSUME Init PROVE Ideal!Init
    OBVIOUS
  <2>1. clock = 0 /\ lastRefill = 0 /\ tokens = Capacity
    BY DEF Init, LimiterInit
  <2>2. Refilled = Capacity
    BY <2>1 DEF Refilled, SaturatingSub, Lesser
  <2> QED
    BY <2>1, <2>2 DEF Init, Ideal!Init
<1>2. TypeOK /\ [Next]_vars => [Ideal!Next]_(Ideal!bucketVars)
  <2> SUFFICES ASSUME TypeOK, [Next]_vars
               PROVE  [Ideal!Next]_(Ideal!bucketVars)
    OBVIOUS
  <2>1. Refilled \in 0 .. Capacity
    BY RefilledBounds DEF TypeOK
  <2>2. CASE Advance
    <3>1. Refilled' = Ideal!Rise
      BY <2>2, TickRaisesLevel DEF Advance, TypeOK
    <3> QED
      BY <2>2, <3>1 DEF Advance, Tick, Ideal!Drip, Ideal!Next
  <2>3. CASE OpenWindow
    BY <2>3 DEF OpenWindow, Refilled, SaturatingSub, Lesser, Ideal!bucketVars
  <2>4. ASSUME NEW n \in Costs, Acquire(n) PROVE Ideal!Next
    <3>1. n \in Nat
      OBVIOUS
    <3>2. CASE Grant(n) /\ reply' = [n |-> n, allowed |-> TRUE]
      <4>1. Refilled - n \in 0 .. Capacity
        BY <2>1, <3>1, <3>2 DEF Grant
      <4>2. Refilled' = Refilled - n
        BY <3>2, <4>1, CallStoresLevel DEF Grant, TypeOK
      <4> QED
        BY <3>2, <4>2 DEF Grant, Ideal!Yes, Ideal!Next
    <3>3. CASE Throttle(n) /\ reply' = [n |-> n, allowed |-> FALSE]
      <4>1. Refilled' = Refilled
        BY <2>1, <3>3, CallStoresLevel DEF Throttle, TypeOK
      <4> QED
        BY <3>3, <4>1 DEF Throttle, Ideal!No, Ideal!Next
    <3> QED
      BY <2>4, <3>2, <3>3 DEF Acquire
  <2>5. CASE UNCHANGED vars
    BY <2>5 DEF vars, Refilled, SaturatingSub, Lesser, Ideal!bucketVars
  <2> QED
    BY <2>2, <2>3, <2>4, <2>5 DEF Next
<1> QED
  BY <1>1, <1>2, TypeCorrect, PTL DEF Spec, ImplementsTokenBucket, Ideal!Spec
=============================================================================
