---------------------------- MODULE EventBusProofs ----------------------------
(***************************************************************************)
(* The event bus, for every number of slots, of subscribers and of events. *)
(***************************************************************************)
EXTENDS EventBusHistory, TLAPS

USE BusAssumption, HistoryAssumption DEF BusAssumption, HistoryAssumption

LEMMA SeqGrows ==
  ASSUME NEW S, NEW T, S \subseteq T, NEW q \in Seq(S)
  PROVE  q \in Seq(T)
OBVIOUS

(* A publication: the log keeps its events, and every position of it       *)
(* remains one.                                                            *)
LEMMA SendKeepsTypes == TypeOK /\ Send => TypeOK' /\ Len(log) <= Len(log')
<1> SUFFICES ASSUME TypeOK, Send PROVE TypeOK' /\ Len(log) <= Len(log')
  OBVIOUS
<1>1. published' \in 0 .. MaxEvents /\ published' = published + 1 /\ published \in Nat
  BY DEF TypeOK, Send
<1>2. log' \in Seq(1 .. published') /\ Len(log) <= Len(log')
  <2>1. log \in Seq(1 .. published')
    BY <1>1, SeqGrows DEF TypeOK
  <2>2. CASE log' = log
    BY <2>1, <2>2
  <2>3. CASE log' = Append(log, published + 1)
    BY <1>1, <2>1, <2>3
  <2> QED
    BY <2>2, <2>3 DEF Send, Publish
<1>3. Len(log) \in Nat /\ Len(log') \in Nat
  BY <1>2 DEF TypeOK
<1>4. 0 .. Len(log) \subseteq 0 .. Len(log') /\ 1 .. Len(log) \subseteq 1 .. Len(log')
  BY <1>2, <1>3
<1>5. got' \in [Subscribers -> Seq(1 .. Len(log'))]
  BY <1>4, SeqGrows DEF TypeOK, Send, Publish
<1>6. /\ joined' \in [Subscribers -> (0 .. Len(log')) \union {NoStream}]
      /\ next' \in [Subscribers -> 0 .. Len(log')]
  BY <1>4 DEF TypeOK, Send, Publish
<1> QED
  BY <1>1, <1>2, <1>5, <1>6 DEF TypeOK

(* Positions, the history of what was yielded included, stay within the    *)
(* log.                                                                    *)
THEOREM TypeCorrect == Spec => []TypeOK
<1>1. Init => TypeOK
  BY DEF Init, BusInit, TypeOK
<1>2. TypeOK /\ [Next]_vars => TypeOK'
  <2> SUFFICES ASSUME TypeOK, [Next]_vars PROVE TypeOK'
    OBVIOUS
  <2> USE DEF TypeOK
  <2>1. Len(log) \in Nat
    OBVIOUS
  <2>2. CASE Send
    BY <2>2, SendKeepsTypes
  <2>3. ASSUME NEW s \in Subscribers, Deliver(s), UNCHANGED published PROVE TypeOK'
    <3>1. next[s] \in Nat /\ next[s] + 1 \in 1 .. Len(log)
      BY <2>1, <2>3 DEF Deliver
    <3>2. Append(got[s], next[s] + 1) \in Seq(1 .. Len(log))
      BY <3>1
    <3> QED
      BY <2>1, <2>3, <3>1, <3>2 DEF Deliver
  <2>4. ASSUME NEW s \in Subscribers, Lag(s), UNCHANGED published PROVE TypeOK'
    <3>1. Len(log) - Slots \in 0 .. Len(log)
      BY <2>1, <2>4 DEF Lag, Overrun
    <3> QED
      BY <2>4, <3>1 DEF Lag
  <2>5. ASSUME NEW s \in Subscribers, Subscribe(s), UNCHANGED published PROVE TypeOK'
    BY <2>1, <2>5 DEF Subscribe
  <2>6. ASSUME NEW s \in Subscribers, Unsubscribe(s), UNCHANGED published PROVE TypeOK'
    BY <2>1, <2>6 DEF Unsubscribe
  <2>7. CASE UNCHANGED vars
    BY <2>7 DEF vars, busVars
  <2> QED
    BY <2>2, <2>3, <2>4, <2>5, <2>6, <2>7 DEF Next, Read, ComeOrGo
<1> QED
  BY <1>1, <1>2, PTL DEF Spec

-----------------------------------------------------------------------------
(* What a stream has yielded, as an invariant of one stream.               *)

Yields(s) == {got[s][j] : j \in DOMAIN got[s]}

InOrder(s) ==
  /\ joined[s] <= next[s]
  /\ \A i \in DOMAIN got[s] :
       /\ got[s][i] > joined[s] /\ got[s][i] <= next[s]
       /\ i > 1 => got[s][i - 1] < got[s][i]

NoGap(s) == \A i \in joined[s] + 1 .. next[s] : i \in Yields(s) \/ i + Slots <= Len(log)

StreamInv == \A s \in Active : InOrder(s) /\ NoGap(s)

(* A step that leaves a stream alone keeps what holds of it, also as the   *)
(* log grows.                                                              *)
LEMMA OthersKeep ==
  ASSUME TypeOK, TypeOK', NEW s \in Active, InOrder(s), NoGap(s),
         joined'[s] = joined[s], next'[s] = next[s], got'[s] = got[s],
         Len(log) <= Len(log')
  PROVE  InOrder(s)' /\ NoGap(s)'
<1>1. s \in Subscribers /\ joined[s] \in Nat /\ next[s] \in Nat
  BY DEF Active, TypeOK
<1>2. InOrder(s)'
  BY DEF InOrder
<1>3. Len(log) \in Nat /\ Len(log') \in Nat
  BY DEF TypeOK
<1>4. NoGap(s)'
  BY <1>1, <1>3 DEF NoGap, Yields
<1> QED
  BY <1>2, <1>4

(* The next event in line extends the sequence without a gap.              *)
LEMMA DeliverExtends ==
  ASSUME TypeOK, NEW s \in Active, InOrder(s), NoGap(s), Deliver(s)
  PROVE  InOrder(s)' /\ NoGap(s)'
<1>1. /\ s \in Subscribers
      /\ joined[s] \in Nat /\ next[s] \in Nat /\ Len(log) \in Nat
      /\ got[s] \in Seq(1 .. Len(log))
  BY DEF Active, TypeOK
<1>2. /\ joined'[s] = joined[s] /\ next'[s] = next[s] + 1 /\ log' = log
      /\ got'[s] = Append(got[s], next[s] + 1)
  BY <1>1 DEF Deliver, TypeOK
<1>3. DOMAIN got'[s] = 1 .. Len(got[s]) + 1 /\ Len(got[s]) \in Nat
      /\ DOMAIN got[s] = 1 .. Len(got[s])
  BY <1>1, <1>2
<1>4. got'[s][Len(got[s]) + 1] = next[s] + 1
      /\ \A i \in DOMAIN got[s] : got'[s][i] = got[s][i] /\ got[s][i] \in Nat
  BY <1>1, <1>2, <1>3
<1>5. InOrder(s)'
  <2>1. joined'[s] <= next'[s]
    BY <1>1, <1>2 DEF InOrder
  <2>2. ASSUME NEW i \in DOMAIN got'[s]
        PROVE  /\ got'[s][i] > joined'[s] /\ got'[s][i] <= next'[s]
               /\ i > 1 => got'[s][i - 1] < got'[s][i]
    <3>1. CASE i \in DOMAIN got[s]
      <4>1. i > 1 => i - 1 \in DOMAIN got[s]
        BY <1>3, <3>1
      <4> QED
        BY <1>1, <1>2, <1>4, <3>1, <4>1, SMTT(30) DEF InOrder
    <3>2. CASE i = Len(got[s]) + 1
      <4>1. got'[s][i] = next[s] + 1
        BY <1>4, <3>2
      <4>2. ASSUME i > 1
            PROVE  got'[s][i - 1] <= next[s] /\ got'[s][i - 1] \in Nat
        <5>1. i - 1 \in DOMAIN got[s]
          BY <1>3, <3>2, <4>2
        <5> QED
          BY <1>4, <5>1 DEF InOrder
      <4>3. i > 1 => got'[s][i - 1] < next[s] + 1
        BY <1>1, <4>2
      <4>4. joined'[s] < next[s] + 1 /\ next'[s] = next[s] + 1
        BY <1>1, <1>2 DEF InOrder
      <4> QED
        BY <1>1, <1>2, <4>1, <4>3, <4>4, SMTT(30)
    <3> QED
      BY <1>3, <2>2, <3>1, <3>2
  <2> QED
    BY <2>1, <2>2 DEF InOrder
<1>6. NoGap(s)'
  <2>1. Yields(s) \subseteq Yields(s)'
    BY <1>3, <1>4 DEF Yields
  <2>2. next[s] + 1 \in Yields(s)'
    BY <1>3, <1>4 DEF Yields
  <2> QED
    BY <1>1, <1>2, <2>1, <2>2, SMTT(30) DEF NoGap
<1> QED
  BY <1>5, <1>6

(* What a lagging stream skips has been overwritten.                       *)
LEMMA LagSkipsOverwritten ==
  ASSUME TypeOK, NEW s \in Active, InOrder(s), NoGap(s), Lag(s)
  PROVE  InOrder(s)' /\ NoGap(s)'
<1>1. /\ s \in Subscribers
      /\ joined[s] \in Nat /\ next[s] \in Nat /\ Len(log) \in Nat
      /\ \A i \in DOMAIN got[s] : got[s][i] \in Nat
  BY DEF Active, TypeOK
<1>2. /\ joined'[s] = joined[s] /\ next'[s] = Len(log) - Slots /\ log' = log
      /\ got'[s] = got[s] /\ next[s] < Len(log) - Slots
  BY <1>1 DEF Lag, Overrun, TypeOK
<1>3. InOrder(s)'
  <2>1. joined'[s] <= next'[s]
    BY <1>1, <1>2 DEF InOrder
  <2>2. ASSUME NEW i \in DOMAIN got[s] PROVE got[s][i] <= Len(log) - Slots
    <3>1. got[s][i] <= next[s] /\ got[s][i] \in Nat
      BY <1>1 DEF InOrder
    <3> QED
      BY <1>1, <1>2, <3>1
  <2>3. \A i \in DOMAIN got[s] : got[s][i] > joined[s] /\ (i > 1 => got[s][i - 1] < got[s][i])
    BY DEF InOrder
  <2> QED
    BY <1>2, <2>1, <2>2, <2>3 DEF InOrder
<1>4. NoGap(s)'
  BY <1>1, <1>2 DEF NoGap, Yields
<1> QED
  BY <1>3, <1>4

LEMMA StreamInductive == TypeOK /\ TypeOK' /\ StreamInv /\ [Next]_vars => StreamInv'
<1> SUFFICES ASSUME TypeOK, TypeOK', StreamInv, [Next]_vars, NEW t \in Active'
             PROVE  InOrder(t)' /\ NoGap(t)'
  BY DEF StreamInv
<1>1. t \in Subscribers /\ Len(log) \in Nat
  BY DEF Active, TypeOK
<1>2. t \in Active => InOrder(t) /\ NoGap(t)
  BY DEF StreamInv
<1>3. CASE Send
  <2>1. t \in Active /\ UNCHANGED <<joined, next, got>>
    BY <1>3 DEF Send, Publish, Active
  <2> QED
    BY <1>2, <1>3, <2>1, OthersKeep, SendKeepsTypes
<1>4. ASSUME NEW s \in Subscribers, Deliver(s) PROVE InOrder(t)' /\ NoGap(t)'
  <2>1. t \in Active /\ log' = log /\ joined' = joined
    BY <1>4 DEF Deliver, Active
  <2>2. CASE t = s
    BY <1>2, <1>4, <2>1, <2>2, DeliverExtends
  <2>3. CASE t # s
    <3>1. next'[t] = next[t] /\ got'[t] = got[t]
      BY <1>1, <1>4, <2>3 DEF Deliver, TypeOK
    <3> QED
      BY <1>1, <1>2, <2>1, <3>1, OthersKeep
  <2> QED
    BY <2>2, <2>3
<1>5. ASSUME NEW s \in Subscribers, Lag(s) PROVE InOrder(t)' /\ NoGap(t)'
  <2>1. t \in Active /\ log' = log /\ joined' = joined /\ got' = got
    BY <1>5 DEF Lag, Active
  <2>2. CASE t = s
    BY <1>2, <1>5, <2>1, <2>2, LagSkipsOverwritten
  <2>3. CASE t # s
    <3>1. next'[t] = next[t]
      BY <1>1, <1>5, <2>3 DEF Lag, TypeOK
    <3> QED
      BY <1>1, <1>2, <2>1, <3>1, OthersKeep
  <2> QED
    BY <2>2, <2>3
<1>6. ASSUME NEW s \in Subscribers, Subscribe(s) PROVE InOrder(t)' /\ NoGap(t)'
  <2>1. CASE t = s
    <3>1. joined'[t] = Len(log) /\ next'[t] = Len(log) /\ got'[t] = <<>>
      BY <1>1, <1>6, <2>1 DEF Subscribe, TypeOK
    <3> QED
      BY <1>1, <3>1 DEF InOrder, NoGap
  <2>2. CASE t # s
    <3>1. joined'[t] = joined[t] /\ next'[t] = next[t] /\ got'[t] = got[t] /\ log' = log
      BY <1>1, <1>6, <2>2 DEF Subscribe, TypeOK
    <3> QED
      BY <1>1, <1>2, <3>1, OthersKeep DEF Active
  <2> QED
    BY <2>1, <2>2
<1>7. ASSUME NEW s \in Subscribers, Unsubscribe(s) PROVE InOrder(t)' /\ NoGap(t)'
  <2>1. t # s
    BY <1>1, <1>7 DEF Unsubscribe, Active, TypeOK
  <2>2. joined'[t] = joined[t] /\ next'[t] = next[t] /\ got'[t] = got[t] /\ log' = log
    BY <1>1, <1>7, <2>1 DEF Unsubscribe, TypeOK
  <2> QED
    BY <1>1, <1>2, <2>2, OthersKeep DEF Active
<1>8. CASE UNCHANGED vars
  BY <1>1, <1>2, <1>8, OthersKeep DEF vars, busVars, Active
<1> QED
  BY <1>3, <1>4, <1>5, <1>6, <1>7, <1>8 DEF Next, Read, ComeOrGo

(* The invariant of every stream, from its types.                          *)
THEOREM StreamInvariant == Spec => []StreamInv
<1>1. Init => StreamInv
  BY DEF Init, BusInit, StreamInv, Active
<1> QED
  BY <1>1, TypeCorrect, StreamInductive, PTL DEF Spec

(* However far a stream lags, and however often it is reopened, it yields  *)
(* events of its own time, each at most once and in order.                 *)
THEOREM StreamsAreInOrder == Spec => []InOrderSinceJoined
<1>1. StreamInv => InOrderSinceJoined
  BY DEF StreamInv, InOrder, InOrderSinceJoined
<1> QED
  BY <1>1, StreamInvariant, PTL

(* What it passes over without yielding has left the ring.                 *)
THEOREM GapsAreOverwritten == Spec => []GapsOnlyByOverrun
<1>1. StreamInv => GapsOnlyByOverrun
  BY DEF StreamInv, NoGap, Yields, GapsOnlyByOverrun
<1> QED
  BY <1>1, StreamInvariant, PTL
=============================================================================
