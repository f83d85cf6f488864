---------------------------- MODULE LabApiProofs ----------------------------
(***************************************************************************)
(* The orchestrator and the API over it, for every finite set of requests, *)
(* rate limit, reranker and audience.  The first part is about the         *)
(* specification of module RerankService; the second shows that the API    *)
(* runs the service as it is specified, that its resolvers move in step    *)
(* with the service, and that what it answers implements LabFacade.        *)
(***************************************************************************)
EXTENDS LabApi, FiniteSetTheorems, TLAPS

USE LimiterAssumption, ServiceAssumption DEF LimiterAssumption, ServiceAssumption

-----------------------------------------------------------------------------
(* How many requests are in a set of phases.                               *)

LEMMA AtIsNat ==
  ASSUME NEW phases
  PROVE  At(phases) \in Nat /\ At(phases) <= Cardinality(Requests)
BY FS_Subset, FS_CardinalityType DEF At

(* A request that moves leaves the phases it was in and enters those it    *)
(* goes to.                                                                *)
LEMMA MoveCounts ==
  ASSUME pc \in [Requests -> Phases], NEW r \in Requests, NEW from, NEW to, Move(r, from, to),
         NEW phases
  PROVE  At(phases)' = At(phases) + (IF to \in phases THEN 1 ELSE 0)
                                  - (IF from \in phases THEN 1 ELSE 0)
<1> DEFINE old == {q \in Requests : pc[q] \in phases}
           new == {q \in Requests : pc'[q] \in phases}
<1>1. IsFiniteSet(old) /\ Cardinality(old) \in Nat
  BY FS_Subset, FS_CardinalityType
<1>2. pc[r] = from /\ pc' = [pc EXCEPT ![r] = to]
  BY DEF Move
<1>3. At(phases) = Cardinality(old) /\ At(phases)' = Cardinality(new)
  BY DEF At
<1>4. CASE from \in phases /\ to \notin phases
  <2>1. new = old \ {r} /\ r \in old
    BY <1>2, <1>4
  <2> HIDE DEF old, new
  <2>2. Cardinality(new) = Cardinality(old) - 1
    BY <1>1, <2>1, FS_RemoveElement
  <2> QED
    BY <1>1, <1>4, <1>3, <2>2
<1>5. CASE from \notin phases /\ to \in phases
  <2>1. new = old \union {r} /\ r \notin old
    BY <1>2, <1>5
  <2> HIDE DEF old, new
  <2>2. Cardinality(new) = Cardinality(old) + 1
    BY <1>1, <2>1, FS_AddElement
  <2> QED
    BY <1>1, <1>5, <1>3, <2>2
<1>6. CASE (from \in phases) <=> (to \in phases)
  <2>1. new = old
    BY <1>2, <1>6
  <2> HIDE DEF old, new
  <2> QED
    BY <1>1, <1>6, <1>3, <2>1
<1> QED
  BY <1>4, <1>5, <1>6

-----------------------------------------------------------------------------
(* The types, with counters that are numbers.                              *)

Typed ==
  /\ LimiterTypeOK
  /\ reranker \in Rerankers
  /\ pc \in [Requests -> Phases]
  /\ source \in [Requests -> {"none"} \union Sources]
  /\ throttled \in Nat /\ reranked \in Nat /\ byAi \in Nat /\ byHeuristic \in Nat
  /\ published \in Seq(Requests)
  /\ log \in Seq([query : Requests, used_ai : BOOLEAN])

(* A call of the limiter leaves a level within the bucket, of which time   *)
(* has credited no more than it allows.                                    *)
LEMMA RefillIsBounded ==
  ASSUME LimiterTypeOK
  PROVE  /\ Refilled \in 0 .. Capacity
         /\ Refilled + lastRefill * RefillPerTick <= tokens + clock * RefillPerTick
<1>1. /\ clock \in Nat /\ lastRefill \in Nat /\ lastRefill <= clock
      /\ tokens \in Nat /\ tokens <= Capacity
  BY DEF LimiterTypeOK
<1> DEFINE credit == (clock - lastRefill) * RefillPerTick
<1>2. credit \in Nat /\ credit + lastRefill * RefillPerTick = clock * RefillPerTick
  BY <1>1
<1>3. lastRefill * RefillPerTick \in Nat /\ clock * RefillPerTick \in Nat
  BY <1>1
<1>4. Refilled = Lesser(tokens + credit, Capacity)
  BY <1>1 DEF Refilled, SaturatingSub
<1> HIDE DEF credit
<1> QED
  BY <1>1, <1>2, <1>3, <1>4 DEF Lesser

LEMMA CallTyped ==
  ASSUME LimiterTypeOK, Grant(1) \/ Throttle(1)
  PROVE  LimiterTypeOK'
BY RefillIsBounded DEF Grant, Throttle, LimiterTypeOK

(* Every step of a request moves it to another phase.                      *)
LEMMA StepsMove ==
  ASSUME NEW r \in Requests, Admit(r) \/ Refuse(r) \/ Disconnect(r) \/ Step(r)
  PROVE  \E from, to \in Phases : Move(r, from, to)
BY DEF Admit, Refuse, Disconnect, Step, CountThrottled, Ranked, RankFails, CountReranked,
       CountKind, PublishEvent, PublishFails, Phases, InFlight, Ended

LEMMA AppendTyped ==
  ASSUME NEW S, NEW q \in Seq(S), NEW e \in S
  PROVE  Append(q, e) \in Seq(S)
OBVIOUS

LEMMA TypedInductive == Typed /\ [Next]_vars => Typed'
<1> SUFFICES ASSUME Typed, [Next]_vars PROVE Typed'
  OBVIOUS
<1> USE DEF Typed
<1>1. ASSUME NEW r \in Requests, Admit(r) \/ Refuse(r) \/ Disconnect(r) \/ Step(r)
      PROVE  Typed'
  <2>1. pc' \in [Requests -> Phases] /\ reranker' = reranker
    BY <1>1, StepsMove DEF Move
  <2>2. LimiterTypeOK'
    <3>1. Grant(1) \/ Throttle(1) \/ UNCHANGED limiterVars
      BY <1>1 DEF Admit, Refuse, Disconnect, Step, CountThrottled, Ranked, RankFails,
                  CountReranked, CountKind, PublishEvent, PublishFails
    <3> QED
      BY <3>1, CallTyped DEF limiterVars, LimiterTypeOK
  <2>3. source' \in [Requests -> {"none"} \union Sources']
    BY <1>1, <2>1 DEF Admit, Refuse, Disconnect, Step, CountThrottled, Ranked, RankFails,
                      CountReranked, CountKind, PublishEvent, PublishFails, Sources
  <2>4. throttled' \in Nat /\ reranked' \in Nat /\ byAi' \in Nat /\ byHeuristic' \in Nat
    BY <1>1, SMTT(30) DEF Admit, Refuse, Disconnect, Step, CountThrottled, Ranked, RankFails,
                CountReranked, CountKind, PublishEvent, PublishFails, counters
  <2>5. /\ published' \in Seq(Requests)
        /\ log' \in Seq([query : Requests, used_ai : BOOLEAN])
    <3>1. CASE PublishEvent(r)
      <4>1. Event(r) \in [query : Requests, used_ai : BOOLEAN]
        BY DEF Event, UsedAi
      <4>2. log' = log \/ log' = Append(log, Event(r))
        BY <3>1 DEF PublishEvent, Bus!Publish
      <4>3. log' \in Seq([query : Requests, used_ai : BOOLEAN])
        <5> DEFINE E == [query : Requests, used_ai : BOOLEAN]
        <5>1. log \in Seq(E) /\ Event(r) \in E
          BY <4>1
        <5> HIDE DEF E
        <5>2. Append(log, Event(r)) \in Seq(E)
          BY <5>1, AppendTyped
        <5>3. log' \in Seq(E)
          BY <4>2, <5>1, <5>2
        <5> QED
          BY <5>3 DEF E
      <4>4. published' \in Seq(Requests)
        BY <3>1 DEF PublishEvent
      <4> QED
        BY <4>3, <4>4
    <3>2. CASE ~PublishEvent(r)
      BY <1>1, <3>2 DEF Admit, Refuse, Disconnect, Step, CountThrottled, Ranked, RankFails,
                        CountReranked, CountKind, PublishFails, busVars
    <3> QED
      BY <3>1, <3>2
  <2> QED
    BY <2>1, <2>2, <2>3, <2>4, <2>5
<1>2. CASE Advance
  BY <1>2 DEF Advance, Tick, LimiterTypeOK, serviceVars, counters, busVars, Sources
<1>3. ASSUME NEW s \in Subscribers, Client(s) PROVE Typed'
  BY <1>3 DEF Client, Bus!Subscribe, Bus!Unsubscribe, Bus!Deliver, Bus!Lag, limiterVars,
              LimiterTypeOK, serviceVars, counters, Sources
<1>4. CASE UNCHANGED vars
  BY <1>4 DEF vars, limiterVars, LimiterTypeOK, serviceVars, counters, busVars, Sources
<1> QED
  BY <1>1, <1>2, <1>3, <1>4 DEF Next

-----------------------------------------------------------------------------
(* Counters and events tell where requests are: the conjuncts of           *)
(* CountersLeadEvents as each step keeps them.                             *)
Tally ==
  /\ throttled <= At({"refused"})
  /\ reranked - (byAi + byHeuristic) = At({"counted"})
  /\ At({"labelled"}) <= (byAi + byHeuristic) - Len(published)
  /\ reranked - Len(published) <= At({"counted", "labelled", "failed"})
  /\ reranked <= At({"counted", "labelled", "done", "failed"})

LEMMA TallyUnmoved ==
  ASSUME Tally, UNCHANGED <<pc, counters, published>>
  PROVE  Tally'
BY DEF Tally, At, counters

\* What a move from a phase to another adds to the number of requests in some.
Gain(from, to, phases) == (IF to \in phases THEN 1 ELSE 0) - (IF from \in phases THEN 1 ELSE 0)

LEMMA MoveTallies ==
  ASSUME Typed, NEW r \in Requests, NEW from, NEW to, Move(r, from, to)
  PROVE  /\ At({"refused"})' = At({"refused"}) + Gain(from, to, {"refused"})
         /\ At({"counted"})' = At({"counted"}) + Gain(from, to, {"counted"})
         /\ At({"labelled"})' = At({"labelled"}) + Gain(from, to, {"labelled"})
         /\ At({"counted", "labelled", "failed"})' =
              At({"counted", "labelled", "failed"})
                + Gain(from, to, {"counted", "labelled", "failed"})
         /\ At({"counted", "labelled", "done", "failed"})' =
              At({"counted", "labelled", "done", "failed"})
                + Gain(from, to, {"counted", "labelled", "done", "failed"})
<1>1. ASSUME NEW phases PROVE At(phases)' = At(phases) + Gain(from, to, phases)
  <2>1. At(phases)' = At(phases) + (IF to \in phases THEN 1 ELSE 0)
                                 - (IF from \in phases THEN 1 ELSE 0)
    BY MoveCounts DEF Typed
  <2> QED
    BY <2>1, AtIsNat DEF Gain
<1> QED
  BY <1>1

LEMMA TallyInductive == Typed /\ Tally /\ [Next]_vars => Tally'
<1> SUFFICES ASSUME Typed, Tally, [Next]_vars PROVE Tally'
  OBVIOUS
<1>1. /\ throttled \in Nat /\ reranked \in Nat /\ byAi \in Nat /\ byHeuristic \in Nat
      /\ published \in Seq(Requests) /\ Len(published) \in Nat
      /\ At({"refused"}) \in Nat /\ At({"counted"}) \in Nat /\ At({"labelled"}) \in Nat
      /\ At({"counted", "labelled", "failed"}) \in Nat
      /\ At({"counted", "labelled", "done", "failed"}) \in Nat
  BY AtIsNat DEF Typed
<1>2. ASSUME NEW r \in Requests, NEW from, NEW to, Move(r, from, to),
             from \notin {"refused", "counted", "labelled", "done", "failed"},
             to \notin {"refused", "counted", "labelled", "done", "failed"},
             UNCHANGED <<counters, published>>
      PROVE  Tally'
  <2>0. /\ Gain(from, to, {"refused"}) = 0
        /\ Gain(from, to, {"counted"}) = 0
        /\ Gain(from, to, {"labelled"}) = 0
        /\ Gain(from, to, {"counted", "labelled", "failed"}) = 0
        /\ Gain(from, to, {"counted", "labelled", "done", "failed"}) = 0
    BY <1>2 DEF Gain
  <2>1. /\ At({"refused"})' = At({"refused"})
        /\ At({"counted"})' = At({"counted"})
        /\ At({"labelled"})' = At({"labelled"})
        /\ At({"counted", "labelled", "failed"})' = At({"counted", "labelled", "failed"})
        /\ At({"counted", "labelled", "done", "failed"})' =
             At({"counted", "labelled", "done", "failed"})
    BY <1>1, <1>2, <2>0, MoveTallies
  <2> QED
    BY <1>2, <2>1 DEF Tally, counters
<1>3. ASSUME NEW r \in Requests, Admit(r) \/ Refuse(r) \/ Disconnect(r) \/ Ranked(r)
      PROVE  Tally'
  <2>1. CASE Admit(r)
    BY <1>2, <2>1 DEF Admit
  <2>2. CASE Refuse(r)
    BY <1>2, <2>2 DEF Refuse
  <2>3. CASE Disconnect(r)
    BY <1>2, <2>3 DEF Disconnect
  <2>4. CASE Ranked(r)
    BY <1>2, <2>4 DEF Ranked
  <2> QED
    BY <1>3, <2>1, <2>2, <2>3, <2>4
<1>4. ASSUME NEW r \in Requests, CountThrottled(r) PROVE Tally'
  <2>1. Move(r, "throttled", "refused")
    BY <1>4 DEF CountThrottled
  <2>2. /\ Gain("throttled", "refused", {"refused"}) = 1
        /\ Gain("throttled", "refused", {"counted"}) = 0
        /\ Gain("throttled", "refused", {"labelled"}) = 0
        /\ Gain("throttled", "refused", {"counted", "labelled", "failed"}) = 0
        /\ Gain("throttled", "refused", {"counted", "labelled", "done", "failed"}) = 0
    BY DEF Gain
  <2>3. /\ At({"refused"})' = At({"refused"}) + 1
        /\ At({"counted"})' = At({"counted"})
        /\ At({"labelled"})' = At({"labelled"})
        /\ At({"counted", "labelled", "failed"})' = At({"counted", "labelled", "failed"})
        /\ At({"counted", "labelled", "done", "failed"})' =
             At({"counted", "labelled", "done", "failed"})
    BY <1>1, <2>1, <2>2, MoveTallies
  <2> QED
    BY <1>1, <1>4, <2>3 DEF Tally, CountThrottled
<1>5. ASSUME NEW r \in Requests, RankFails(r) PROVE Tally'
  <2>1. Move(r, "ranking", "failed")
    BY <1>5 DEF RankFails
  <2>2. /\ Gain("ranking", "failed", {"refused"}) = 0
        /\ Gain("ranking", "failed", {"counted"}) = 0
        /\ Gain("ranking", "failed", {"labelled"}) = 0
        /\ Gain("ranking", "failed", {"counted", "labelled", "failed"}) = 1
        /\ Gain("ranking", "failed", {"counted", "labelled", "done", "failed"}) = 1
    BY DEF Gain
  <2>3. /\ At({"refused"})' = At({"refused"})
        /\ At({"counted"})' = At({"counted"})
        /\ At({"labelled"})' = At({"labelled"})
        /\ At({"counted", "labelled", "failed"})' = At({"counted", "labelled", "failed"}) + 1
        /\ At({"counted", "labelled", "done", "failed"})' =
             At({"counted", "labelled", "done", "failed"}) + 1
    BY <1>1, <2>1, <2>2, MoveTallies
  <2> QED
    BY <1>1, <1>5, <2>3 DEF Tally, RankFails, counters
<1>6. ASSUME NEW r \in Requests, CountReranked(r) PROVE Tally'
  <2>1. Move(r, "ranked", "counted")
    BY <1>6 DEF CountReranked
  <2>2. /\ Gain("ranked", "counted", {"refused"}) = 0
        /\ Gain("ranked", "counted", {"counted"}) = 1
        /\ Gain("ranked", "counted", {"labelled"}) = 0
        /\ Gain("ranked", "counted", {"counted", "labelled", "failed"}) = 1
        /\ Gain("ranked", "counted", {"counted", "labelled", "done", "failed"}) = 1
    BY DEF Gain
  <2>3. /\ At({"refused"})' = At({"refused"})
        /\ At({"counted"})' = At({"counted"}) + 1
        /\ At({"labelled"})' = At({"labelled"})
        /\ At({"counted", "labelled", "failed"})' = At({"counted", "labelled", "failed"}) + 1
        /\ At({"counted", "labelled", "done", "failed"})' =
             At({"counted", "labelled", "done", "failed"}) + 1
    BY <1>1, <2>1, <2>2, MoveTallies
  <2> QED
    BY <1>1, <1>6, <2>3, SMTT(30) DEF Tally, CountReranked
<1>7. ASSUME NEW r \in Requests, CountKind(r) PROVE Tally'
  <2>1. Move(r, "counted", "labelled")
    BY <1>7 DEF CountKind
  <2>2. /\ Gain("counted", "labelled", {"refused"}) = 0
        /\ Gain("counted", "labelled", {"counted"}) = -1
        /\ Gain("counted", "labelled", {"labelled"}) = 1
        /\ Gain("counted", "labelled", {"counted", "labelled", "failed"}) = 0
        /\ Gain("counted", "labelled", {"counted", "labelled", "done", "failed"}) = 0
    BY DEF Gain
  <2>3. /\ At({"refused"})' = At({"refused"})
        /\ At({"counted"})' = At({"counted"}) - 1
        /\ At({"labelled"})' = At({"labelled"}) + 1
        /\ At({"counted", "labelled", "failed"})' = At({"counted", "labelled", "failed"})
        /\ At({"counted", "labelled", "done", "failed"})' =
             At({"counted", "labelled", "done", "failed"})
    BY <1>1, <2>1, <2>2, MoveTallies
  <2>4. /\ (byAi' = byAi + 1 /\ byHeuristic' = byHeuristic)
              \/ (byAi' = byAi /\ byHeuristic' = byHeuristic + 1)
        /\ reranked' = reranked /\ published' = published /\ throttled' = throttled
    BY <1>7 DEF CountKind
  <2>5. throttled' <= At({"refused"})'
    BY <2>3, <2>4 DEF Tally
  <2>6. reranked' - (byAi' + byHeuristic') = At({"counted"})'
    BY <1>1, <2>3, <2>4, SMTT(30) DEF Tally
  <2>7. At({"labelled"})' <= (byAi' + byHeuristic') - Len(published')
    <3>1. At({"labelled"}) <= (byAi + byHeuristic) - Len(published)
      BY DEF Tally
    <3>2. Len(published') = Len(published)
      BY <2>4
    <3>3. byAi' + byHeuristic' = byAi + byHeuristic + 1
      BY <1>1, <2>4
    <3>4. At({"labelled"}) + 1 <= (byAi + byHeuristic + 1) - Len(published)
      BY <1>1, <3>1
    <3> QED
      BY <2>3, <3>2, <3>3, <3>4
  <2>8. /\ reranked' - Len(published') <= At({"counted", "labelled", "failed"})'
        /\ reranked' <= At({"counted", "labelled", "done", "failed"})'
    BY <2>3, <2>4 DEF Tally
  <2> QED
    BY <2>5, <2>6, <2>7, <2>8 DEF Tally
<1>8. ASSUME NEW r \in Requests, PublishEvent(r) PROVE Tally'
  <2>1. Move(r, "labelled", "done")
    BY <1>8 DEF PublishEvent
  <2>2. /\ Gain("labelled", "done", {"refused"}) = 0
        /\ Gain("labelled", "done", {"counted"}) = 0
        /\ Gain("labelled", "done", {"labelled"}) = -1
        /\ Gain("labelled", "done", {"counted", "labelled", "failed"}) = -1
        /\ Gain("labelled", "done", {"counted", "labelled", "done", "failed"}) = 0
    BY DEF Gain
  <2>3. /\ At({"refused"})' = At({"refused"})
        /\ At({"counted"})' = At({"counted"})
        /\ At({"labelled"})' = At({"labelled"}) - 1
        /\ At({"counted", "labelled", "failed"})' = At({"counted", "labelled", "failed"}) - 1
        /\ At({"counted", "labelled", "done", "failed"})' =
             At({"counted", "labelled", "done", "failed"})
    BY <1>1, <2>1, <2>2, MoveTallies
  <2>4. Len(published') = Len(published) + 1
    BY <1>1, <1>8 DEF PublishEvent
  <2> QED
    BY <1>1, <1>8, <2>3, <2>4, SMTT(30) DEF Tally, PublishEvent, counters
<1>9. ASSUME NEW r \in Requests, PublishFails(r) PROVE Tally'
  <2>1. Move(r, "labelled", "failed")
    BY <1>9 DEF PublishFails
  <2>2. /\ Gain("labelled", "failed", {"refused"}) = 0
        /\ Gain("labelled", "failed", {"counted"}) = 0
        /\ Gain("labelled", "failed", {"labelled"}) = -1
        /\ Gain("labelled", "failed", {"counted", "labelled", "failed"}) = 0
        /\ Gain("labelled", "failed", {"counted", "labelled", "done", "failed"}) = 0
    BY DEF Gain
  <2>3. /\ At({"refused"})' = At({"refused"})
        /\ At({"counted"})' = At({"counted"})
        /\ At({"labelled"})' = At({"labelled"}) - 1
        /\ At({"counted", "labelled", "failed"})' = At({"counted", "labelled", "failed"})
        /\ At({"counted", "labelled", "done", "failed"})' =
             At({"counted", "labelled", "done", "failed"})
    BY <1>1, <2>1, <2>2, MoveTallies
  <2> QED
    BY <1>1, <1>9, <2>3 DEF Tally, PublishFails, counters
<1>10. CASE Advance
  BY <1>10, TallyUnmoved DEF Advance, serviceVars
<1>11. ASSUME NEW s \in Subscribers, Client(s) PROVE Tally'
  BY <1>11, TallyUnmoved DEF Client, serviceVars
<1>12. CASE UNCHANGED vars
  BY <1>12, TallyUnmoved DEF vars, serviceVars
<1> QED
  BY <1>3, <1>4, <1>5, <1>6, <1>7, <1>8, <1>10, <1>11, <1>12, <1>9
     DEF Next, Step

LEMMA TallyImplies ==
  ASSUME Typed, Tally
  PROVE  TypeOK /\ CountersLeadEvents
<1>1. /\ \A phases : At(phases) \in Nat /\ At(phases) <= Cardinality(Requests)
      /\ Cardinality(Requests) \in Nat /\ Len(published) \in Nat
  BY AtIsNat, FS_CardinalityType DEF Typed
<1>2. \A n \in {throttled, reranked, byAi, byHeuristic} : n \in 0 .. Cardinality(Requests)
  <2>1. /\ At({"refused"}) <= Cardinality(Requests)
        /\ At({"counted", "labelled", "done", "failed"}) <= Cardinality(Requests)
        /\ At({"counted"}) \in Nat /\ At({"refused"}) \in Nat
        /\ At({"counted", "labelled", "done", "failed"}) \in Nat
    BY <1>1
  <2> QED
    BY <1>1, <2>1 DEF Typed, Tally
<1>3. TypeOK
  BY <1>2 DEF Typed, TypeOK
<1>4. CountersLeadEvents
  BY <1>1 DEF Typed, Tally, CountersLeadEvents
<1> QED
  BY <1>3, <1>4

-----------------------------------------------------------------------------
(* A token is counted once for every request that was let in.              *)
LEMMA BudgetInductive == Typed /\ AdmissionBudget /\ [Next]_vars => AdmissionBudget'
<1> SUFFICES ASSUME Typed, AdmissionBudget, [Next]_vars PROVE AdmissionBudget'
  OBVIOUS
<1> DEFINE out == {"new", "throttled", "refused"}
<1>1. /\ At(out) \in Nat /\ Cardinality(Requests) \in Nat
      /\ tokens \in Nat /\ clock \in Nat /\ lastRefill \in Nat
      /\ lastRefill * RefillPerTick \in Nat /\ clock * RefillPerTick \in Nat
  <2>1. tokens \in Nat /\ clock \in Nat /\ lastRefill \in Nat
    BY DEF Typed, LimiterTypeOK
  <2>2. lastRefill * RefillPerTick \in Nat /\ clock * RefillPerTick \in Nat
    BY <2>1
  <2> QED
    BY <2>1, <2>2, AtIsNat, FS_CardinalityType
<1>2. Cardinality(Requests) - At(out) + tokens <= Capacity + lastRefill * RefillPerTick
  BY DEF AdmissionBudget
<1>3. Refilled \in Nat
      /\ Refilled + lastRefill * RefillPerTick <= tokens + clock * RefillPerTick
  BY RefillIsBounded DEF Typed
<1>4. ASSUME NEW r \in Requests, NEW from, NEW to, Move(r, from, to)
      PROVE  At(out)' = At(out) + (IF to \in out THEN 1 ELSE 0) - (IF from \in out THEN 1 ELSE 0)
  BY <1>4, MoveCounts DEF Typed
<1>5. AdmissionBudget' <=> Cardinality(Requests) - At(out)' + tokens'
                             <= Capacity + lastRefill' * RefillPerTick
  BY DEF AdmissionBudget
<1> HIDE DEF out
<1>6. ASSUME NEW r \in Requests, Admit(r) PROVE AdmissionBudget'
  <2>1. At(out)' = At(out) - 1
    BY <1>1, <1>4, <1>6 DEF Admit, out
  <2>2. tokens' = Refilled - 1 /\ lastRefill' = clock
    BY <1>6 DEF Admit, Grant
  <2> QED
    BY <1>1, <1>2, <1>3, <1>5, <2>1, <2>2
<1>7. ASSUME NEW r \in Requests, Refuse(r) PROVE AdmissionBudget'
  <2>1. At(out)' = At(out)
    BY <1>1, <1>4, <1>7 DEF Refuse, out
  <2>2. tokens' = Refilled /\ lastRefill' = clock
    BY <1>7 DEF Refuse, Throttle
  <2> QED
    BY <1>1, <1>2, <1>3, <1>5, <2>1, <2>2
<1>8. ASSUME NEW r \in Requests, Disconnect(r) \/ Step(r) PROVE AdmissionBudget'
  <2>1. PICK from, to \in Phases : Move(r, from, to) /\ ((from \in out) <=> (to \in out))
    BY <1>8 DEF Disconnect, Step, CountThrottled, Ranked, RankFails, CountReranked, CountKind,
                PublishEvent, PublishFails, out, Phases, InFlight, Ended
  <2>2. At(out)' = At(out)
    BY <1>1, <1>4, <2>1
  <2>3. tokens' = tokens /\ lastRefill' = lastRefill
    BY <1>8 DEF Disconnect, Step, CountThrottled, Ranked, RankFails, CountReranked, CountKind,
                PublishEvent, PublishFails, limiterVars
  <2> QED
    BY <1>2, <1>5, <2>2, <2>3
<1>9. ASSUME UNCHANGED <<pc, tokens, lastRefill>> PROVE AdmissionBudget'
  BY <1>9 DEF AdmissionBudget, At
<1> QED
  BY <1>6, <1>7, <1>8, <1>9
     DEF Next, Advance, Tick, Client, serviceVars, limiterVars, vars

-----------------------------------------------------------------------------
(* The requests that have returned Ok are those whose event was sent.      *)
SentIsDone == Sent = {r \in Requests : pc[r] = "done"}

LEMMA AppendRange ==
  ASSUME NEW q \in Seq(Requests), NEW r \in Requests
  PROVE  {Append(q, r)[i] : i \in DOMAIN Append(q, r)} = {q[i] : i \in DOMAIN q} \union {r}
<1>1. DOMAIN Append(q, r) = 1 .. Len(q) + 1 /\ DOMAIN q = 1 .. Len(q) /\ Len(q) \in Nat
  OBVIOUS
<1>2. \A i \in DOMAIN q : Append(q, r)[i] = q[i]
  OBVIOUS
<1>3. Append(q, r)[Len(q) + 1] = r
  OBVIOUS
<1> QED
  BY <1>1, <1>2, <1>3

LEMMA PublishSends ==
  ASSUME Typed, NEW r \in Requests, PublishEvent(r)
  PROVE  Sent' = Sent \union {r}
<1>1. published' = Append(published, r) /\ published \in Seq(Requests)
  BY DEF PublishEvent, Typed
<1>2. Sent' = {Append(published, r)[i] : i \in DOMAIN Append(published, r)}
  BY <1>1 DEF Sent
<1>3. {Append(published, r)[i] : i \in DOMAIN Append(published, r)}
        = {published[i] : i \in DOMAIN published} \union {r}
  BY <1>1, AppendRange
<1> QED
  BY <1>2, <1>3 DEF Sent

LEMMA SentInductive == Typed /\ SentIsDone /\ [Next]_vars => SentIsDone'
<1> SUFFICES ASSUME Typed, SentIsDone, [Next]_vars PROVE SentIsDone'
  OBVIOUS
<1>1. ASSUME NEW r \in Requests, PublishEvent(r) PROVE SentIsDone'
  <2>1. pc' = [pc EXCEPT ![r] = "done"] /\ pc \in [Requests -> Phases]
    BY <1>1 DEF PublishEvent, Move, Typed
  <2> QED
    BY <1>1, <2>1, PublishSends DEF SentIsDone
<1>2. ASSUME NEW r \in Requests,
             Admit(r) \/ Refuse(r) \/ Disconnect(r) \/ (Step(r) /\ ~PublishEvent(r))
      PROVE  SentIsDone'
  <2>1. PICK from, to \in Phases : Move(r, from, to) /\ from # "done" /\ to # "done"
    BY <1>2 DEF Admit, Refuse, Disconnect, Step, CountThrottled, Ranked, RankFails,
                CountReranked, CountKind, PublishFails, Phases, InFlight, Ended
  <2>2. published' = published
    BY <1>2 DEF Admit, Refuse, Disconnect, Step, CountThrottled, Ranked, RankFails,
                CountReranked, CountKind, PublishFails
  <2> QED
    BY <2>1, <2>2 DEF Move, Typed, SentIsDone, Sent
<1>3. ASSUME UNCHANGED <<pc, published>> PROVE SentIsDone'
  BY <1>3 DEF SentIsDone, Sent
<1> QED
  BY <1>1, <1>2, <1>3 DEF Next, Step, Advance, Client, serviceVars, vars

-----------------------------------------------------------------------------
ServiceInv == Typed /\ Tally /\ AdmissionBudget /\ SentIsDone

LEMMA ServiceInit == Init => ServiceInv
<1> SUFFICES ASSUME Init PROVE ServiceInv
  OBVIOUS
<1>1. Typed
  BY DEF Init, Typed, LimiterInit, LimiterTypeOK, Bus!BusInit, Phases
<1>2. \A r \in Requests : pc[r] = "new"
  BY DEF Init
<1>3. Tally
  <2>1. \A phases : At(phases) \in Nat
    BY AtIsNat
  <2>2. At({"counted"}) = 0 /\ At({"labelled"}) = 0
    BY <1>2, FS_EmptySet DEF At
  <2> QED
    BY <2>1, <2>2 DEF Init, Tally
<1>4. AdmissionBudget
  <2>1. {r \in Requests : pc[r] \in {"new", "throttled", "refused"}} = Requests
    BY <1>2
  <2>2. At({"new", "throttled", "refused"}) = Cardinality(Requests)
    BY <2>1 DEF At
  <2> QED
    BY <2>2, FS_CardinalityType DEF Init, LimiterInit, AdmissionBudget
<1>5. SentIsDone
  BY <1>2 DEF Init, SentIsDone, Sent
<1> QED
  BY <1>1, <1>3, <1>4, <1>5 DEF ServiceInv

(* The invariant of the service, whoever calls it.                         *)
THEOREM ServiceInvariant == Spec => []ServiceInv
<1>1. ServiceInv /\ [Next]_vars => ServiceInv'
  BY TypedInductive, TallyInductive, BudgetInductive, SentInductive DEF ServiceInv
<1> QED
  BY <1>1, ServiceInit, PTL DEF Spec

(* The counters never exceed the requests there were.                      *)
THEOREM TypeCorrect == Spec => []TypeOK
<1>1. ServiceInv => TypeOK
  BY TallyImplies DEF ServiceInv
<1> QED
  BY <1>1, ServiceInvariant, PTL

(* No failure, cancellation or order of steps gives a token back or lets   *)
(* a request in without one.                                               *)
THEOREM AdmissionsAreBudgeted == Spec => []AdmissionBudget
<1>1. ServiceInv => AdmissionBudget
  BY DEF ServiceInv
<1> QED
  BY <1>1, ServiceInvariant, PTL

(* At every instant between two steps of whatever requests, the counters   *)
(* and the events agree up to the requests on their way.                   *)
THEOREM CountersLead == Spec => []CountersLeadEvents
<1>1. ServiceInv => CountersLeadEvents
  BY TallyImplies DEF ServiceInv
<1> QED
  BY <1>1, ServiceInvariant, PTL

-----------------------------------------------------------------------------
(* The steps of the API are steps of the service or leave it alone.        *)
LEMMA ApiStepsService == [ApiNext]_allVars => [Next]_vars
<1> SUFFICES ASSUME [ApiNext]_allVars PROVE [Next]_vars
  OBVIOUS
<1>1. ASSUME NEW r \in Requests,
             (\E c \in Calls : Receive(r, c)) \/ ResolverStep(r) \/ Vanish(r)
      PROVE  [Next]_vars
  <2>1. CASE Call(r) \/ ServiceStep(r) \/ Vanish(r)
    BY <2>1 DEF Call, ServiceStep, Vanish, Next
  <2>2. CASE ~(Call(r) \/ ServiceStep(r) \/ Vanish(r))
    BY <1>1, <2>2 DEF ResolverStep, Receive, List, ListFails, Return, Judge, JudgeFails
  <2> QED
    BY <2>1, <2>2
<1>2. ASSUME Advance \/ \E s \in Subscribers : Client(s) PROVE [Next]_vars
  BY <1>2 DEF Next
<1>3. CASE UNCHANGED allVars
  BY <1>3 DEF allVars
<1> QED
  BY <1>1, <1>2, <1>3 DEF ApiNext

(* Behind the API the service behaves as module RerankService says, so     *)
(* what holds of it holds here.                                            *)
THEOREM ApiRunsService == ApiSpec => Spec
<1>1. ApiInit => Init
  BY DEF ApiInit
<1> QED
  BY <1>1, ApiStepsService, PTL DEF ApiSpec, Spec

LEMMA ApiService == ApiSpec => []ServiceInv
BY ApiRunsService, ServiceInvariant, PTL

-----------------------------------------------------------------------------
Places == {"none", "listing", "calling", "judging", "over"}

\* InStep for one request.
Stepping(r) ==
  /\ place[r] = "over" <=> answer[r] # "none"
  /\ place[r] = "none" <=> call[r] = NoCall
  /\ place[r] \in {"none", "listing"} => pc[r] = "new"
  /\ place[r] = "judging" => pc[r] = "done" /\ call[r].field = "evaluate"
  /\ place[r] = "over" => pc[r] \in Ended \union {"new"}

ApiTyped ==
  /\ call \in [Requests -> Calls \union {NoCall}]
  /\ place \in [Requests -> Places]
  /\ answer \in [Requests -> {"none"} \union Facade!Answers]

ApiInv == ApiTyped /\ \A r \in Requests : Stepping(r)

LEMMA CallsAreCalls == \A c \in Calls : c # NoCall
BY DEF Calls, Evaluations, Reranks, NoCall

LEMMA ReceiveKeeps ==
  ASSUME Typed, ApiInv, NEW r \in Requests, NEW c \in Calls, Receive(r, c)
  PROVE  ApiInv'
<1>1. /\ place[r] = "none" /\ pc[r] = "new" /\ pc' = pc /\ answer[r] = "none"
      /\ call' = [call EXCEPT ![r] = c]
  BY DEF Receive, vars, serviceVars, ApiInv, ApiTyped, Stepping
<1>2. \/ /\ place' = [place EXCEPT ![r] = "over"]
         /\ answer' = [answer EXCEPT ![r] = "invalid"]
      \/ /\ \E p \in {"listing", "calling"} : place' = [place EXCEPT ![r] = p]
         /\ answer' = answer
  BY DEF Receive
<1>3. ApiTyped'
  BY <1>1, <1>2 DEF ApiInv, ApiTyped, Places, Facade!Answers
<1>4. Stepping(r)'
  BY <1>1, <1>2, CallsAreCalls DEF ApiInv, ApiTyped, Stepping, Ended
<1>5. ASSUME NEW q \in Requests, q # r PROVE Stepping(q)'
  BY <1>1, <1>2, <1>5 DEF ApiInv, ApiTyped, Stepping
<1> QED
  BY <1>3, <1>4, <1>5 DEF ApiInv

(* The service works for a request while its resolver waits for it.        *)
LEMMA WorksWhileCalled ==
  ASSUME ApiInv, NEW r \in Requests, pc[r] \in InFlight
  PROVE  place[r] = "calling" /\ answer[r] = "none"
BY DEF ApiInv, ApiTyped, Stepping, InFlight, Ended, Places

LEMMA ServiceKeeps ==
  ASSUME Typed, ApiInv, NEW r \in Requests, Call(r) \/ ServiceStep(r)
  PROVE  ApiInv'
<1>1. place[r] = "calling" /\ UNCHANGED <<call, place, answer>>
  <2>1. CASE Call(r)
    BY <2>1 DEF Call, apiVars
  <2>2. CASE ServiceStep(r)
    <3>1. pc[r] \in InFlight
      BY <2>2 DEF ServiceStep, Step, CountThrottled, Ranked, RankFails, CountReranked,
                  CountKind, PublishEvent, PublishFails, Move, InFlight
    <3> QED
      BY <2>2, <3>1, WorksWhileCalled DEF ServiceStep, apiVars
  <2> QED
    BY <2>1, <2>2
<1>2. \E to \in Phases : pc' = [pc EXCEPT ![r] = to]
  <2>1. Admit(r) \/ Refuse(r) \/ Disconnect(r) \/ Step(r)
    BY DEF Call, ServiceStep
  <2> QED
    BY <2>1, StepsMove DEF Move
<1> QED
  BY <1>1, <1>2 DEF Typed, ApiInv, ApiTyped, Stepping

LEMMA ResolverKeeps ==
  ASSUME Typed, ApiInv, NEW r \in Requests,
         List(r) \/ ListFails(r) \/ Return(r) \/ Judge(r) \/ JudgeFails(r)
  PROVE  ApiInv'
<1>1. pc' = pc /\ call' = call
  BY DEF List, ListFails, Return, Judge, JudgeFails, Go, Finish, vars, serviceVars
<1>2. \/ /\ place' = [place EXCEPT ![r] = "over"]
         /\ \E a \in Facade!Answers : answer' = [answer EXCEPT ![r] = a]
         /\ place[r] # "none" /\ pc[r] \in Ended \union {"new"}
      \/ /\ place[r] = "listing" /\ answer' = answer
         /\ place' = [place EXCEPT ![r] = "calling"]
      \/ /\ place[r] = "calling" /\ answer' = answer
         /\ pc[r] = "done" /\ call[r].field = "evaluate"
         /\ place' = [place EXCEPT ![r] = "judging"]
  <2>1. CASE List(r)
    BY <2>1 DEF List, Go
  <2>2. CASE ListFails(r)
    BY <2>2 DEF ListFails, Finish, ApiInv, Stepping, Facade!Answers
  <2>3. CASE Return(r)
    BY <2>3 DEF Return, Go, Finish, Facade!Answers, Ended
  <2>4. CASE Judge(r) \/ JudgeFails(r)
    BY <2>4 DEF Judge, JudgeFails, Finish, ApiInv, Stepping, Facade!Answers, Ended
  <2> QED
    BY <2>1, <2>2, <2>3, <2>4
<1>3. ApiTyped'
  BY <1>1, <1>2 DEF ApiInv, ApiTyped, Places
<1>4. Stepping(r)'
  BY <1>1, <1>2 DEF ApiInv, ApiTyped, Stepping, Facade!Answers
<1>5. ASSUME NEW q \in Requests, q # r PROVE Stepping(q)'
  BY <1>1, <1>2, <1>5 DEF ApiInv, ApiTyped, Stepping
<1> QED
  BY <1>3, <1>4, <1>5 DEF ApiInv

LEMMA VanishKeeps ==
  ASSUME Typed, ApiInv, NEW r \in Requests, Vanish(r)
  PROVE  ApiInv'
<1>1. /\ pc' = [pc EXCEPT ![r] = "dropped"] /\ call' = call
      /\ place[r] = "calling" /\ place' = [place EXCEPT ![r] = "over"]
      /\ answer' = [answer EXCEPT ![r] = "gone"]
  BY DEF Vanish, Disconnect, Move, Finish
<1> QED
  BY <1>1 DEF Typed, ApiInv, ApiTyped, Stepping, Places, Facade!Answers, Ended

LEMMA ApiInductive == Typed /\ ApiInv /\ [ApiNext]_allVars => ApiInv'
<1> SUFFICES ASSUME Typed, ApiInv, [ApiNext]_allVars PROVE ApiInv'
  OBVIOUS
<1>1. ASSUME NEW r \in Requests, \E c \in Calls : Receive(r, c) PROVE ApiInv'
  BY <1>1, ReceiveKeeps
<1>2. ASSUME NEW r \in Requests, ResolverStep(r) PROVE ApiInv'
  BY <1>2, ServiceKeeps, ResolverKeeps DEF ResolverStep
<1>3. ASSUME NEW r \in Requests, Vanish(r) PROVE ApiInv'
  BY <1>3, VanishKeeps
<1>4. ASSUME UNCHANGED <<pc, call, place, answer>> PROVE ApiInv'
  BY <1>4 DEF ApiInv, ApiTyped, Stepping
<1>5. CASE Advance /\ UNCHANGED apiVars
  BY <1>4, <1>5 DEF Advance, serviceVars, apiVars
<1>6. ASSUME NEW s \in Subscribers, Client(s), UNCHANGED apiVars PROVE ApiInv'
  BY <1>4, <1>6 DEF Client, serviceVars, apiVars
<1>7. CASE UNCHANGED allVars
  BY <1>4, <1>7 DEF allVars, vars, serviceVars, apiVars
<1> QED
  BY <1>1, <1>2, <1>3, <1>5, <1>6, <1>7 DEF ApiNext

LEMMA ApiInvariant == ApiSpec => []ApiInv
<1>1. ApiInit => ApiInv
  BY DEF ApiInit, Init, ApiInv, ApiTyped, Stepping, Places
<1>2. ServiceInv => Typed
  BY DEF ServiceInv
<1> QED
  BY <1>1, <1>2, ApiService, ApiInductive, PTL DEF ApiSpec

(* Resolvers and the service move in step.                                 *)
THEOREM ApiInStep == ApiSpec => []InStep
<1>1. ApiInv => InStep
  BY DEF ApiInv, ApiTyped, Stepping, InStep, Places
<1> QED
  BY <1>1, ApiInvariant, PTL

-----------------------------------------------------------------------------
(* The refinement: a step of the API charges or announces a request, or    *)
(* answers it, or is nothing a client can tell.                            *)

Charged == {r \in Requests : pc[r] \notin {"new", "throttled", "refused"}}

\* The step Facade!Next allows.
FacadeStep == Facade!Next \/ UNCHANGED <<Charged, Sent, answer>>

LEMMA ReplyIsFacade ==
  ASSUME ApiInv, NEW r \in Requests, NEW a \in Facade!Answers, NEW from, from # "over",
         Finish(r, from, a), UNCHANGED <<Charged, Sent>>, Facade!May(r, a)
  PROVE  Facade!Next
<1>1. answer[r] = "none" /\ answer' = [answer EXCEPT ![r] = a]
  BY DEF Finish, ApiInv, Stepping
<1>2. Facade!Reply(r, a)
  BY <1>1 DEF Facade!Reply, Charged
<1> QED
  BY <1>2 DEF Facade!Next

LEMMA QuietIsFacade ==
  ASSUME UNCHANGED vars PROVE UNCHANGED <<Charged, Sent>>
BY DEF vars, serviceVars, Charged, Sent

LEMMA ReceiveIsFacade ==
  ASSUME ServiceInv, ApiInv, NEW r \in Requests, NEW c \in Calls, Receive(r, c)
  PROVE  FacadeStep
<1>1. place[r] = "none" /\ pc[r] = "new"
  BY DEF Receive, ApiInv, Stepping
<1>2. UNCHANGED <<Charged, Sent>>
  BY QuietIsFacade DEF Receive
<1>3. CASE Invalid(c)
  <2>1. answer[r] = "none" /\ answer' = [answer EXCEPT ![r] = "invalid"]
    BY <1>1, <1>3 DEF Receive, ApiInv, Stepping
  <2>2. Facade!Reply(r, "invalid")
    BY <1>1, <1>2, <2>1 DEF Facade!Reply, Facade!May, Charged
  <2> QED
    BY <2>2 DEF FacadeStep, Facade!Next, Facade!Answers
<1>4. CASE ~Invalid(c)
  BY <1>2, <1>4 DEF Receive, FacadeStep
<1> QED
  BY <1>3, <1>4

LEMMA CallIsFacade ==
  ASSUME ServiceInv, ApiInv, NEW r \in Requests, Call(r)
  PROVE  FacadeStep
<1>1. /\ pc \in [Requests -> Phases] /\ pc[r] = "new" /\ answer' = answer
      /\ answer[r] = "none" /\ Sent' = Sent
  BY DEF Call, Admit, Refuse, Move, apiVars, ServiceInv, Typed, ApiInv, Stepping, Sent
<1>2. CASE Admit(r)
  <2>1. pc' = [pc EXCEPT ![r] = "ranking"]
    BY <1>2 DEF Admit, Move
  <2>2. r \notin Charged /\ Charged' = Charged \union {r}
    BY <1>1, <2>1 DEF Charged
  <2>3. Facade!Charge(r)
    BY <1>1, <2>2 DEF Facade!Charge, Charged
  <2> QED
    BY <2>3 DEF FacadeStep, Facade!Next
<1>3. CASE Refuse(r)
  <2>1. pc' = [pc EXCEPT ![r] = "throttled"]
    BY <1>3 DEF Refuse, Move
  <2>2. Charged' = Charged
    BY <1>1, <2>1 DEF Charged
  <2> QED
    BY <1>1, <2>2 DEF FacadeStep
<1> QED
  BY <1>2, <1>3 DEF Call

LEMMA ServiceIsFacade ==
  ASSUME ServiceInv, ApiInv, NEW r \in Requests, ServiceStep(r)
  PROVE  FacadeStep
<1>1. /\ pc \in [Requests -> Phases] /\ answer' = answer
      /\ Sent = {q \in Requests : pc[q] = "done"}
  BY DEF ServiceStep, apiVars, ServiceInv, Typed, SentIsDone
<1>2. CASE PublishEvent(r)
  <2>1. pc[r] = "labelled" /\ pc' = [pc EXCEPT ![r] = "done"]
    BY <1>2 DEF PublishEvent, Move
  <2>2. answer[r] = "none"
    BY <2>1, WorksWhileCalled DEF InFlight
  <2>3. r \in Charged /\ Charged' = Charged /\ r \notin Sent
    BY <1>1, <2>1 DEF Charged
  <2>4. Sent' = Sent \union {r}
    BY <1>2, PublishSends DEF ServiceInv
  <2>5. Facade!Announce(r)
    BY <1>1, <2>2, <2>3, <2>4 DEF Facade!Announce, Charged
  <2> QED
    BY <2>5 DEF FacadeStep, Facade!Next
<1>3. CASE ~PublishEvent(r)
  <2>1. PICK from, to \in Phases :
           /\ Move(r, from, to)
           /\ from \in {"new", "throttled", "refused"} <=> to \in {"new", "throttled", "refused"}
    BY <1>3 DEF ServiceStep, Step, CountThrottled, Ranked, RankFails, CountReranked, CountKind,
                PublishFails, Phases, InFlight, Ended
  <2>2. Charged' = Charged
    BY <1>1, <2>1 DEF Move, Charged
  <2>3. Sent' = Sent
    BY <1>3 DEF ServiceStep, Step, CountThrottled, Ranked, RankFails, CountReranked, CountKind,
                PublishFails, Sent
  <2> QED
    BY <1>1, <2>2, <2>3 DEF FacadeStep
<1> QED
  BY <1>2, <1>3

LEMMA VanishIsFacade ==
  ASSUME ServiceInv, ApiInv, NEW r \in Requests, Vanish(r)
  PROVE  FacadeStep
<1>1. /\ pc \in [Requests -> Phases]
      /\ pc[r] = "ranking" /\ pc' = [pc EXCEPT ![r] = "dropped"]
      /\ Sent = {q \in Requests : pc[q] = "done"}
  BY DEF Vanish, Disconnect, Move, ServiceInv, Typed, SentIsDone
<1>2. r \in Charged \ Sent /\ Charged' = Charged
  BY <1>1 DEF Charged
<1>3. Sent' = Sent
  BY DEF Vanish, Disconnect, Sent
<1>4. Facade!May(r, "gone")
  BY <1>2 DEF Facade!May, Charged
<1> QED
  BY <1>2, <1>3, <1>4, ReplyIsFacade DEF Vanish, FacadeStep, Facade!Answers

LEMMA ReturnIsFacade ==
  ASSUME ServiceInv, ApiInv, NEW r \in Requests,
         List(r) \/ ListFails(r) \/ Return(r) \/ Judge(r) \/ JudgeFails(r)
  PROVE  FacadeStep
<1>1. UNCHANGED <<Charged, Sent>>
  BY QuietIsFacade DEF List, ListFails, Return, Judge, JudgeFails
<1>2. pc[r] = "done" => r \in Sent
  BY DEF ServiceInv, SentIsDone
<1>3. ASSUME NEW from \in Places \ {"over"}, Finish(r, from, "failed") PROVE Facade!Next
  BY <1>1, <1>3, ReplyIsFacade DEF Facade!May, Facade!Answers
<1>4. ASSUME NEW from \in Places \ {"over"}, NEW a \in {"ok", "zero_cutoff"}, pc[r] = "done",
             Finish(r, from, a)
      PROVE  Facade!Next
  BY <1>1, <1>2, <1>4, ReplyIsFacade DEF Facade!May, Facade!Answers
<1>5. ASSUME pc[r] = "refused", Finish(r, "calling", "throttled") PROVE Facade!Next
  BY <1>1, <1>5, ReplyIsFacade DEF Facade!May, Facade!Answers
<1>6. ASSUME NEW from, NEW to, Go(r, from, to) PROVE FacadeStep
  BY <1>1, <1>6 DEF Go, FacadeStep
<1>7. CASE List(r)
  BY <1>6, <1>7 DEF List
<1>8. CASE ListFails(r) \/ JudgeFails(r)
  BY <1>3, <1>8 DEF ListFails, JudgeFails, Places, FacadeStep
<1>9. CASE Return(r)
  BY <1>3, <1>4, <1>5, <1>6, <1>9 DEF Return, Places, FacadeStep
<1>10. CASE Judge(r)
  <2>1. pc[r] = "done"
    BY <1>10 DEF Judge, Finish, ApiInv, Stepping
  <2> QED
    BY <1>4, <1>10, <2>1 DEF Judge, Places, FacadeStep
<1> QED
  BY <1>7, <1>8, <1>9, <1>10

(* What the API answers implements LabFacade: no answer misleads a client  *)
(* about the token it has spent or the event it has caused.                *)
THEOREM ApiImplementsFacade == ApiSpec => ImplementsFacade
<1>1. ApiInit => Facade!Init
  BY DEF ApiInit, Init, Facade!Init, Sent
<1>2. ServiceInv /\ ApiInv /\ [ApiNext]_allVars => [Facade!Next]_Facade!vars
  <2> SUFFICES ASSUME ServiceInv, ApiInv, [ApiNext]_allVars PROVE FacadeStep
    BY DEF FacadeStep, Facade!vars, Charged
  <2>1. ASSUME NEW r \in Requests, \E c \in Calls : Receive(r, c) PROVE FacadeStep
    BY <2>1, ReceiveIsFacade
  <2>2. ASSUME NEW r \in Requests, ResolverStep(r) PROVE FacadeStep
    BY <2>2, CallIsFacade, ServiceIsFacade, ReturnIsFacade DEF ResolverStep
  <2>3. ASSUME NEW r \in Requests, Vanish(r) PROVE FacadeStep
    BY <2>3, VanishIsFacade
  <2>4. ASSUME UNCHANGED <<pc, published, answer>> PROVE FacadeStep
    BY <2>4 DEF FacadeStep, Charged, Sent
  <2>5. CASE Advance /\ UNCHANGED apiVars
    BY <2>4, <2>5 DEF Advance, serviceVars, apiVars
  <2>6. ASSUME NEW s \in Subscribers, Client(s), UNCHANGED apiVars PROVE FacadeStep
    BY <2>4, <2>6 DEF Client, serviceVars, apiVars
  <2>7. CASE UNCHANGED allVars
    BY <2>4, <2>7 DEF allVars, vars, serviceVars, apiVars
  <2> QED
    BY <2>1, <2>2, <2>3, <2>5, <2>6, <2>7 DEF ApiNext
<1> QED
  BY <1>1, <1>2, ApiService, ApiInvariant, PTL DEF ApiSpec, ImplementsFacade, Facade!Spec
=============================================================================
