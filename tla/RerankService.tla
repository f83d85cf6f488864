---------------------------- MODULE RerankService ----------------------------
(***************************************************************************)
(* The orchestrator of crates/reranklab-core/src/service.rs: concurrent    *)
(* requests that pass the rate limiter, wait for the reranker, record      *)
(* metrics and publish an event on the bus.                                *)
(*                                                                         *)
(* The requests run on a multi-threaded runtime, so between any two        *)
(* accesses to shared state (the bucket, a counter, the bus) other         *)
(* requests, the clients of the bus and the clock may move.  A request's   *)
(* future may be dropped where it really waits: at the reranker.  The      *)
(* reranker is its port (module RerankerPort), reduced to who produced     *)
(* the ranking; the port and the event sink may report errors, although    *)
(* the adapters of this workspace never do.                                *)
(***************************************************************************)
EXTENDS RateLimiter, Sequences, FiniteSets

CONSTANTS
  Requests,       \* the calls of RerankService::rerank
  Rerankers,      \* the name()s of the rerankers it may be built with
  Unlucky,        \* the requests to which a port may report an error
  Subscribers,    \* the clients of the event stream
  Slots,          \* the slots of the event channel
  NoStream        \* see EventBus

ASSUME ServiceAssumption == IsFiniteSet(Requests)

VARIABLES
  reranker,    \* name() of the reranker it is built with
  pc,          \* where each request is
  source,      \* who ranked it: "model", "heuristic", or "none" so far
  throttled,   \* reranklab_rerank_throttled_total
  reranked,    \* reranklab_queries_reranked_total
  byAi,        \* reranklab_ai_rerank_total
  byHeuristic, \* reranklab_heuristic_rerank_total
  published,   \* history: the requests whose event was sent, in order
  log, joined, next, got   \* the event bus

Bus == INSTANCE EventBus

counters == <<throttled, reranked, byAi, byHeuristic>>
busVars == <<log, joined, next, got>>
serviceVars == <<reranker, pc, source, counters, published>>
vars == <<limiterVars, serviceVars, busVars>>

InFlight == {"throttled", "ranking", "ranked", "counted", "labelled"}
Ended == {"refused", "done", "failed", "dropped"}
Phases == {"new"} \union InFlight \union Ended

\* Who may have produced the list a reranker of this name returns: AiReranker
\* keeps its name when it falls back.
Sources == IF reranker = "ai" THEN {"model", "heuristic"} ELSE {"heuristic"}

UsedAi == reranker # "heuristic"

Event(r) == [query |-> r, used_ai |-> UsedAi]

Init ==
  /\ LimiterInit
  /\ Bus!BusInit
  /\ reranker \in Rerankers
  /\ pc = [r \in Requests |-> "new"]
  /\ source = [r \in Requests |-> "none"]
  /\ throttled = 0 /\ reranked = 0 /\ byAi = 0 /\ byHeuristic = 0
  /\ published = <<>>

Move(r, from, to) ==
  /\ pc[r] = from
  /\ pc' = [pc EXCEPT ![r] = to]
  /\ UNCHANGED reranker

\* try_acquire_n(1.0) returned true; the reranker is called.
Admit(r) ==
  /\ Move(r, "new", "ranking")
  /\ Grant(1)
  /\ UNCHANGED <<source, counters, published, busVars>>

\* try_acquire_n(1.0) returned false.
Refuse(r) ==
  /\ Move(r, "new", "throttled")
  /\ Throttle(1)
  /\ UNCHANGED <<source, counters, published, busVars>>

CountThrottled(r) ==
  /\ Move(r, "throttled", "refused")
  /\ throttled' = throttled + 1
  /\ UNCHANGED <<limiterVars, source, reranked, byAi, byHeuristic, published, busVars>>

\* The reranker answers.
Ranked(r) ==
  /\ Move(r, "ranking", "ranked")
  /\ \E s \in Sources : source' = [source EXCEPT ![r] = s]
  /\ UNCHANGED <<limiterVars, counters, published, busVars>>

\* The reranker reports an error, which is the request's.
RankFails(r) ==
  /\ r \in Unlucky
  /\ Move(r, "ranking", "failed")
  /\ UNCHANGED <<limiterVars, source, counters, published, busVars>>

\* Broken variant: a cancelled request gives its token back, at any level.
DisconnectRefunds(r) ==
  /\ reranker # "heuristic"
  /\ Move(r, "ranking", "dropped")
  /\ tokens' = Lesser(tokens + 1, Capacity)
  /\ UNCHANGED <<clock, lastRefill, source, counters, published, busVars>>

\* The client goes away and its future is dropped where it is suspended (the
\* heuristic reranker never suspends): the token is spent, nothing is counted
\* and no event is sent.
Disconnect(r) ==
  /\ reranker # "heuristic"
  /\ Move(r, "ranking", "dropped")
  /\ UNCHANGED <<limiterVars, source, counters, published, busVars>>

CountReranked(r) ==
  /\ Move(r, "ranked", "counted")
  /\ reranked' = reranked + 1
  /\ UNCHANGED <<limiterVars, source, throttled, byAi, byHeuristic, published, busVars>>

\* Broken variant: the kind is counted by who really produced the ranking,
\* by a reranker that may know neither.
CountKindTwice(r) ==
  /\ Move(r, "counted", "labelled")
  /\ byAi' = byAi + 1
  /\ byHeuristic' = IF source[r] = "heuristic" THEN byHeuristic + 1 ELSE byHeuristic
  /\ UNCHANGED <<limiterVars, source, throttled, reranked, published, busVars>>

CountKind(r) ==
  /\ Move(r, "counted", "labelled")
  /\ IF UsedAi
     THEN byAi' = byAi + 1 /\ UNCHANGED byHeuristic
     ELSE byHeuristic' = byHeuristic + 1 /\ UNCHANGED byAi
  /\ UNCHANGED <<limiterVars, source, throttled, reranked, published, busVars>>

\* Broken variant: the sink waits for room, as a bounded queue would.
PublishWhenRoom(r) ==
  /\ \A s \in Bus!Active : Len(log) - next[s] < Slots
  /\ Move(r, "labelled", "done")
  /\ Bus!Publish(Event(r))
  /\ published' = Append(published, r)
  /\ UNCHANGED <<limiterVars, source, counters>>

\* The event is sent and the outcome returned.
PublishEvent(r) ==
  /\ Move(r, "labelled", "done")
  /\ Bus!Publish(Event(r))
  /\ published' = Append(published, r)
  /\ UNCHANGED <<limiterVars, source, counters>>

\* The sink reports an error: the request fails although it was counted.
PublishFails(r) ==
  /\ r \in Unlucky
  /\ Move(r, "labelled", "failed")
  /\ UNCHANGED <<limiterVars, source, counters, published, busVars>>

Advance == Tick /\ UNCHANGED <<serviceVars, busVars>>

Client(s) ==
  /\ Bus!Subscribe(s) \/ Bus!Unsubscribe(s) \/ Bus!Deliver(s) \/ Bus!Lag(s)
  /\ UNCHANGED <<limiterVars, serviceVars>>

Step(r) ==
  \/ CountThrottled(r)
  \/ Ranked(r) \/ RankFails(r)
  \/ CountReranked(r) \/ CountKind(r)
  \/ PublishEvent(r) \/ PublishFails(r)

Next ==
  \/ \E r \in Requests : Admit(r) \/ Refuse(r) \/ Disconnect(r) \/ Step(r)
  \/ Advance
  \/ \E s \in Subscribers : Client(s)

Spec == Init /\ [][Next]_vars

-----------------------------------------------------------------------------
At(phases) == Cardinality({r \in Requests : pc[r] \in phases})

Sent == {published[i] : i \in DOMAIN published}

TypeOK ==
  /\ LimiterTypeOK
  /\ reranker \in Rerankers
  /\ pc \in [Requests -> Phases]
  /\ source \in [Requests -> {"none"} \union Sources]
  /\ \A n \in {throttled, reranked, byAi, byHeuristic} : n \in 0 .. Cardinality(Requests)
  /\ published \in Seq(Requests)
  /\ log \in Seq([query : Requests, used_ai : BOOLEAN])

(***************************************************************************)
(* A token is spent for good: the requests that were ever let in, those    *)
(* that failed or were dropped included, and the tokens left never exceed  *)
(* the bucket and its refill.                                              *)
(***************************************************************************)
AdmissionBudget ==
  Cardinality(Requests) - At({"new", "throttled", "refused"}) + tokens
    <= Capacity + lastRefill * RefillPerTick

(***************************************************************************)
(* At every instant the counters tell one story with the events: an event  *)
(* sent was labelled before, what was labelled was counted before, and the *)
(* differences are requests still on their way or whose event was refused. *)
(***************************************************************************)
CountersLeadEvents ==
  LET labelled == byAi + byHeuristic
  IN  /\ Len(published) <= labelled
      /\ labelled <= reranked
      /\ reranked - labelled = At({"counted"})
      /\ reranked - Len(published) <= At({"counted", "labelled", "failed"})
      /\ throttled <= At({"refused"})

(***************************************************************************)
(* The documentation of the event (event.rs): used_ai tells "Whether the   *)
(* AI reranker was used (`false` = heuristic fallback)".                   *)
(***************************************************************************)
UsedAiMeansModel ==
  \A i \in DOMAIN log : log[i].used_ai => source[log[i].query] = "model"
=============================================================================
