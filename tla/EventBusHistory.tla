--------------------------- MODULE EventBusHistory ---------------------------
(***************************************************************************)
(* The bus with a publisher and clients that come and go.  The events are  *)
(* the numbers of the publications.                                        *)
(***************************************************************************)
EXTENDS EventBus

CONSTANT MaxEvents   \* bound of the model: the publications made

ASSUME HistoryAssumption == MaxEvents \in Nat

VARIABLE published   \* history: the publications made, heard or not

vars == <<busVars, published>>

Init == BusInit /\ published = 0

Send ==
  /\ published < MaxEvents
  /\ published' = published + 1
  /\ Publish(published + 1)

Read(s) == (Deliver(s) \/ Lag(s)) /\ UNCHANGED published

ComeOrGo(s) == (Subscribe(s) \/ Unsubscribe(s)) /\ UNCHANGED published

Next == Send \/ \E s \in Subscribers : Read(s) \/ ComeOrGo(s)

Spec == Init /\ [][Next]_vars

\* A stream that has something to yield is polled: its task is woken by the
\* channel.  Nobody has to publish, subscribe or leave.
FairSpec == Spec /\ \A s \in Subscribers : WF_vars(Read(s))

-----------------------------------------------------------------------------
TypeOK ==
  /\ published \in 0 .. MaxEvents
  /\ log \in Seq(1 .. published)
  /\ joined \in [Subscribers -> (0 .. Len(log)) \union {NoStream}]
  /\ next \in [Subscribers -> 0 .. Len(log)]
  /\ got \in [Subscribers -> Seq(1 .. Len(log))]

(***************************************************************************)
(* A stream yields only events published while it was open, each at most   *)
(* once and in the order they were published, however often it lags.       *)
(***************************************************************************)
InOrderSinceJoined ==
  \A s \in Active :
    \A i \in DOMAIN got[s] :
      /\ got[s][i] > joined[s] /\ got[s][i] <= next[s]
      /\ i > 1 => got[s][i - 1] < got[s][i]

(***************************************************************************)
(* The gaps in what a stream yields are events it was a whole ring behind  *)
(* of: an event it is done with and never yielded has been overwritten.    *)
(***************************************************************************)
GapsOnlyByOverrun ==
  \A s \in Active :
    \A i \in joined[s] + 1 .. next[s] :
      i \in {got[s][j] : j \in DOMAIN got[s]} \/ i + Slots <= Len(log)

(***************************************************************************)
(* An event published while a client listens reaches it, unless the client *)
(* leaves or is overtaken by a whole ring of later events.                 *)
(***************************************************************************)
EventsReachSubscribers ==
  \A s \in Subscribers : \A i \in 1 .. MaxEvents :
    (s \in Active /\ Len(log) = i /\ joined[s] < i)
      ~> \/ s \notin Active
         \/ i \in {got[s][j] : j \in DOMAIN got[s]}
         \/ Len(log) >= i + Slots
=============================================================================
