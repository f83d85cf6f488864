------------------------------- MODULE EventBus -------------------------------
(***************************************************************************)
(* The broadcast bus of crates/reranklab-infra/src/bus.rs: one sender and  *)
(* any number of subscriber streams over tokio's broadcast channel, whose  *)
(* ring of slots is modelled from how bus.rs uses it.  The channel keeps   *)
(* the last Slots events; a receiver that falls further behind is told     *)
(* that it lagged and goes on with the oldest event kept, and the stream   *)
(* filters that notice out.                                                *)
(*                                                                         *)
(* The ring is the tail of `log`, the sequence of everything that entered  *)
(* the channel, so that positions in it are never reused.                  *)
(***************************************************************************)
EXTENDS Integers, Sequences

CONSTANTS
  Subscribers,  \* the streams clients may open
  Slots,        \* the channel's capacity: with_capacity's, but at least 1,
                \* rounded up to a power of two by tokio
  NoStream      \* the position of a subscriber that has no stream open

ASSUME BusAssumption == Slots \in Nat \ {0} /\ NoStream \notin Nat

VARIABLES
  log,     \* history: the events that entered the channel, in order
  joined,  \* the length of the log when each stream was opened
  next,    \* how much of the log each stream is done with
  got      \* history: the positions of the events each stream has yielded

busVars == <<log, joined, next, got>>

Active == {s \in Subscribers : joined[s] # NoStream}

BusInit ==
  /\ log = <<>>
  /\ joined = [s \in Subscribers |-> NoStream]
  /\ next = [s \in Subscribers |-> 0]
  /\ got = [s \in Subscribers |-> <<>>]

\* publish(): overwrites the oldest slot, never waits, and drops the event,
\* as if it had succeeded, when nobody subscribes.
Publish(event) ==
  /\ log' = IF Active = {} THEN log ELSE Append(log, event)
  /\ UNCHANGED <<joined, next, got>>

\* Broken variant: a new stream replays what the ring still holds.
SubscribeReplays(s) ==
  /\ s \notin Active
  /\ joined' = [joined EXCEPT ![s] = Len(log)]
  /\ next' = [next EXCEPT ![s] = IF Len(log) > Slots THEN Len(log) - Slots ELSE 0]
  /\ got' = [got EXCEPT ![s] = <<>>]
  /\ UNCHANGED log

\* subscribe(): the stream starts at the next event to be sent.
Subscribe(s) ==
  /\ s \notin Active
  /\ joined' = [joined EXCEPT ![s] = Len(log)]
  /\ next' = [next EXCEPT ![s] = Len(log)]
  /\ got' = [got EXCEPT ![s] = <<>>]
  /\ UNCHANGED log

Overrun(s) == Len(log) - next[s] > Slots

\* Broken variant: the stream yields without a look at whether there is an
\* event it has not seen.
DeliverUnchecked(s) ==
  /\ s \in Active
  /\ ~Overrun(s)
  /\ next[s] <= Len(log)
  /\ next' = [next EXCEPT ![s] = @ + 1]
  /\ got' = [got EXCEPT ![s] = Append(@, next[s] + 1)]
  /\ UNCHANGED <<log, joined>>

\* The stream yields its next event.
Deliver(s) ==
  /\ s \in Active
  /\ next[s] < Len(log)
  /\ ~Overrun(s)
  /\ next' = [next EXCEPT ![s] = @ + 1]
  /\ got' = [got EXCEPT ![s] = Append(@, next[s] + 1)]
  /\ UNCHANGED <<log, joined>>

\* Broken variant: a stream that lagged goes on with new events only.
LagSkipsToTail(s) ==
  /\ s \in Active
  /\ Overrun(s)
  /\ next' = [next EXCEPT ![s] = Len(log)]
  /\ UNCHANGED <<log, joined, got>>

\* Lagged: on to the oldest event kept, without a word to the subscriber.
Lag(s) ==
  /\ s \in Active
  /\ Overrun(s)
  /\ next' = [next EXCEPT ![s] = Len(log) - Slots]
  /\ UNCHANGED <<log, joined, got>>

\* The client closes the stream.
Unsubscribe(s) ==
  /\ s \in Active
  /\ joined' = [joined EXCEPT ![s] = NoStream]
  /\ next' = [next EXCEPT ![s] = 0]
  /\ got' = [got EXCEPT ![s] = <<>>]
  /\ UNCHANGED log
=============================================================================
