------------------------------ MODULE LabFacade ------------------------------
(***************************************************************************)
(* What a client of the GraphQL API may conclude from an answer: whether   *)
(* the request has cost a token of the rate limit and whether subscribers  *)
(* were told of it.  An answer is given once, and nothing happens for a    *)
(* request that has been answered.                                         *)
(***************************************************************************)
CONSTANT Requests

VARIABLES
  charged,    \* the requests that have cost a token
  announced,  \* the requests whose event has been published
  answer      \* the answer to each request

vars == <<charged, announced, answer>>

Init ==
  /\ charged = {} /\ announced = {}
  /\ answer = [r \in Requests |-> "none"]

Charge(r) ==
  /\ answer[r] = "none"
  /\ r \notin charged
  /\ charged' = charged \union {r}
  /\ UNCHANGED <<announced, answer>>

Announce(r) ==
  /\ answer[r] = "none"
  /\ r \in charged \ announced
  /\ announced' = announced \union {r}
  /\ UNCHANGED <<charged, answer>>

\* A refused cutoff is no cheaper than an answer; only an error of a port
\* leaves open how far the request got.
May(r, a) ==
  \/ a \in {"ok", "zero_cutoff"} /\ r \in announced
  \/ a \in {"invalid", "throttled"} /\ r \notin charged
  \/ a = "gone" /\ r \in charged \ announced
  \/ a = "failed"

Reply(r, a) ==
  /\ answer[r] = "none"
  /\ May(r, a)
  /\ answer' = [answer EXCEPT ![r] = a]
  /\ UNCHANGED <<charged, announced>>

Answers == {"ok", "zero_cutoff", "invalid", "throttled", "gone", "failed"}

Next ==
  \E r \in Requests : Charge(r) \/ Announce(r) \/ \E a \in Answers : Reply(r, a)

Spec == Init /\ [][Next]_vars
=============================================================================
