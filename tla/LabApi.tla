-------------------------------- MODULE LabApi --------------------------------
(***************************************************************************)
(* The resolvers `evaluate` and `rerank` of crates/reranklab-api, run      *)
(* concurrently over the service of module RerankService, whose steps are  *)
(* theirs while they wait for it.                                          *)
(*                                                                         *)
(* Of a call only what decides its course is kept: which texts are blank   *)
(* and whether the cutoff is 0.  The stores are ports, which may report an *)
(* error although the in-memory ones never do; what they hold changes what *)
(* is ranked and measured, not the course (modules Scenario, Server).      *)
(***************************************************************************)
EXTENDS RerankService

VARIABLES
  call,    \* the call each request makes
  place,   \* where its resolver is
  answer   \* what it has answered

apiVars == <<call, place, answer>>
allVars == <<vars, apiVars>>

NoCall == [field |-> "none"]

Evaluations == [field : {"evaluate"}, blankQuery : BOOLEAN, k : {0, 1}]
Reranks == [field : {"rerank"}, blankQuery : BOOLEAN, blankCandidate : BOOLEAN]
Calls == Evaluations \union Reranks

\* Query::new and Candidate::new reject blank texts.
Invalid(c) == c.blankQuery \/ (c.field = "rerank" /\ c.blankCandidate)

ApiInit ==
  /\ Init
  /\ call = [r \in Requests |-> NoCall]
  /\ place = [r \in Requests |-> "none"]
  /\ answer = [r \in Requests |-> "none"]

Go(r, from, to) ==
  /\ place[r] = from
  /\ place' = [place EXCEPT ![r] = to]
  /\ UNCHANGED <<call, answer>>

Finish(r, from, a) ==
  /\ place[r] = from
  /\ place' = [place EXCEPT ![r] = "over"]
  /\ answer' = [answer EXCEPT ![r] = a]
  /\ UNCHANGED call

\* The call arrives and its texts are checked.
Receive(r, c) ==
  /\ place[r] = "none"
  /\ call' = [call EXCEPT ![r] = c]
  /\ IF Invalid(c)
     THEN /\ place' = [place EXCEPT ![r] = "over"]
          /\ answer' = [answer EXCEPT ![r] = "invalid"]
     ELSE /\ place' = [place EXCEPT ![r] =
                         IF c.field = "evaluate" THEN "listing" ELSE "calling"]
          /\ UNCHANGED answer
  /\ UNCHANGED vars

\* candidates(): the stored list of the query, empty if there is none.
List(r) == Go(r, "listing", "calling") /\ UNCHANGED vars

ListFails(r) == r \in Unlucky /\ Finish(r, "listing", "failed") /\ UNCHANGED vars

\* RerankService::rerank is called and goes on.
Call(r) ==
  /\ place[r] = "calling"
  /\ Admit(r) \/ Refuse(r)
  /\ UNCHANGED apiVars

ServiceStep(r) == Step(r) /\ UNCHANGED apiVars

\* The client goes away while the reranker works.
Vanish(r) == Disconnect(r) /\ Finish(r, "calling", "gone")

\* Broken variant: the answer is given while the event is still to come.
ReturnEarly(r) ==
  /\ \/ pc[r] = "labelled" /\ Finish(r, "calling", "ok")
     \/ pc[r] = "refused" /\ Finish(r, "calling", "throttled")
     \/ pc[r] = "failed" /\ Finish(r, "calling", "failed")
  /\ UNCHANGED vars

\* Broken variant: an error of the service is taken for an empty ranking.
ReturnMasksErrors(r) ==
  /\ \/ pc[r] = "refused" /\ Finish(r, "calling", "throttled")
     \/ pc[r] = "failed" /\ Finish(r, "calling", "ok")
     \/ /\ pc[r] = "done"
        /\ IF call[r].field = "evaluate"
           THEN Go(r, "calling", "judging")
           ELSE Finish(r, "calling", "ok")
  /\ UNCHANGED vars

\* The service returns: its errors are the answer, and so is the ranking of
\* `rerank`; `evaluate` goes on to the judgments.
Return(r) ==
  /\ \/ pc[r] = "refused" /\ Finish(r, "calling", "throttled")
     \/ pc[r] = "failed" /\ Finish(r, "calling", "failed")
     \/ /\ pc[r] = "done"
        /\ IF call[r].field = "evaluate"
           THEN Go(r, "calling", "judging")
           ELSE Finish(r, "calling", "ok")
  /\ UNCHANGED vars

\* qrels(), and evaluate_query, which refuses a cutoff of 0 only now.
Judge(r) ==
  /\ Finish(r, "judging", IF call[r].k = 0 THEN "zero_cutoff" ELSE "ok")
  /\ UNCHANGED vars

JudgeFails(r) == r \in Unlucky /\ Finish(r, "judging", "failed") /\ UNCHANGED vars

ResolverStep(r) ==
  \/ List(r) \/ ListFails(r)
  \/ Call(r) \/ ServiceStep(r) \/ Return(r)
  \/ Judge(r) \/ JudgeFails(r)

ApiNext ==
  \/ \E r \in Requests :
       (\E c \in Calls : Receive(r, c)) \/ ResolverStep(r) \/ Vanish(r)
  \/ Advance /\ UNCHANGED apiVars
  \/ \E s \in Subscribers : Client(s) /\ UNCHANGED apiVars

ApiSpec == ApiInit /\ [][ApiNext]_allVars

\* The runtime polls every resolver that can go on, and the reranker answers
\* every request: AiReranker!EveryRequestEnds.  Clients of the bus need not
\* read, and calls need not come.
ApiFairSpec == ApiSpec /\ \A r \in Requests : WF_allVars(ResolverStep(r))

-----------------------------------------------------------------------------
(***************************************************************************)
(* Resolvers and service move in step: the service works for a request     *)
(* only while its resolver waits for it, it has announced whatever the     *)
(* resolver goes on with, and nothing is left undone behind an answer.     *)
(***************************************************************************)
InStep ==
  /\ call \in [Requests -> Calls \union {NoCall}]
  /\ place \in [Requests -> {"none", "listing", "calling", "judging", "over"}]
  /\ \A r \in Requests :
       /\ place[r] = "over" <=> answer[r] # "none"
       /\ place[r] = "none" <=> call[r] = NoCall
       /\ place[r] \in {"none", "listing"} => pc[r] = "new"
       /\ place[r] = "judging" => pc[r] = "done" /\ call[r].field = "evaluate"
       /\ place[r] = "over" => pc[r] \in Ended \union {"new"}

(***************************************************************************)
(* An answer tells what the request has cost and whether it was announced: *)
(* a blank text or a refused token costs and announces nothing, while a    *)
(* cutoff of 0 is refused only after a token and an event (LabFacade).     *)
(***************************************************************************)
Facade == INSTANCE LabFacade
            WITH charged <- {r \in Requests : pc[r] \notin {"new", "throttled", "refused"}},
                 announced <- Sent

ImplementsFacade == Facade!Spec

(***************************************************************************)
(* Every call that arrives is answered, whatever the other requests, the   *)
(* rate limit and the subscribers do, unless its client goes away.         *)
(***************************************************************************)
CallsAreAnswered ==
  \A r \in Requests : place[r] # "none" ~> place[r] = "over"
=============================================================================
