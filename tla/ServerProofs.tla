----------------------------- MODULE ServerProofs -----------------------------
(***************************************************************************)
(* The server, for every number of seeded queries, documents and clients.  *)
(***************************************************************************)
EXTENDS Server, TLAPS

USE ServerAssumption DEF ServerAssumption

(* The phases in which clients may have connections.                       *)
Open == {"serving", "draining"}

(* Everything is seeded before the first connection, and remains so.       *)
SeededFirst ==
  phase \in Open => Seeded \subseteq listed /\ Judgments(Seeded) \subseteq judged

-----------------------------------------------------------------------------
(* The types, with the connections that each phase allows.                 *)

\* What connections do: the server's own variables stay.
ClientStep(c) == Connect(c) \/ Send(c) \/ Complete(c) \/ Handle(c) \/ Leave(c)

LEMMA ClientStepKeeps ==
  ASSUME NEW c \in Clients, ClientStep(c)
  PROVE  UNCHANGED <<seedQueries, phase, storeVars, signals>>
BY DEF ClientStep, Connect, Send, Complete, Handle, Leave, Probe, Upgrade, Evaluate,
       ReadCandidates, Answer, Refuse, Rest, Move

(* A connection is touched only while the server is open, by its client,   *)
(* and during the shutdown none becomes idle.                              *)
LEMMA ClientStepConns ==
  ASSUME TypeOK, NEW c \in Clients, ClientStep(c)
  PROVE  /\ phase \in Open
         /\ conn' \in [Clients -> {"none", "idle", "upgraded"} \union InProgress]
         /\ phase = "draining" => conn'[c] # "idle"
         /\ \A d \in Clients \ {c} : conn'[d] = conn[d]
<1>1. phase \notin Open => conn[c] = "none"
  BY DEF TypeOK, Open
<1>2. PICK to : /\ conn' = [conn EXCEPT ![c] = to]
                /\ to \in {"none", "idle", "upgraded"} \union InProgress
                /\ phase = "draining" => to # "idle"
                /\ conn[c] # "none" \/ phase = "serving"
  BY DEF ClientStep, Connect, Send, Complete, Handle, Leave, Probe, Upgrade, Evaluate,
         ReadCandidates, Answer, Refuse, Rest, Move, InProgress, TypeOK
<1> QED
  BY <1>1, <1>2 DEF TypeOK, Open

(* The answers that a store could give.                                    *)
AnswersFrom(store) == {NoReply, Refused} \union [found : BOOLEAN, judged : SUBSET store]

LEMMA ClientStepTyped ==
  ASSUME TypeOK, NEW c \in Clients, ClientStep(c)
  PROVE  /\ asked' \in [Clients -> 0 .. SeedLimit] /\ found' \in [Clients -> BOOLEAN]
         /\ reply' \in [Clients -> AnswersFrom(judged)]
<1>1. asked' \in [Clients -> 0 .. SeedLimit]
  <2>1. asked' = asked \/ \E q \in Queries : asked' = [asked EXCEPT ![c] = q]
    BY DEF ClientStep, Connect, Send, Complete, Handle, Leave, Probe, Upgrade, Evaluate,
           ReadCandidates, Answer, Refuse
  <2>2. Queries \subseteq 0 .. SeedLimit /\ asked \in [Clients -> 0 .. SeedLimit]
    BY DEF TypeOK, Queries
  <2> QED
    BY <2>1, <2>2
<1>3. found' \in [Clients -> BOOLEAN]
  <2>1. found' = found \/ found' = [found EXCEPT ![c] = asked[c] \in listed]
    BY DEF ClientStep, Connect, Send, Complete, Handle, Leave, Probe, Upgrade, Evaluate,
           ReadCandidates, Answer, Refuse
  <2>2. (asked[c] \in listed) \in BOOLEAN
    OBVIOUS
  <2>3. found \in [Clients -> BOOLEAN]
    BY DEF TypeOK
  <2>4. ASSUME NEW f \in BOOLEAN PROVE [found EXCEPT ![c] = f] \in [Clients -> BOOLEAN]
    BY <2>3
  <2> QED
    BY <2>1, <2>2, <2>3, <2>4, Zenon
<1>2. PICK r \in AnswersFrom(judged) : reply' = [reply EXCEPT ![c] = r]
  <2>1. reply = [reply EXCEPT ![c] = reply[c]] /\ reply[c] \in AnswersFrom(judged)
    BY DEF TypeOK, AnswersFrom
  <2>2. [found |-> found[c], judged |-> judged \intersect Judgments({asked[c]})]
          \in AnswersFrom(judged)
    BY DEF TypeOK, AnswersFrom
  <2> QED
    BY <2>1, <2>2 DEF AnswersFrom, ClientStep, Connect, Send, Complete, Handle, Leave, Probe,
       Upgrade, Evaluate, ReadCandidates, Answer, Refuse
<1> QED
  BY <1>1, <1>2, <1>3 DEF TypeOK, AnswersFrom

(* Phases, stores and connections keep their types; in particular no       *)
(* connection outlives the server, and none is idle while it drains.       *)
LEMMA TypesInductive == TypeOK /\ [Next]_vars => TypeOK'
<1> SUFFICES ASSUME TypeOK, [Next]_vars PROVE TypeOK'
  OBVIOUS
<1>1. CASE Wire
  BY <1>1 DEF Wire, TypeOK, storeVars, connVars, InProgress, Seeded
<1>8. CASE SeedList
  BY <1>8 DEF SeedList, TypeOK, connVars, InProgress, Seeded
<1>9. CASE Bind
  BY <1>9 DEF Bind, TypeOK, storeVars, connVars, InProgress, Seeded
<1>10. CASE Arm
  BY <1>10 DEF Arm, TypeOK, storeVars, connVars, InProgress, Seeded
<1>2. CASE SeedJudgment
  <2>1. PICK j \in Judgments(Seeded) : judged' = judged \union {j}
    BY <1>2 DEF SeedJudgment
  <2>2. AnswersFrom(judged) \subseteq AnswersFrom(judged')
    BY <2>1 DEF AnswersFrom
  <2>3. reply' \in [Clients -> AnswersFrom(judged')]
    BY <1>2, <2>2 DEF SeedJudgment, connVars, TypeOK, AnswersFrom
  <2> QED
    BY <1>2, <2>1, <2>3 DEF SeedJudgment, TypeOK, connVars, Seeded, AnswersFrom
<1>3. CASE Signal
  BY <1>3 DEF Signal, TypeOK, storeVars, InProgress, Seeded
<1>4. CASE Drain
  BY <1>4 DEF Drain, TypeOK, storeVars, InProgress, Seeded
<1>5. CASE Stop
  BY <1>5 DEF Stop, TypeOK, storeVars, InProgress, Seeded
<1>6. ASSUME NEW c \in Clients, ClientStep(c) PROVE TypeOK'
  <2>1. UNCHANGED <<seedQueries, phase, listed, judged, signals>>
    BY <1>6, ClientStepKeeps DEF storeVars
  <2>2. /\ phase \in Open
        /\ conn' \in [Clients -> {"none", "idle", "upgraded"} \union InProgress]
        /\ phase = "draining" => \A d \in Clients : conn'[d] # "idle"
    BY <1>6, ClientStepConns DEF TypeOK
  <2>3. /\ asked' \in [Clients -> 0 .. SeedLimit] /\ found' \in [Clients -> BOOLEAN]
        /\ reply' \in [Clients -> AnswersFrom(judged')]
    BY <1>6, <2>1, ClientStepTyped
  <2> QED
    BY <2>1, <2>2, <2>3 DEF TypeOK, Open, Seeded, AnswersFrom
<1>7. CASE UNCHANGED vars
  BY <1>7 DEF vars, storeVars, connVars, TypeOK, Seeded, InProgress
<1> QED
  BY <1>1, <1>2, <1>3, <1>4, <1>5, <1>6, <1>7, <1>8, <1>9, <1>10 DEF Next, ClientStep

THEOREM TypeCorrect == Spec => []TypeOK
<1>1. Init => TypeOK
  BY DEF Init, TypeOK, InProgress
<1> QED
  BY <1>1, TypesInductive, PTL DEF Spec

-----------------------------------------------------------------------------
(* Seeding ends before the server opens, and nothing is stored after.      *)
LEMMA SeedingInductive == TypeOK /\ SeededFirst /\ [Next]_vars => SeededFirst'
<1> SUFFICES ASSUME TypeOK, SeededFirst, [Next]_vars PROVE SeededFirst'
  OBVIOUS
<1>1. CASE Wire \/ SeedList \/ SeedJudgment
  BY <1>1 DEF Wire, SeedList, SeedJudgment, SeededFirst, Open
<1>2. CASE Bind
  BY <1>2 DEF Bind, SeededFirst, Open, storeVars, Seeded, Judgments
<1>3. CASE Arm \/ Signal \/ Drain \/ Stop
  BY <1>3 DEF Arm, Signal, Drain, Stop, SeededFirst, Open, storeVars, Seeded, Judgments
<1>4. ASSUME NEW c \in Clients, ClientStep(c) PROVE SeededFirst'
  BY <1>4, ClientStepKeeps DEF SeededFirst, storeVars, Seeded, Judgments
<1>5. CASE UNCHANGED vars
  BY <1>5 DEF vars, storeVars, SeededFirst, Seeded, Judgments
<1> QED
  BY <1>1, <1>2, <1>3, <1>4, <1>5 DEF Next, ClientStep

(* What a handler has found, it found in the stores as they are for good.  *)
Whole(c) ==
  reply[c] \notin {NoReply, Refused} =>
    reply[c] = [found |-> asked[c] \in Seeded,
                judged |-> Judgments({asked[c]} \intersect Seeded)]

Reading(c) == conn[c] = "judging" => (found[c] <=> asked[c] \in Seeded)

Fresh(c) == conn[c] \in InProgress => reply[c] = NoReply

HandlerInv == \A c \in Clients : Whole(c) /\ Reading(c) /\ Fresh(c)

LEMMA OwnHandlerKeeps ==
  ASSUME TypeOK, SeededFirst, HandlerInv, NEW c \in Clients, ClientStep(c)
  PROVE  Whole(c)' /\ Reading(c)' /\ Fresh(c)'
<1> USE DEF Whole, Reading, Fresh
<1>0. Seeded' = Seeded /\ Whole(c) /\ Reading(c) /\ Fresh(c)
  BY ClientStepKeeps DEF Seeded, HandlerInv
<1>1. listed = Seeded /\ judged = Judgments(Seeded)
  BY ClientStepConns DEF TypeOK, SeededFirst
<1>2. CASE Connect(c) \/ Send(c)
  <2>1. reply'[c] = NoReply /\ conn'[c] # "judging"
    BY <1>2 DEF Connect, Send, Move, TypeOK
  <2> QED
    BY <2>1
<1>3. CASE Probe(c) \/ Upgrade(c) \/ Leave(c)
  <2>1. conn'[c] \notin InProgress /\ UNCHANGED <<asked, reply>>
    BY <1>3 DEF Probe, Upgrade, Leave, Rest, Move, TypeOK, InProgress
  <2> QED
    BY <1>0, <2>1 DEF InProgress
<1>4. ASSUME NEW q \in Queries, Evaluate(c, q)
      PROVE  Whole(c)' /\ Reading(c)' /\ Fresh(c)'
  <2>1. conn[c] = "sending" /\ conn'[c] = "reading" /\ UNCHANGED reply
    BY <1>4 DEF Evaluate, Move, TypeOK
  <2> QED
    BY <1>0, <2>1 DEF InProgress
<1>5. CASE ReadCandidates(c)
  <2>1. /\ found'[c] = (asked[c] \in listed) /\ UNCHANGED <<asked, reply>>
        /\ conn[c] \in InProgress
    BY <1>5 DEF ReadCandidates, Move, TypeOK, InProgress
  <2> QED
    BY <1>0, <1>1, <2>1
<1>6. CASE Answer(c)
  <2>1. /\ conn'[c] \notin InProgress /\ UNCHANGED asked
        /\ reply'[c] = [found |-> found[c], judged |-> judged \intersect Judgments({asked[c]})]
        /\ conn[c] = "judging"
    BY <1>6 DEF Answer, Rest, Move, TypeOK, InProgress
  <2>2. found[c] = (asked[c] \in Seeded)
    BY <1>0, <2>1 DEF TypeOK
  <2>3. judged \intersect Judgments({asked[c]}) = Judgments({asked[c]} \intersect Seeded)
    BY <1>1 DEF Judgments
  <2> QED
    BY <1>0, <2>1, <2>2, <2>3 DEF InProgress
<1>7. CASE Refuse(c)
  <2>1. conn'[c] \notin InProgress /\ reply'[c] = Refused
    BY <1>7 DEF Refuse, Rest, Move, TypeOK, InProgress
  <2> QED
    BY <2>1 DEF InProgress
<1> QED
  BY <1>2, <1>3, <1>4, <1>5, <1>6, <1>7 DEF ClientStep, Complete, Handle

(* The connections, queries and answers of the other clients stay.         *)
LEMMA OthersKeep ==
  ASSUME TypeOK, NEW c \in Clients, ClientStep(c), NEW d \in Clients \ {c}
  PROVE  conn'[d] = conn[d] /\ asked'[d] = asked[d] /\ found'[d] = found[d]
         /\ reply'[d] = reply[d]
<1>1. conn'[d] = conn[d]
  BY ClientStepConns
<1>2. asked'[d] = asked[d] /\ found'[d] = found[d] /\ reply'[d] = reply[d]
  BY DEF ClientStep, Connect, Send, Complete, Handle, Leave, Probe, Upgrade, Evaluate,
         ReadCandidates, Answer, Refuse, TypeOK
<1> QED
  BY <1>1, <1>2

LEMMA HandlersInductive ==
  TypeOK /\ SeededFirst /\ HandlerInv /\ [Next]_vars => HandlerInv'
<1> SUFFICES ASSUME TypeOK, SeededFirst, HandlerInv, [Next]_vars, NEW d \in Clients
             PROVE  Whole(d)' /\ Reading(d)' /\ Fresh(d)'
  BY DEF HandlerInv
<1> USE DEF Whole, Reading, Fresh
<1>0. Whole(d) /\ Reading(d) /\ Fresh(d)
  BY DEF HandlerInv
<1>1. CASE Wire \/ SeedList \/ SeedJudgment \/ Bind \/ Arm
  BY <1>0, <1>1 DEF Wire, SeedList, SeedJudgment, Bind, Arm, connVars, storeVars, Seeded
<1>2. CASE Signal \/ Drain \/ Stop
  <2>1. /\ UNCHANGED <<seedQueries, asked, found, reply>>
        /\ conn'[d] \in {conn[d], "none"}
    BY <1>2 DEF Signal, Drain, Stop, TypeOK
  <2> QED
    BY <1>0, <2>1 DEF Seeded, InProgress
<1>3. ASSUME NEW c \in Clients, ClientStep(c) PROVE Whole(d)' /\ Reading(d)' /\ Fresh(d)'
  <2>1. CASE d = c
    BY <1>3, <2>1, OwnHandlerKeeps
  <2>2. CASE d # c
    BY <1>0, <1>3, <2>2, OthersKeep, ClientStepKeeps, ZenonT(60) DEF Seeded
  <2> QED
    BY <2>1, <2>2
<1>4. CASE UNCHANGED vars
  BY <1>0, <1>4 DEF vars, connVars, storeVars, Seeded
<1> QED
  BY <1>1, <1>2, <1>3, <1>4 DEF Next, ClientStep

(* Seeding comes before serving, and a handler's two reads agree.          *)
THEOREM StoresInvariant == Spec => [](SeededFirst /\ HandlerInv)
<1>1. Init => SeededFirst /\ HandlerInv
  BY DEF Init, SeededFirst, Open, HandlerInv, Whole, Reading, Fresh, InProgress
<1> QED
  BY <1>1, TypeCorrect, SeedingInductive, HandlersInductive, PTL DEF Spec

(* Every answer is made from the whole scenario, or from nothing for a     *)
(* query that was not seeded, whatever the signals and the other clients.  *)
THEOREM AnswersAreWhole == Spec => []ServedWhole
<1>1. HandlerInv => ServedWhole
  BY DEF HandlerInv, Whole, ServedWhole
<1> QED
  BY <1>1, StoresInvariant, PTL

(* An accepted request is lost to a signal in the first instants only: the *)
(* shutdown lets handlers finish.                                          *)
THEOREM ReceivedAreAnswered == Spec => ReceivedIsAnswered
<1> DEFINE Kept == \A c \in Clients :
             conn[c] \in {"reading", "judging"} /\ conn'[c] \notin InProgress
               => reply'[c] # NoReply \/ phase' = "killed" \/ Leave(c)
<1>1. TypeOK /\ [Next]_vars => [Kept]_vars
  <2> SUFFICES ASSUME TypeOK, Next, NEW c \in Clients,
                      conn[c] \in {"reading", "judging"}, conn'[c] \notin InProgress
               PROVE  reply'[c] # NoReply \/ phase' = "killed" \/ Leave(c)
    OBVIOUS
  <2>1. CASE Wire \/ SeedList \/ SeedJudgment \/ Bind \/ Arm
    BY <2>1 DEF Wire, SeedList, SeedJudgment, Bind, Arm, connVars, InProgress
  <2>2. CASE Drain \/ Stop \/ Signal
    BY <2>2 DEF Drain, Stop, Signal, TypeOK, InProgress
  <2>3. ASSUME NEW d \in Clients, ClientStep(d)
        PROVE  reply'[c] # NoReply \/ Leave(c)
    <3>1. d = c
      BY <2>3, OthersKeep DEF InProgress
    <3>2. CASE Connect(c) \/ Send(c) \/ Complete(c) \/ ReadCandidates(c)
      BY <3>2 DEF Connect, Send, Complete, Probe, Upgrade, Evaluate, ReadCandidates,
                  Rest, Move, InProgress, TypeOK
    <3>3. CASE Answer(c)
      <4>1. reply'[c] = [found |-> found[c], judged |-> judged \intersect Judgments({asked[c]})]
        BY <3>3 DEF Answer, TypeOK
      <4>2. judged \subseteq (1 .. SeedLimit) \X Docs
        BY DEF TypeOK, Judgments, Seeded
      <4>3. found[c] \in BOOLEAN
        BY DEF TypeOK
      <4> QED
        BY <4>1, <4>2, <4>3
    <3>4. CASE Refuse(c)
      BY <3>4 DEF Refuse, TypeOK
    <3> QED
      BY <2>3, <3>1, <3>2, <3>3, <3>4 DEF ClientStep, Handle
  <2> QED
    BY <2>1, <2>2, <2>3 DEF Next, ClientStep
<1> QED
  BY <1>1, TypeCorrect, PTL DEF Spec, ReceivedIsAnswered
=============================================================================
