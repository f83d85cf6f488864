-------------------------------- MODULE Server --------------------------------
(***************************************************************************)
(* The life of the server of crates/reranklab-node: the `serve` arm of     *)
(* main.rs and run_server and shutdown_signal of startup.rs, from wiring   *)
(* and seeding to the graceful shutdown, with the stores of                *)
(* crates/reranklab-infra/src/store.rs that it fills and serves.           *)
(*                                                                         *)
(* A client holds one connection at a time and asks `evaluate` of a query, *)
(* probes `/health/ready`, or upgrades to an event subscription.  What     *)
(* axum does with connections is modelled from how run_server uses it: the *)
(* graceful shutdown drops the listener, closes idle connections and waits *)
(* for those with a request on them, however long; an upgraded connection  *)
(* is a task of its own that it does not wait for, and that ends with the  *)
(* process.                                                                *)
(***************************************************************************)
EXTENDS Integers

CONSTANTS
  Clients,
  SeedLimit,   \* bound of the model: the largest `--seed-queries`
  Docs,        \* the relevant documents of each seeded query (`--relevant`)
  NoReply,     \* the reply of a client that has none,
  Refused      \* and of one whose request ended in an error

ASSUME ServerAssumption ==
  /\ SeedLimit \in Nat
  /\ NoReply # Refused
  /\ NoReply \notin [found : BOOLEAN, judged : SUBSET ((1 .. SeedLimit) \X Docs)]

VARIABLES
  seedQueries,  \* args.seed_queries
  phase,        \* where main is
  listed,       \* InMemoryCandidateStore: the queries that have a list
  judged,       \* InMemoryJudgmentStore: the judgments <<query, document>>
  signals,      \* what shutdown_signal() is: not polled yet, armed, or over
  conn,         \* what each client's connection is at
  asked,        \* the query of its latest `evaluate`
  found,        \* whether candidates() found a list for it
  reply         \* what the metrics of its latest answer were made from

storeVars == <<listed, judged>>
connVars == <<conn, asked, found, reply>>
vars == <<seedQueries, phase, storeVars, signals, connVars>>

Queries == 1 .. SeedLimit
Judgments(queries) == queries \X Docs
Seeded == 1 .. seedQueries

InProgress == {"sending", "reading", "judging"}

Init ==
  /\ seedQueries \in 0 .. SeedLimit
  /\ phase = "wiring"
  /\ listed = {} /\ judged = {}
  /\ signals = "unpolled"
  /\ conn = [c \in Clients |-> "none"]
  /\ asked = [c \in Clients |-> 0]
  /\ found = [c \in Clients |-> FALSE]
  /\ reply = [c \in Clients |-> NoReply]

-----------------------------------------------------------------------------
(* main                                                                    *)

\* The recorder is installed and the components are built; a recorder that
\* cannot be installed ends main.
Wire ==
  /\ phase = "wiring"
  /\ phase' \in {"seeding", "failed"}
  /\ UNCHANGED <<seedQueries, storeVars, signals, connVars>>

\* seed_scenario: the candidate lists, in the order of the queries,
SeedList ==
  /\ phase = "seeding"
  /\ \E q \in Seeded \ listed :
       /\ 1 .. q - 1 \subseteq listed
       /\ listed' = listed \union {q}
  /\ UNCHANGED <<seedQueries, phase, judged, signals, connVars>>

\* and then the judgments, in the order of a hash map.
SeedJudgment ==
  /\ phase = "seeding"
  /\ Seeded \subseteq listed
  /\ \E j \in Judgments(Seeded) \ judged : judged' = judged \union {j}
  /\ UNCHANGED <<seedQueries, phase, listed, signals, connVars>>

\* Broken variant: the server starts as soon as the lists are there.
BindEarly ==
  /\ phase = "seeding"
  /\ Seeded \subseteq listed
  /\ phase' \in {"serving", "failed"}
  /\ UNCHANGED <<seedQueries, storeVars, signals, connVars>>

\* run_server binds the address once everything is seeded, or fails.
Bind ==
  /\ phase = "seeding"
  /\ Seeded \subseteq listed /\ Judgments(Seeded) \subseteq judged
  /\ phase' \in {"serving", "failed"}
  /\ UNCHANGED <<seedQueries, storeVars, signals, connVars>>

\* shutdown_signal() is polled for the first time and installs its handlers.
\* One that cannot be installed completes its branch of the select at once.
Arm ==
  /\ phase = "serving"
  /\ signals = "unpolled"
  /\ signals' \in {"armed", "over"}
  /\ UNCHANGED <<seedQueries, phase, storeVars, connVars>>

\* SIGINT or SIGTERM.  Until its handler is installed it kills the process;
\* later it ends shutdown_signal(), and after that it does nothing.
Signal ==
  /\ phase \in {"wiring", "seeding", "serving"}
  /\ \/ /\ signals = "unpolled"
        /\ phase' = "killed"
        /\ conn' = [c \in Clients |-> "none"]
        /\ UNCHANGED signals
     \/ /\ signals = "armed"
        /\ signals' = "over"
        /\ UNCHANGED <<phase, conn>>
  /\ UNCHANGED <<seedQueries, storeVars, asked, found, reply>>

\* Broken variant: connections are closed whatever goes on on them.
DrainAbruptly ==
  /\ phase = "serving"
  /\ signals = "over"
  /\ phase' = "draining"
  /\ conn' = [c \in Clients |-> IF conn[c] = "upgraded" THEN "upgraded" ELSE "none"]
  /\ UNCHANGED <<seedQueries, storeVars, signals, asked, found, reply>>

\* The graceful shutdown begins: no more connections, idle ones are closed.
Drain ==
  /\ phase = "serving"
  /\ signals = "over"
  /\ phase' = "draining"
  /\ conn' = [c \in Clients |-> IF conn[c] = "idle" THEN "none" ELSE conn[c]]
  /\ UNCHANGED <<seedQueries, storeVars, signals, asked, found, reply>>

\* Broken variant: subscriptions are waited for as well.
StopAfterSubscribers ==
  /\ phase = "draining"
  /\ \A c \in Clients : conn[c] = "none"
  /\ phase' = "stopped"
  /\ UNCHANGED <<seedQueries, storeVars, signals, connVars>>

\* No request is left: run_server and main return, and the runtime drops
\* what still runs.
Stop ==
  /\ phase = "draining"
  /\ \A c \in Clients : conn[c] \notin InProgress
  /\ phase' = "stopped"
  /\ conn' = [c \in Clients |-> "none"]
  /\ UNCHANGED <<seedQueries, storeVars, signals, asked, found, reply>>

-----------------------------------------------------------------------------
(* Connections                                                             *)

Move(c, from, to) ==
  /\ conn[c] = from
  /\ conn' = [conn EXCEPT ![c] = to]
  /\ UNCHANGED <<seedQueries, phase, storeVars, signals>>

\* Broken variant: connections are kept alive to the end.
RestAlive(c, from) == Move(c, from, "idle")

\* The answer is written; during the shutdown the connection then closes.
Rest(c, from) == Move(c, from, IF phase = "draining" THEN "none" ELSE "idle")

Connect(c) ==
  /\ phase = "serving"
  /\ Move(c, "none", "idle")
  /\ reply' = [reply EXCEPT ![c] = NoReply]
  /\ UNCHANGED <<asked, found>>

\* The client begins to send a request.
Send(c) ==
  /\ Move(c, "idle", "sending")
  /\ reply' = [reply EXCEPT ![c] = NoReply]
  /\ UNCHANGED <<asked, found>>

\* It was a probe of `/health/ready`, answered at once.
Probe(c) ==
  /\ Rest(c, "sending")
  /\ UNCHANGED <<asked, found, reply>>

\* It was a subscription: the connection is upgraded.
Upgrade(c) ==
  /\ Move(c, "sending", "upgraded")
  /\ UNCHANGED <<asked, found, reply>>

\* It was `evaluate` of a query: the handler runs.
Evaluate(c, q) ==
  /\ Move(c, "sending", "reading")
  /\ asked' = [asked EXCEPT ![c] = q]
  /\ UNCHANGED <<found, reply>>

\* candidates(): a clone of the list stored for the query, if any.
ReadCandidates(c) ==
  /\ Move(c, "reading", "judging")
  /\ found' = [found EXCEPT ![c] = asked[c] \in listed]
  /\ UNCHANGED <<asked, reply>>

\* qrels(): a clone of all the judgments, of which the metrics use those of
\* the query.
Answer(c) ==
  /\ Rest(c, "judging")
  /\ reply' = [reply EXCEPT ![c] =
                 [found |-> found[c], judged |-> judged \intersect Judgments({asked[c]})]]
  /\ UNCHANGED <<asked, found>>

\* The handler ends in an error: a blank query before the stores are read, a
\* throttled request or a cutoff of 0 after (module LabApi).
Refuse(c) ==
  /\ Rest(c, "reading") \/ Rest(c, "judging")
  /\ reply' = [reply EXCEPT ![c] = Refused]
  /\ UNCHANGED <<asked, found>>

\* The client goes away; a request of its is dropped.
Leave(c) ==
  /\ conn[c] # "none"
  /\ Move(c, conn[c], "none")
  /\ UNCHANGED <<asked, found, reply>>

Complete(c) == Probe(c) \/ Upgrade(c) \/ \E q \in Queries : Evaluate(c, q)

Handle(c) == ReadCandidates(c) \/ Answer(c) \/ Refuse(c)

Next ==
  \/ Wire \/ SeedList \/ SeedJudgment \/ Bind \/ Arm
  \/ Signal \/ Drain \/ Stop
  \/ \E c \in Clients : Connect(c) \/ Send(c) \/ Complete(c) \/ Handle(c) \/ Leave(c)

Spec == Init /\ [][Next]_vars

\* The runtime polls main and the handlers.  A client that has begun to send
\* a request finishes it or leaves; nobody has to connect or unsubscribe.
FairSpec ==
  /\ Spec
  /\ WF_vars(Wire) /\ WF_vars(SeedList) /\ WF_vars(SeedJudgment) /\ WF_vars(Bind)
  /\ WF_vars(Arm) /\ WF_vars(Drain) /\ WF_vars(Stop)
  /\ \A c \in Clients :
       WF_vars(Handle(c)) /\ WF_vars(Complete(c) \/ (conn[c] = "sending" /\ Leave(c)))

-----------------------------------------------------------------------------
TypeOK ==
  /\ seedQueries \in 0 .. SeedLimit
  /\ phase \in {"wiring", "seeding", "serving", "draining", "stopped", "failed", "killed"}
  /\ listed \subseteq Seeded /\ judged \subseteq Judgments(Seeded)
  /\ signals \in {"unpolled", "armed", "over"}
  /\ phase = "draining" => signals = "over" /\ \A c \in Clients : conn[c] # "idle"
  /\ phase \notin {"serving", "draining"} => \A c \in Clients : conn[c] = "none"
  /\ conn \in [Clients -> {"none", "idle", "upgraded"} \union InProgress]
  /\ asked \in [Clients -> 0 .. SeedLimit]
  /\ found \in [Clients -> BOOLEAN]
  /\ reply \in [Clients -> {NoReply, Refused}
                            \union [found : BOOLEAN, judged : SUBSET judged]]

(***************************************************************************)
(* Metrics are never made from half a scenario: although the stores are    *)
(* filled one insertion at a time and a handler reads them one after the   *)
(* other, an answer has the list of a seeded query together with all of    *)
(* its judgments, and neither for any other query.                         *)
(***************************************************************************)
ServedWhole ==
  \A c \in Clients :
    reply[c] \notin {NoReply, Refused} =>
      reply[c] = [found |-> asked[c] \in Seeded,
                  judged |-> Judgments({asked[c]} \intersect Seeded)]

(***************************************************************************)
(* A request the server has received is answered, a shutdown that begins   *)
(* meanwhile notwithstanding, unless its client leaves.  Only a signal     *)
(* before the handlers are installed loses it.                             *)
(***************************************************************************)
ReceivedIsAnswered ==
  [][\A c \in Clients :
       conn[c] \in {"reading", "judging"} /\ conn'[c] \notin InProgress
         => reply'[c] # NoReply \/ phase' = "killed" \/ Leave(c)]_vars

(***************************************************************************)
(* The shutdown ends although subscribers stay connected and silent: only  *)
(* requests hold it up.                                                    *)
(***************************************************************************)
ShutdownEnds == phase = "serving" /\ signals = "over" ~> phase = "stopped"
=============================================================================
