------------------------------- MODULE ChatModel -------------------------------
(***************************************************************************)
(* The chat model as crates/reranklab-ai sees it: the errors of error.rs   *)
(* and what HttpChatModel::complete of client.rs makes of an HTTP exchange *)
(* with the endpoint, which is the environment.                            *)
(***************************************************************************)
EXTENDS Integers, Sequences

CONSTANTS
  Statuses,   \* the HTTP statuses the endpoint may answer with
  Bodies,     \* what it may answer: the texts of its choices, in order,
  NoBody      \* or a body that is no such JSON, or breaks off, or stalls
              \* until the client's own timeout

-----------------------------------------------------------------------------
(* AiError                                                                 *)

Reasons == {"transport", "timeout", "status", "parse"}

AiError ==
  [code : {"transport", "timeout", "parse"}, status : {0}]
    \union [code : {"status"}, status : Statuses]

TimeoutError == [code |-> "timeout", status |-> 0]
ParseError == [code |-> "parse", status |-> 0]

IsRetryable(e) ==
  \/ e.code \in {"timeout", "transport"}
  \/ e.code = "status" /\ (e.status = 429 \/ e.status >= 500)

-----------------------------------------------------------------------------
(* complete                                                                *)

\* send() fails before the head of a response is there, or does not.
Exchanges ==
  [sent : {FALSE}, code : {"timeout", "transport"}]
    \union [sent : {TRUE}, status : Statuses, body : Bodies \union {NoBody}]

IsSuccess(status) == status \in 200 .. 299

Completes(x) ==
  /\ x.sent
  /\ IsSuccess(x.status)
  /\ x.body # NoBody
  /\ x.body # <<>>

\* The text of the first choice.
Text(x) == x.body[1]

\* Only send() tells a timeout from other failures: one that strikes while
\* the body is read is a parse error.  The body of a refusal is not read.
Failure(x) ==
  IF ~x.sent THEN [code |-> x.code, status |-> 0]
  ELSE IF ~IsSuccess(x.status) THEN [code |-> "status", status |-> x.status]
  ELSE ParseError
=============================================================================
