--------------------------- MODULE MatrixRedaction ---------------------------
(***************************************************************************)
(* One redaction from the worker thread's side: RedactionExecutor asks the *)
(* sender's SenderTokenClient to redact an event; it tries the sender's    *)
(* access tokens in order, and MatrixClient repeats each request after a   *)
(* time-out, a transport failure, a 429 or a 5xx.                          *)
(*                                                                         *)
(* The homeserver and the network are external: a request may be lost or   *)
(* delayed past the client's time-out and still be executed, its answer    *)
(* may be lost, a token may be revoked at any moment. The homeserver       *)
(* executes a transaction id at most once (Client-Server API); a gateway   *)
(* before it may answer 5xx whatever became of the request, or answer a    *)
(* request it never passes on.                                             *)
(***************************************************************************)
EXTENDS Naturals, FiniteSets

CONSTANTS
  TokenCount,   \* tokens loaded for the sender, in order of preference
  MaxRetries    \* MAX_RETRIES

ASSUME TokenCountAssumption == TokenCount \in Nat
ASSUME MaxRetriesAssumption == MaxRetries \in Nat

Tokens == 1..TokenCount
Attempts == 0..MaxRetries

(* What a response means to the client. "ok" is the homeserver's 200;      *)
(* "redirect" a 3xx without a body; "garbled" a status below 400 whose     *)
(* body is not a JSON object; "401" any M_UNKNOWN_TOKEN.                   *)
Statuses == {"ok", "redirect", "garbled", "401", "403", "429", "5xx"}

VARIABLES
  pc,           \* "start", "send", "await", "sleep", "returned"
  token,        \* the token (client) in use
  attempt,      \* the loop variable of _request_json
  network,      \* requests sent and neither executed nor lost
  answer,       \* the response to the current attempt, once there is one
  result,       \* what execute_candidate returned, or what escaped from it
  valid,        \* tokens the homeserver accepts now
  redactions,   \* transactions that created a redaction event
  received      \* history: every response read, <<token, status>>

vars == <<pc, token, attempt, network, answer, result, valid, redactions,
          received>>
serverVars == <<valid, redactions>>

None == "none"
Failure(retryable, status) ==
  [kind |-> "failure", retryable |-> retryable, status |-> status]
Results ==
  [kind : {"pending", "success", "raised"}]
    \cup [kind : {"failure"}, retryable : BOOLEAN, status : Statuses \cup {None}]

TxnPerAttempt(request) == <<request.token, request.attempt>>

(* The txn_id is drawn once per MatrixClient.redact_event call, that is,   *)
(* once per token; all attempts of the call carry it.                      *)
Txn(request) == <<request.token>>

Init ==
  /\ pc = "start"
  /\ token = 1 /\ attempt = 0
  /\ network = {} /\ answer = None
  /\ result = [kind |-> "pending"]
  /\ valid = Tokens
  /\ redactions = {}
  /\ received = {}

-----------------------------------------------------------------------------
Return(r) == pc' = "returned" /\ result' = r

(* client_provider: a sender without tokens has no client.                 *)
ProvideClient ==
  /\ pc = "start"
  /\ IF TokenCount = 0
     THEN Return(Failure(FALSE, None))
     ELSE pc' = "send" /\ UNCHANGED result
  /\ UNCHANGED <<token, attempt, network, answer, serverVars, received>>

Send ==
  /\ pc = "send"
  /\ network' = network \cup {[token |-> token, attempt |-> attempt]}
  /\ pc' = "await"
  /\ answer' = None
  /\ UNCHANGED <<token, attempt, result, serverVars, received>>

OneAttemptTooMany == attempt <= MaxRetries

(* range(max_retries + 1) has a further attempt. *)
AttemptsLeft == attempt < MaxRetries

(* The attempt failed in a way worth retrying: sleep and try again, or     *)
(* raise a retryable MatrixRequestError when the attempts are used up. It  *)
(* is no token error, so SenderTokenClient passes it on.                   *)
RetryOrFail(status) ==
  IF AttemptsLeft
  THEN pc' = "sleep" /\ UNCHANGED <<token, attempt, result>>
  ELSE Return(Failure(TRUE, status)) /\ UNCHANGED <<token, attempt>>

SameToken(t) == t

(* for client in self._clients *)
NextToken(t) == t + 1

FirstRefusalIsFinal(status) ==
  Return(Failure(FALSE, status)) /\ UNCHANGED <<token, attempt>>

EveryRefusalSwitchesToken(status) ==
  IF token < TokenCount
  THEN token' = NextToken(token) /\ attempt' = 0 /\ pc' = "send" /\ UNCHANGED result
  ELSE Return(Failure(FALSE, status)) /\ UNCHANGED <<token, attempt>>

(* A permanent error: an unknown token hands over to the next token, with  *)
(* a call and a transaction of its own; anything else is final.            *)
NextTokenOrFail(status) ==
  IF status = "401" /\ token < TokenCount
  THEN /\ token' = NextToken(token)
       /\ attempt' = 0
       /\ pc' = "send"
       /\ UNCHANGED result
  ELSE Return(Failure(FALSE, status)) /\ UNCHANGED <<token, attempt>>

ClientErrorsPass == {"ok", "redirect", "403"}

(* A status below 400 with no body or one that decodes; httpx does not     *)
(* follow redirects unless told to.                                        *)
SuccessStatuses == {"ok", "redirect"}

Receive ==
  /\ pc = "await"
  /\ answer # None
  /\ received' = received \cup {<<token, answer>>}
  /\ \/ /\ answer \in SuccessStatuses
        /\ Return([kind |-> "success"]) /\ UNCHANGED <<token, attempt>>
     \/ /\ answer = "garbled"
        /\ Return([kind |-> "raised"]) /\ UNCHANGED <<token, attempt>>
     \/ answer \in {"429", "5xx"} /\ RetryOrFail(answer)
     \/ answer \in {"401", "403"} /\ NextTokenOrFail(answer)
  /\ UNCHANGED <<network, answer, serverVars>>

(* httpx.TimeoutException or TransportError: whatever became of the        *)
(* request, no response to this attempt is read any more.                  *)
Timeout ==
  /\ pc = "await"
  /\ RetryOrFail(None)
  /\ UNCHANGED <<network, answer, serverVars, received>>

(* The sleep between attempts ends. *)
Retry ==
  /\ pc = "sleep"
  /\ attempt' = attempt + 1
  /\ pc' = "send"
  /\ UNCHANGED <<token, network, answer, result, serverVars, received>>

-----------------------------------------------------------------------------
(* The homeserver and the network (external). *)

(* A response reaches the client only while it waits for that attempt.     *)
Respond(request, status) ==
  /\ network' = network \ {request}
  /\ answer' = IF /\ pc = "await" /\ request.token = token
                  /\ request.attempt = attempt /\ answer = None
               THEN status ELSE answer
  /\ UNCHANGED <<pc, token, attempt, result, valid, received>>

(* The homeserver redacts the event, unless it has executed the            *)
(* transaction already; the answer passes a gateway.                       *)
Accept(request, status) ==
  /\ request \in network
  /\ request.token \in valid
  /\ status \in {"ok", "garbled", "5xx"}
  /\ redactions' = redactions \cup {Txn(request)}
  /\ Respond(request, status)

(* The request is refused: for its token, for good, or for the moment; or  *)
(* a gateway redirects it.                                                 *)
Refuse(request, status) ==
  /\ request \in network
  /\ \/ status = "401" /\ request.token \notin valid
     \/ status = "403" /\ request.token \in valid /\ Txn(request) \notin redactions
     \/ status \in {"429", "5xx", "redirect", "garbled"}
  /\ UNCHANGED redactions
  /\ Respond(request, status)

Lose(request) ==
  /\ request \in network
  /\ network' = network \ {request}
  /\ UNCHANGED <<pc, token, attempt, answer, result, serverVars, received>>

Revoke(t) ==
  /\ t \in valid
  /\ valid' = valid \ {t}
  /\ UNCHANGED <<pc, token, attempt, network, answer, result, redactions, received>>

-----------------------------------------------------------------------------
ClientStep == ProvideClient \/ Send \/ Receive \/ Timeout \/ Retry

ServerStep ==
  \/ \E request \in network, status \in Statuses :
       Accept(request, status) \/ Refuse(request, status)
  \/ \E request \in network : Lose(request)
  \/ \E t \in valid : Revoke(t)

Returned == pc = "returned" /\ UNCHANGED vars

Next == ClientStep \/ ServerStep \/ Returned

(* The worker thread runs; a request that is not answered times out        *)
(* (REQUEST_TIMEOUT_SECONDS), and a sleep ends. Nothing is asked of the    *)
(* homeserver.                                                             *)
Spec == Init /\ [][Next]_vars
FairSpec == Spec /\ WF_vars(ClientStep)

-----------------------------------------------------------------------------
(* Properties *)

TypeOK ==
  /\ pc \in {"start", "send", "await", "sleep", "returned"}
  /\ token \in Tokens \cup {1}
  /\ attempt \in Attempts
  /\ network \subseteq [token : Tokens, attempt : Attempts]
  /\ answer \in Statuses \cup {None}
  /\ result \in Results
  /\ valid \subseteq Tokens
  /\ redactions \subseteq {Txn(r) : r \in [token : Tokens, attempt : Attempts]}
  /\ received \subseteq Tokens \X Statuses

(* A success in the run's counts is a redaction in the room, unless the    *)
(* request was redirected: no timed-out, refused or late-answered attempt  *)
(* is taken for one.                                                       *)
SuccessMeansRedacted ==
  result.kind = "success" =>
    redactions # {} \/ \E t \in Tokens : <<t, "redirect">> \in received

Refused == {t \in Tokens : <<t, "401">> \in received}

(* However its attempts are delayed, repeated and executed out of order,   *)
(* an event gets at most one redaction event, and one more for every token *)
(* the homeserver refused on the way: retries of a call never add one.     *)
DuplicatesNeedRefusals == Cardinality(redactions) <= 1 + Cardinality(Refused)

(* A failure is filed as retryable only once the attempts are used up, and *)
(* as a bad token only once every token of the sender was refused.         *)
FailureIsEarned ==
  result.kind = "failure" =>
    IF result.retryable
    THEN attempt = MaxRetries
    ELSE result.status = "401" => Refused = Tokens

(* The next token is tried only after this one was refused as unknown: a   *)
(* rate limit or an outage never makes the client switch tokens.           *)
TokensInOrder == \A t \in Tokens : t < token => t \in Refused

(* The worker thread gets its result, so its sender's turn ends: the       *)
(* attempts, the tokens and every wait are bounded.                        *)
Termination == <>(pc = "returned")

(* docs/architecture.md:180, the application "either performs the redaction *)
(* or explicitly skips the event and writes the reason to the run journal": *)
(* an event counted as a success has been redacted.                        *)
SuccessIsARedaction == result.kind = "success" => redactions # {}
===============================================================================
