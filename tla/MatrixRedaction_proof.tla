------------------------- MODULE MatrixRedaction_proof -------------------------
(* Safety of MatrixRedaction for any number of tokens and retries.           *)
EXTENDS MatrixRedaction, FiniteSetTheorems, TLAPS

-----------------------------------------------------------------------------
(* The inductive invariant *)

(* A request is being made with one of the sender's tokens until there is a  *)
(* result.                                                                   *)
Underway ==
  /\ pc # "returned" <=> result.kind = "pending"
  /\ pc \in {"send", "await", "sleep"} => token \in Tokens
  /\ pc = "start" => token = 1 /\ attempt = 0
  /\ pc = "sleep" => attempt < MaxRetries

(* Requests were sent, and executed, only with the tokens tried so far.      *)
TriedOnly ==
  /\ \A request \in network : request.token <= token
  /\ \A txn \in redactions : \E t \in Tokens : t <= token /\ txn = <<t>>

(* The homeserver's 200 is the answer to a request it has executed.          *)
AnswerIsTrue == answer = "ok" => redactions # {}

IInv ==
  /\ TypeOK
  /\ Underway
  /\ TriedOnly
  /\ AnswerIsTrue
  /\ TokensInOrder
  /\ SuccessMeansRedacted
  /\ FailureIsEarned

Requests == [token : Tokens, attempt : Attempts]

-----------------------------------------------------------------------------
LEMMA InitIInv == Init => IInv
<1>. SUFFICES ASSUME Init PROVE IInv
  OBVIOUS
<1>1. result \in Results /\ result.kind = "pending"
  BY DEF Init, Results
<1>2. TypeOK
  BY <1>1, TokenCountAssumption, MaxRetriesAssumption
     DEF Init, TypeOK, Tokens, Attempts, Statuses, None
<1>3. TokensInOrder
  BY TokenCountAssumption DEF Init, TokensInOrder, Tokens
<1>. QED
  BY <1>1, <1>2, <1>3 DEF Init, IInv, Underway, TriedOnly, AnswerIsTrue, None,
     SuccessMeansRedacted, FailureIsEarned

(* The results a call can end with.                                          *)
LEMMA ResultsOfACall ==
  /\ [kind |-> "success"] \in Results
  /\ [kind |-> "raised"] \in Results
  /\ \A retryable \in BOOLEAN, status \in Statuses \cup {None} :
       Failure(retryable, status) \in Results
BY DEF Results, Failure

(* The client keeps quiet about the room: what is left of the request in use *)
(* after a step of RetryOrFail.                                              *)
LEMMA RetryOrFailIInv ==
  ASSUME IInv, pc = "await", NEW status \in {"429", "5xx", None},
         RetryOrFail(status),
         UNCHANGED <<network, answer, serverVars>>,
         received \subseteq received', received' \subseteq Tokens \X Statuses
  PROVE  IInv'
<1>. USE TokenCountAssumption, MaxRetriesAssumption DEF IInv, serverVars
<1>1. CASE AttemptsLeft
  <2>1. pc' = "sleep" /\ UNCHANGED <<token, attempt, result>>
    BY <1>1 DEF RetryOrFail
  <2>2. TypeOK' /\ Underway' /\ TriedOnly' /\ AnswerIsTrue'
    BY <1>1, <2>1 DEF TypeOK, Underway, TriedOnly, AnswerIsTrue, AttemptsLeft
  <2>3. TokensInOrder' /\ SuccessMeansRedacted' /\ FailureIsEarned'
    BY <2>1 DEF TokensInOrder, Refused, SuccessMeansRedacted, FailureIsEarned, Underway
  <2>. QED
    BY <2>2, <2>3
<1>2. CASE ~AttemptsLeft
  <2>1. /\ pc' = "returned" /\ UNCHANGED <<token, attempt>>
        /\ result' = Failure(TRUE, status)
    BY <1>2 DEF RetryOrFail, Return
  <2>2. result' \in Results
    BY <2>1, ResultsOfACall DEF Statuses
  <2>3. attempt = MaxRetries
    BY <1>2 DEF AttemptsLeft, TypeOK, Attempts
  <2>4. result'.kind = "failure" /\ result'.retryable = TRUE
    BY <2>1 DEF Failure
  <2>5. TypeOK' /\ Underway' /\ TriedOnly' /\ AnswerIsTrue'
    BY <2>1, <2>4, <2>2 DEF TypeOK, Underway, TriedOnly, AnswerIsTrue
  <2>6. TokensInOrder' /\ SuccessMeansRedacted' /\ FailureIsEarned'
    BY <2>1, <2>4, <2>3 DEF TokensInOrder, Refused, SuccessMeansRedacted, FailureIsEarned
  <2>. QED
    BY <2>5, <2>6
<1>. QED
  BY <1>1, <1>2

LEMMA NextTokenOrFailIInv ==
  ASSUME IInv, pc = "await", answer \in {"401", "403"},
         NextTokenOrFail(answer), received' = received \cup {<<token, answer>>},
         UNCHANGED <<network, answer, serverVars>>
  PROVE  IInv'
<1>. USE TokenCountAssumption, MaxRetriesAssumption DEF IInv, serverVars
<1>1. /\ token \in Tokens /\ result.kind = "pending"
      /\ received' \subseteq Tokens \X Statuses
  BY DEF Underway, TypeOK, Statuses
<1>2. CASE answer = "401" /\ token < TokenCount
  <2>1. /\ token' = token + 1 /\ token' \in Tokens /\ attempt' = 0
        /\ pc' = "send" /\ UNCHANGED result
    BY <1>1, <1>2 DEF NextTokenOrFail, NextToken, Tokens
  <2>2. TypeOK' /\ Underway' /\ AnswerIsTrue'
    BY <1>1, <2>1 DEF TypeOK, Attempts, Underway, AnswerIsTrue
  <2>3. TriedOnly'
    <3>1. \A request \in network : request.token \in Int
      BY DEF TypeOK, Tokens
    <3>. QED
      BY <1>1, <2>1, <3>1 DEF TriedOnly, Tokens
  <2>4. TokensInOrder'
    <3>. SUFFICES ASSUME NEW t \in Tokens, t < token' PROVE <<t, "401">> \in received'
      BY DEF TokensInOrder, Refused
    <3>. QED
      BY <1>1, <1>2, <2>1 DEF TokensInOrder, Refused, Tokens
  <2>5. SuccessMeansRedacted' /\ FailureIsEarned'
    BY <1>1, <2>1 DEF SuccessMeansRedacted, FailureIsEarned
  <2>. QED
    BY <2>2, <2>3, <2>4, <2>5
<1>3. CASE ~(answer = "401" /\ token < TokenCount)
  <2>1. /\ pc' = "returned" /\ UNCHANGED <<token, attempt>>
        /\ result' = Failure(FALSE, answer) /\ result' \in Results
    BY <1>3, ResultsOfACall DEF NextTokenOrFail, Return, Statuses
  <2>2. result'.kind = "failure" /\ result'.retryable = FALSE /\ result'.status = answer
    BY <2>1 DEF Failure
  <2>3. TypeOK' /\ Underway' /\ TriedOnly' /\ AnswerIsTrue'
    BY <1>1, <2>1, <2>2 DEF TypeOK, Underway, TriedOnly, AnswerIsTrue
  <2>4. TokensInOrder' /\ SuccessMeansRedacted'
    BY <2>1, <2>2 DEF TokensInOrder, Refused, SuccessMeansRedacted
  <2>5. answer = "401" => Refused' = Tokens
    BY <1>1, <1>3 DEF TokensInOrder, Refused, Tokens
  <2>6. FailureIsEarned'
    BY <2>2, <2>5 DEF FailureIsEarned
  <2>. QED
    BY <2>3, <2>4, <2>6
<1>. QED
  BY <1>2, <1>3

LEMMA ClientIInv == ASSUME IInv, ClientStep PROVE IInv'
<1>. USE TokenCountAssumption, MaxRetriesAssumption
<1>1. CASE ProvideClient
  <2>1. CASE TokenCount = 0
    <3>1. /\ pc' = "returned" /\ UNCHANGED <<token, attempt, network, answer, serverVars, received>>
          /\ result' = Failure(FALSE, None) /\ result' \in Results
      BY <1>1, <2>1, ResultsOfACall DEF ProvideClient, Return
    <3>2. result'.kind = "failure" /\ result'.retryable = FALSE /\ result'.status # "401"
      BY <3>1 DEF Failure, None
    <3>. QED
      BY <3>1, <3>2 DEF IInv, TypeOK, Underway, TriedOnly, AnswerIsTrue,
         TokensInOrder, Refused, SuccessMeansRedacted, FailureIsEarned, serverVars
  <2>2. CASE TokenCount # 0
    BY <1>1, <2>2 DEF ProvideClient, IInv, TypeOK, Underway, TriedOnly,
       AnswerIsTrue, TokensInOrder, Refused, SuccessMeansRedacted,
       FailureIsEarned, serverVars, Tokens
  <2>. QED
    BY <2>1, <2>2
<1>2. CASE Send
  <2>1. /\ token \in Tokens /\ attempt \in Attempts
        /\ [token |-> token, attempt |-> attempt] \in Requests
    BY <1>2 DEF Send, IInv, Underway, TypeOK, Requests
  <2>2. TypeOK'
    BY <1>2, <2>1 DEF Send, IInv, TypeOK, Requests, None, serverVars
  <2>3. TriedOnly'
    BY <1>2, <2>1 DEF Send, IInv, TriedOnly, serverVars, Tokens
  <2>4. Underway' /\ AnswerIsTrue'
    BY <1>2 DEF Send, IInv, Underway, AnswerIsTrue, None
  <2>5. TokensInOrder' /\ SuccessMeansRedacted' /\ FailureIsEarned'
    BY <1>2 DEF Send, IInv, TokensInOrder, Refused, SuccessMeansRedacted,
       FailureIsEarned, serverVars
  <2>. QED
    BY <2>2, <2>3, <2>4, <2>5 DEF IInv
<1>3. CASE Receive
  <2>1. /\ pc = "await" /\ answer \in Statuses /\ token \in Tokens
        /\ result.kind = "pending"
        /\ received' = received \cup {<<token, answer>>}
        /\ received' \subseteq Tokens \X Statuses
        /\ UNCHANGED <<network, answer, serverVars>>
    BY <1>3 DEF Receive, IInv, TypeOK, Underway
  <2>2. CASE answer \in SuccessStatuses /\ Return([kind |-> "success"])
               /\ UNCHANGED <<token, attempt>>
    <3>1. result' \in Results /\ result'.kind = "success" /\ pc' = "returned"
      BY <2>2, ResultsOfACall DEF Return
    <3>2. SuccessMeansRedacted'
      BY <2>1, <2>2 DEF IInv, AnswerIsTrue, SuccessMeansRedacted, SuccessStatuses, serverVars
    <3>3. TypeOK' /\ Underway' /\ TriedOnly' /\ AnswerIsTrue'
      BY <2>1, <2>2, <3>1 DEF IInv, TypeOK, Underway, TriedOnly, AnswerIsTrue, serverVars
    <3>4. TokensInOrder' /\ FailureIsEarned'
      BY <2>1, <2>2, <3>1 DEF IInv, TokensInOrder, Refused, FailureIsEarned
    <3>. QED
      BY <3>2, <3>3, <3>4 DEF IInv
  <2>3. CASE Return([kind |-> "raised"]) /\ UNCHANGED <<token, attempt>>
    <3>1. result' \in Results /\ result'.kind = "raised" /\ pc' = "returned"
      BY <2>3, ResultsOfACall DEF Return
    <3>2. TypeOK' /\ Underway' /\ TriedOnly' /\ AnswerIsTrue'
      BY <2>1, <2>3, <3>1 DEF IInv, TypeOK, Underway, TriedOnly, AnswerIsTrue, serverVars
    <3>3. TokensInOrder' /\ SuccessMeansRedacted' /\ FailureIsEarned'
      BY <2>1, <2>3, <3>1 DEF IInv, TokensInOrder, Refused, SuccessMeansRedacted,
         FailureIsEarned
    <3>. QED
      BY <3>2, <3>3 DEF IInv
  <2>4. CASE answer \in {"429", "5xx"} /\ RetryOrFail(answer)
    BY <2>1, <2>4, RetryOrFailIInv
  <2>5. CASE answer \in {"401", "403"} /\ NextTokenOrFail(answer)
    BY <2>1, <2>5, NextTokenOrFailIInv
  <2>. QED
    BY <1>3, <2>2, <2>3, <2>4, <2>5 DEF Receive
<1>4. CASE Timeout
  BY <1>4, RetryOrFailIInv DEF Timeout, IInv, TypeOK
<1>5. CASE Retry
  <2>1. TypeOK'
    BY <1>5 DEF Retry, IInv, TypeOK, Underway, Attempts, serverVars
  <2>2. Underway' /\ TriedOnly' /\ AnswerIsTrue'
    BY <1>5 DEF Retry, IInv, Underway, TriedOnly, AnswerIsTrue, serverVars
  <2>3. TokensInOrder' /\ SuccessMeansRedacted' /\ FailureIsEarned'
    BY <1>5 DEF Retry, IInv, Underway, TokensInOrder, Refused, SuccessMeansRedacted,
       FailureIsEarned, serverVars
  <2>. QED
    BY <2>1, <2>2, <2>3 DEF IInv
<1>. QED
  BY <1>1, <1>2, <1>3, <1>4, <1>5 DEF ClientStep

(* A response leaves everything but the network, the answer and the room as  *)
(* it was.                                                                   *)
LEMMA RespondIInv ==
  ASSUME IInv, NEW request \in network, NEW status \in Statuses,
         Respond(request, status),
         \/ UNCHANGED redactions /\ status # "ok"
         \/ redactions' = redactions \cup {<<request.token>>}
  PROVE  IInv'
<1>1. /\ request \in Requests /\ request.token \in Tokens
      /\ request.token <= token
  BY DEF IInv, TypeOK, TriedOnly, Requests
<1>2. TypeOK'
  <2>1. redactions' \subseteq {Txn(r) : r \in Requests}
    BY <1>1 DEF IInv, TypeOK, Txn, Requests
  <2>. QED
    BY <2>1 DEF Respond, IInv, TypeOK, Requests
<1>3. TriedOnly'
  BY <1>1 DEF Respond, IInv, TriedOnly
<1>4. Underway' /\ AnswerIsTrue'
  BY DEF Respond, IInv, Underway, AnswerIsTrue
<1>5. TokensInOrder' /\ SuccessMeansRedacted' /\ FailureIsEarned'
  BY DEF Respond, IInv, TokensInOrder, Refused, SuccessMeansRedacted, FailureIsEarned
<1>. QED
  BY <1>2, <1>3, <1>4, <1>5 DEF IInv

LEMMA ServerIInv == ASSUME IInv, ServerStep PROVE IInv'
<1>1. ASSUME NEW request \in network, NEW status \in Statuses,
             Accept(request, status)
      PROVE  IInv'
  BY <1>1, RespondIInv DEF Accept, Txn
<1>2. ASSUME NEW request \in network, NEW status \in Statuses,
             Refuse(request, status)
      PROVE  IInv'
  BY <1>2, RespondIInv DEF Refuse
<1>3. ASSUME NEW request \in network, Lose(request)
      PROVE  IInv'
  BY <1>3 DEF Lose, IInv, TypeOK, Underway, TriedOnly, AnswerIsTrue, TokensInOrder,
     Refused, SuccessMeansRedacted, FailureIsEarned, serverVars
<1>4. ASSUME NEW t \in valid, Revoke(t)
      PROVE  IInv'
  BY <1>4 DEF Revoke, IInv, TypeOK, Underway, TriedOnly, AnswerIsTrue,
     TokensInOrder, Refused, SuccessMeansRedacted, FailureIsEarned
<1>. QED
  BY <1>1, <1>2, <1>3, <1>4 DEF ServerStep

LEMMA NextIInv == IInv /\ [Next]_vars => IInv'
<1>. SUFFICES ASSUME IInv, [Next]_vars PROVE IInv'
  OBVIOUS
<1>1. CASE UNCHANGED vars
  BY <1>1 DEF vars, IInv, TypeOK, Underway, TriedOnly, AnswerIsTrue, TokensInOrder,
     Refused, SuccessMeansRedacted, FailureIsEarned
<1>. QED
  BY <1>1, ClientIInv, ServerIInv DEF Next, Returned

(* The redactions are at most one for each token tried, and all but the      *)
(* token in use were refused.                                                *)
LEMMA CountDuplicates == IInv => DuplicatesNeedRefusals
<1>. SUFFICES ASSUME IInv PROVE DuplicatesNeedRefusals
  OBVIOUS
<1>. USE TokenCountAssumption
<1>1. token \in Nat \ {0}
  BY DEF IInv, TypeOK, Tokens
<1>2. 1..token-1 \subseteq Refused
  BY <1>1 DEF IInv, TypeOK, TokensInOrder, Tokens
<1>3. IsFiniteSet(Refused)
  <2>1. IsFiniteSet(1..TokenCount)
    BY FS_Interval
  <2>2. Refused \subseteq 1..TokenCount
    BY DEF Refused, Tokens
  <2>. QED
    BY <2>1, <2>2, FS_Subset
<1>4. Cardinality(1..token-1) <= Cardinality(Refused)
  BY <1>2, <1>3, FS_Subset
<1>5. Cardinality(1..token-1) = token - 1
  BY <1>1, FS_Interval
<1>6. Cardinality(redactions) <= token /\ Cardinality(redactions) \in Int
  <2>. DEFINE Tried == 1..token
              F == [t \in Tried |-> <<t>>]
              Txns == {<<t>> : t \in Tried}
  <2>1. IsFiniteSet(Tried) /\ Cardinality(Tried) = token
    BY <1>1, FS_Interval
  <2>2. F \in Surjection(Tried, Txns)
    BY DEF Surjection
  <2>3. IsFiniteSet(Txns) /\ Cardinality(Txns) <= Cardinality(Tried)
    BY <2>1, <2>2, FS_Surjection
  <2>4. redactions \subseteq Txns
    BY DEF IInv, TriedOnly, Tokens
  <2>. QED
    <3>1. IsFiniteSet(redactions) /\ Cardinality(redactions) <= Cardinality(Txns)
      BY <2>3, <2>4, FS_Subset
    <3>2. /\ Cardinality(redactions) \in Nat /\ Cardinality(Txns) \in Nat
      BY <2>3, <3>1, FS_CardinalityType
    <3>. QED
      BY <1>1, <2>1, <2>3, <3>1, <3>2
<1>7. Cardinality(Refused) \in Nat
  BY <1>3, FS_CardinalityType
<1>. QED
  BY <1>1, <1>4, <1>5, <1>6, <1>7 DEF DuplicatesNeedRefusals

-----------------------------------------------------------------------------
(* The theorems *)

(* IInv is an invariant of a redaction with any number of tokens and retries. *)
THEOREM Inductive == Spec => []IInv
BY InitIInv, NextIInv, PTL DEF Spec

(* The type invariant. *)
THEOREM TypeCorrect == Spec => []TypeOK
<1>1. IInv => TypeOK
  BY DEF IInv
<1>. QED
  BY <1>1, Inductive, PTL

(* A success that was no redirect is a redaction in the room.                *)
THEOREM SuccessIsTrue == Spec => []SuccessMeansRedacted
<1>1. IInv => SuccessMeansRedacted
  BY DEF IInv
<1>. QED
  BY <1>1, Inductive, PTL

(* Retries never add a redaction event, only a refused token can.            *)
THEOREM DuplicatesAreBounded == Spec => []DuplicatesNeedRefusals
BY CountDuplicates, Inductive, PTL

(* redact_event reports a retryable failure only after all attempts, and an  *)
(* unknown token only after all tokens.                                      *)
THEOREM FailuresAreEarned == Spec => []FailureIsEarned
<1>1. IInv => FailureIsEarned
  BY DEF IInv
<1>. QED
  BY <1>1, Inductive, PTL

(* SenderTokenClient goes on to the next token only after a refusal.         *)
THEOREM TokensAreInOrder == Spec => []TokensInOrder
<1>1. IInv => TokensInOrder
  BY DEF IInv
<1>. QED
  BY <1>1, Inductive, PTL
==============================================================================
