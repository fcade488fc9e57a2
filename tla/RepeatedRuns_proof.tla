-------------------------- MODULE RepeatedRuns_proof ---------------------------
(* How often runs redact an event, for any events, times, deaths, lost      *)
(* answers, refused tokens and changes.                                     *)
EXTENDS RepeatedRuns, TLAPS

-----------------------------------------------------------------------------
(* The inductive invariant *)

TypeOK ==
  /\ now \in Nat /\ cutoff \in Nat
  /\ run \in {"idle", "planning", "sending"}
  /\ permitted \subseteq Events /\ queue \subseteq Events
  /\ request \in [Events -> {"none", "sent", "executed"}]
  /\ stray \in [Events -> Nat]
  /\ own \in [Events -> Nat]
  /\ givenUp \in [Events -> Nat]
  /\ refusals \in [Events -> Nat]

(* The run is about to redact the event, or has asked for it.               *)
Live(e) == e \in queue \/ request[e] = "sent"

(* Only a sending run has candidates and requests, one of them an event.    *)
OneCall ==
  /\ run # "sending" => queue = {} /\ \A e \in Events : request[e] = "none"
  /\ \A e \in queue : request[e] = "none"

(* A redaction made or still possible beyond one is that of a request given *)
(* up or of a refused token; the one is open as long as the run has not     *)
(* made it and, once nothing is live, the event counts as redacted.         *)
Account ==
  \A e \in Events :
    /\ own[e] + stray[e] <= 1 + givenUp[e] + refusals[e]
    /\ Live(e) \/ e \notin redacted => own[e] + stray[e] <= givenUp[e] + refusals[e]

(* Whatever was asked for was old enough when its run began.                *)
OldEnough ==
  /\ cutoff > 0 => cutoff + TTL <= now
  /\ \A e \in Events :
       Live(e) \/ request[e] # "none" \/ stray[e] > 0 \/ own[e] > 0 => TsOf[e] + TTL < now

IInv == TypeOK /\ OneCall /\ Account /\ OldEnough

-----------------------------------------------------------------------------
LEMMA InitIInv == Init => IInv
BY TimesAssumption DEF Init, IInv, TypeOK, OneCall, Account, OldEnough, Live

LEMMA PlanIInv ==
  ASSUME IInv, StartRun \/ Plan \/ EndRun
  PROVE  IInv'
<1>. USE TimesAssumption DEF IInv, StartRun, Cutoff, Plan, EndRun, Idle
<1>1. TypeOK'
  BY DEF TypeOK, Selected, Expired
<1>2. OneCall'
  <2>1. CASE StartRun \/ EndRun
    BY <2>1 DEF TypeOK, OneCall
  <2>2. CASE Plan
    <3>1. queue' \subseteq Events /\ run' = "sending"
      BY <2>2 DEF TypeOK, Selected
    <3>2. \A e \in Events : request'[e] = "none"
      BY <2>2 DEF OneCall
    <3>. QED
      BY <3>1, <3>2 DEF OneCall
  <2>. QED
    BY <2>1, <2>2
<1>3. Account'
  BY DEF TypeOK, OneCall, Account, Live, Selected
<1>4. OldEnough'
  BY DEF TypeOK, OneCall, OldEnough, Live, Selected, Expired
<1>. QED
  BY <1>1, <1>2, <1>3, <1>4

LEMMA RequestIInv ==
  ASSUME IInv, NEW e \in Events,
         \/ Send(e) \/ Answer(e) \/ GiveUp(e) \/ NextToken(e)
         \/ Execute(e) \/ StrayEnds(e)
  PROVE  IInv'
<1>. USE TimesAssumption
     DEF IInv, Send, Answer, GiveUp, NextToken, Execute, StrayEnds, Redaction, runVars
<1>1. TypeOK'
  BY DEF TypeOK
<1>2. OneCall'
  BY DEF TypeOK, OneCall
<1>3. Account'
  <2>1. CASE Send(e)
    BY <2>1 DEF TypeOK, OneCall, Account, Live
  <2>2. CASE Answer(e)
    BY <2>2 DEF TypeOK, OneCall, Account, Live
  <2>3. CASE GiveUp(e)
    BY <2>3 DEF TypeOK, OneCall, Account, Live
  <2>4. CASE Execute(e)
    BY <2>4 DEF TypeOK, OneCall, Account, Live
  <2>5. CASE StrayEnds(e)
    BY <2>5 DEF TypeOK, OneCall, Account, Live
  <2>6. CASE NextToken(e)
    BY <2>6 DEF TypeOK, OneCall, Account, Live
  <2>. QED
    BY <2>1, <2>2, <2>3, <2>4, <2>5, <2>6
<1>4. OldEnough'
  BY DEF TypeOK, OneCall, OldEnough, Live
<1>. QED
  BY <1>1, <1>2, <1>3, <1>4

LEMMA KillIInv ==
  ASSUME IInv, Kill
  PROVE  IInv'
<1>. USE TimesAssumption DEF IInv
<1>1. /\ run' = "idle" /\ queue' = {}
      /\ request' = [e \in Events |-> "none"]
      /\ UNCHANGED <<now, stored, permitted, redacted, cutoff, own, refusals>>
  BY DEF Kill
<1>2. /\ stray' = [e \in Events |->
                     IF request[e] = "sent" THEN stray[e] + 1 ELSE stray[e]]
      /\ givenUp' = [e \in Events |->
                       IF request[e] = "sent" THEN givenUp[e] + 1 ELSE givenUp[e]]
  BY DEF Kill
<1>3. TypeOK' /\ OneCall'
  BY <1>1, <1>2 DEF TypeOK, OneCall
<1>4. Account'
  BY <1>1, <1>2 DEF TypeOK, Account, Live
<1>5. OldEnough'
  BY <1>1, <1>2 DEF TypeOK, OldEnough, Live
<1>. QED
  BY <1>3, <1>4, <1>5

LEMMA OutsideIInv ==
  ASSUME IInv, Tick \/ \E e \in Events : Receive(e) \/ ChangePermission(e) \/ Moderate(e)
  PROVE  IInv'
<1>. USE TimesAssumption
     DEF IInv, Tick, Receive, ChangePermission, Moderate, runVars
<1>1. TypeOK' /\ OneCall'
  BY DEF TypeOK, OneCall
<1>2. Account'
  BY DEF TypeOK, Account, Live
<1>3. OldEnough'
  BY DEF TypeOK, OldEnough, Live
<1>. QED
  BY <1>1, <1>2, <1>3

LEMMA NextIInv == IInv /\ [Next]_vars => IInv'
<1>. SUFFICES ASSUME IInv, [Next]_vars PROVE IInv'
  OBVIOUS
<1>1. CASE UNCHANGED vars
  BY <1>1 DEF vars, runVars, IInv, TypeOK, OneCall, Account, OldEnough, Live
<1>. QED
  BY <1>1, PlanIInv, RequestIInv, KillIInv, OutsideIInv DEF Next

-----------------------------------------------------------------------------
(* The theorems *)

(* IInv is an invariant of any number of runs, one after another.           *)
THEOREM Inductive == Spec => []IInv
BY InitIInv, NextIInv, PTL DEF Spec

(* Runs redact an event at most once more than their requests for it went   *)
(* unanswered or had a token refused, and never before its time to live is  *)
(* over.                                                                    *)
THEOREM DuplicatesAreBounded == Spec => []DuplicatesNeedLossOrRefusal
<1>1. IInv => DuplicatesNeedLossOrRefusal
  BY TimesAssumption DEF IInv, TypeOK, Account, OldEnough, DuplicatesNeedLossOrRefusal
<1>. QED
  BY <1>1, Inductive, PTL
===============================================================================
