--------------------------- MODULE RedactionSweep ---------------------------
(***************************************************************************)
(* _execute_locked_run: the planner's report, the sender scope, the token  *)
(* load, keyset pagination with the membership check of each page, the     *)
(* round-robin dispatch and the accounting of its results, while Synapse's *)
(* database changes under it (SynapseState): every query has a snapshot of *)
(* its own.                                                                *)
(*                                                                         *)
(* The scheduler is taken by its contract, SenderDispatch, which           *)
(* SenderRoundRobin is proved to implement; one request with its retries   *)
(* and tokens is MatrixRedaction, here a step with its outcomes. The lock, *)
(* the exit code, printing and faults in the handlers of the run itself    *)
(* are RunLifecycle's.                                                     *)
(***************************************************************************)
EXTENDS Naturals, Sequences, FiniteSets, SequencesExt

CONSTANTS
  Events,                \* events older than the cutoff; numbers ordered as event_id
  Senders, Rooms,
  SenderOf, RoomOf, TsOf,  \* attributes of an event that never change
  InitialCandidates, InitialProfile,
  InitialRights,         \* the pairs tokens and joined may start with
  BatchSize,             \* BATCH_SIZE
  MaxConcurrentSenders,  \* MAX_CONCURRENT_SENDERS
  MaxChanges             \* bound on changes of Synapse's database

ASSUME EventsAssumption == Events \subseteq Nat \ {0} /\ IsFiniteSet(Events)
ASSUME AttributesAssumption ==
  /\ SenderOf \in [Events -> Senders]
  /\ RoomOf \in [Events -> Rooms]
  /\ TsOf \in [Events -> Nat]
ASSUME InitialAssumption ==
  /\ InitialCandidates \subseteq Events
  /\ InitialProfile \in [Senders -> {"remote", "active", "deactivated"}]
  /\ InitialRights \subseteq (SUBSET Senders) \X (SUBSET (Senders \X Rooms))
ASSUME ConfigAssumption ==
  BatchSize \in Nat \ {0} /\ MaxConcurrentSenders \in Nat \ {0}

VARIABLES
  (* Synapse's database, as other clients and the homeserver change it *)
  candidates,   \* events that match _base_candidate_query
  arriving,     \* events of that age the homeserver has not received yet
  profile,      \* "remote" (no row in users), "active" or "deactivated"
  tokens,       \* senders with a valid access token
  joined,       \* <<sender, room>> with membership join
  changes,      \* changes so far
  (* the run *)
  pc, dry_run,
  candidate_count, \* total_candidates, 0 again when the report fails
  reported,     \* keys of counts_by_sender
  scope,        \* sender_scope_map: "unknown" when the sender has no entry
  sender_tokens,\* senders with a non-empty entry in sender_tokens
  last,         \* last event of the previous page, 0 before the first
  batch,        \* what the loop over the page has not classified yet
  unjoined,     \* room_membership_failures of the page
  eligible,     \* eligible_candidates_by_sender
  processed,    \* events read by the pages
  processed_count, success_count, skipped_count, failure_count,
  run_failures, \* rows of run_failures: <<event, failure_kind>>
  status,       \* status of the runs row
  (* the dispatch *)
  phase, work, active, delivered,   \* SenderDispatch
  outcome,      \* how the worker ended for each event
  current,      \* the item whose result the loop handles, 0 between two
  (* history *)
  requested,    \* events for which a Matrix request was made
  steady,       \* candidates ever since the first page was read
  cut_short     \* a second interrupt cut the wait for the workers short

dbVars == <<candidates, arriving, profile, tokens, joined, changes>>
planVars == <<dry_run, candidate_count, reported, scope, sender_tokens>>
pageVars == <<last, batch, unjoined, eligible, processed, processed_count>>
countVars == <<success_count, skipped_count, failure_count, run_failures, status>>
dispatchVars == <<phase, work, active, delivered, outcome, current>>
historyVars == <<requested, steady, cut_short>>
vars == <<dbVars, pc, planVars, pageVars, countVars, dispatchVars, historyVars>>

Synapse == INSTANCE SynapseState
Dispatch == INSTANCE SenderDispatch WITH Items <- Events, Workloads <- {}

Init ==
  /\ candidates = InitialCandidates /\ arriving = Events \ InitialCandidates
  /\ profile = InitialProfile
  /\ \E rights \in InitialRights : tokens = rights[1] /\ joined = rights[2]
  /\ changes = 0
  /\ pc = "total" /\ dry_run \in BOOLEAN /\ candidate_count = 0
  /\ reported = {} /\ scope = [s \in Senders |-> "unknown"] /\ sender_tokens = {}
  /\ last = 0 /\ batch = {} /\ unjoined = {} /\ processed = {}
  /\ eligible = [s \in Senders |-> <<>>]
  /\ processed_count = 0 /\ success_count = 0 /\ skipped_count = 0
  /\ failure_count = 0 /\ run_failures = {} /\ status = "running"
  /\ Dispatch!Init
  /\ outcome = [e \in Events |-> "none"] /\ current = 0
  /\ requested = {} /\ steady = {} /\ cut_short = FALSE

-----------------------------------------------------------------------------
(* The plan *)

(* The keys of count_candidates_by_sender. *)
CandidateSenders == {SenderOf[e] : e \in candidates}

(* get_sender_tokens: who has a token that is neither expired nor puppeted. *)
WithToken(senders) == senders \cap tokens

(* build_dry_run_report counts the candidates ...                          *)
CountCandidates ==
  /\ pc = "total"
  /\ candidate_count' = Cardinality(candidates)
  /\ pc' = "report"
  /\ UNCHANGED <<dbVars, dry_run, reported, scope, sender_tokens, pageVars,
                 countVars, dispatchVars, historyVars>>

(* ... and counts them by sender; its other counts and its sample only go  *)
(* into the summary.                                                       *)
ReportSenders ==
  /\ pc = "report"
  /\ reported' = CandidateSenders
  /\ pc' = "profiles"
  /\ UNCHANGED <<dbVars, dry_run, candidate_count, scope, sender_tokens, pageVars,
                 countVars, dispatchVars, historyVars>>

(* What the row in users, or its absence, says of a sender. *)
ScopeByProfile ==
  [remote |-> "remote_user_unsupported", deactivated |-> "local_user_deactivated",
   active |-> "unchecked"]

(* verify_senders, get_sender_profiles: who is remote or deactivated. *)
VerifyProfiles ==
  /\ pc = "profiles"
  /\ scope' = [s \in Senders |->
       IF s \in reported THEN ScopeByProfile[profile[s]] ELSE "unknown"]
  /\ pc' = "tokens"
  /\ UNCHANGED <<dbVars, dry_run, candidate_count, reported, sender_tokens, pageVars,
                 countVars, dispatchVars, historyVars>>

(* verify_senders, get_sender_tokens: who else cannot redact. A dry run    *)
(* ends with the report.                                                   *)
VerifyTokens ==
  /\ pc = "tokens"
  /\ scope' = [s \in Senders |->
       IF scope[s] # "unchecked" THEN scope[s]
       ELSE IF s \in WithToken(reported) THEN "ok" ELSE "no_valid_access_token"]
  /\ pc' = IF dry_run THEN "finish" ELSE "load"
  /\ UNCHANGED <<dbVars, dry_run, candidate_count, reported, sender_tokens, pageVars,
                 countVars, dispatchVars, historyVars>>

(* The tokens are read again, for the senders that may redact.             *)
LoadTokens ==
  /\ pc = "load"
  /\ sender_tokens' = WithToken({s \in Senders : scope[s] = "ok"})
  /\ steady' = candidates
  /\ pc' = "page"
  /\ UNCHANGED <<dbVars, dry_run, candidate_count, reported, scope, pageVars,
                 countVars, dispatchVars, requested, cut_short>>

-----------------------------------------------------------------------------
(* The pages *)

(* ORDER BY origin_server_ts, event_id *)
Before(d, e) == TsOf[d] < TsOf[e] \/ (TsOf[d] = TsOf[e] /\ d < e)

LaterTimestampOnly(e) == last = 0 \/ TsOf[last] < TsOf[e]
NotBeforeCursor(e) == last = 0 \/ e = last \/ Before(last, e)

(* The keyset condition of iter_candidates. *)
BehindCursor(e) == last = 0 \/ Before(last, e)

PageOneTooMany(rest) ==
  {e \in rest : Cardinality({d \in rest : Before(d, e)}) <= BatchSize}

(* ORDER BY ... LIMIT BATCH_SIZE *)
Page(rest) ==
  {e \in rest : Cardinality({d \in rest : Before(d, e)}) < BatchSize}

PollForever == pc' = "page" /\ UNCHANGED <<phase, work, active, delivered>>

(* An empty page ends the loop; the eligible candidates are dispatched.    *)
EndOfPages ==
  /\ Dispatch!Begin(eligible)
  /\ pc' = IF phase' = "complete" THEN "finish" ELSE "dispatch"

(* iter_candidate_batches yields the page behind the cursor; the query has *)
(* a snapshot of its own.                                                  *)
ReadPage ==
  LET page == Page({e \in candidates : BehindCursor(e)})
  IN  /\ pc = "page"
      /\ IF page = {}
         THEN /\ EndOfPages
              /\ UNCHANGED <<last, batch, processed, processed_count>>
         ELSE /\ last' = CHOOSE e \in page : \A d \in page \ {e} : Before(d, e)
              /\ batch' = page
              /\ processed' = processed \cup page
              /\ processed_count' = processed_count + Cardinality(page)
              /\ pc' = "membership"
              /\ UNCHANGED <<phase, work, active, delivered>>
      /\ UNCHANGED <<dbVars, planVars, unjoined, eligible, countVars, outcome,
                     current, historyVars>>

(* get_joined_room_memberships *)
JoinedPairs(es) == {<<SenderOf[e], RoomOf[e]>> : e \in es} \cap joined

(* find_room_membership_failures *)
MembershipFailures(es) ==
  LET joinedPairs == JoinedPairs(es)
  IN  {e \in es : <<SenderOf[e], RoomOf[e]>> \notin joinedPairs}

(* Memberships are looked up for the candidates of senders in scope.       *)
CheckMembership ==
  /\ pc = "membership"
  /\ unjoined' = MembershipFailures({e \in batch : scope[SenderOf[e]] = "ok"})
  /\ pc' = "classify"
  /\ UNCHANGED <<dbVars, planVars, last, batch, eligible, processed,
                 processed_count, countVars, dispatchVars, historyVars>>

MembershipIgnored(e) == scope[SenderOf[e]] = "ok"

(* The condition that lets a candidate through to its sender's queue.      *)
MayRedact(e) == scope[SenderOf[e]] = "ok" /\ e \notin unjoined

(* The failure_kind of execute_candidate's early returns. *)
SkipKind(e) == IF scope[SenderOf[e]] = "ok" THEN "room_membership" ELSE "sender_scope"

(* journal.record_failure *)
RecordFailure(e, kind) == run_failures' = run_failures \cup {<<e, kind>>}

(* The loop over the page, in its order: a candidate is queued under its   *)
(* sender, or counted as skipped and then journalled; the insert may fail. *)
Classify(e) ==
  /\ pc = "classify"
  /\ e \in batch /\ \A d \in batch : ~Before(d, e)
  /\ batch' = batch \ {e}
  /\ IF MayRedact(e)
     THEN /\ eligible' = [eligible EXCEPT ![SenderOf[e]] = Append(@, e)]
          /\ pc' = IF batch' = {} THEN "page" ELSE "classify"
          /\ UNCHANGED <<skipped_count, run_failures>>
     ELSE /\ skipped_count' = skipped_count + 1
          /\ \/ /\ RecordFailure(e, SkipKind(e))
                /\ pc' = IF batch' = {} THEN "page" ELSE "classify"
             \/ pc' = "except" /\ UNCHANGED run_failures
          /\ UNCHANGED eligible
  /\ UNCHANGED <<dbVars, planVars, last, unjoined, processed, processed_count,
                 success_count, failure_count, status, dispatchVars, historyVars>>

-----------------------------------------------------------------------------
(* The dispatch *)

Take(s) ==
  /\ pc = "dispatch"
  /\ Dispatch!Take(s)
  /\ UNCHANGED <<dbVars, pc, planVars, pageVars, countVars, outcome, current,
                 historyVars>>

(* How a worker ends: a success, an answer without a body taken for one    *)
(* ("redirect"), both of which it reports as a success, a failure, or an   *)
(* exception it lets escape.                                               *)
Reported == {"success", "redirect"}
Returned == Reported \cup {"failure"}
Outcomes == Returned \cup {"raise"}

(* A worker thread runs execute_candidate to its end. Without a loaded     *)
(* token there is no client and no request. The homeserver executes a      *)
(* request only for a valid token of a member. If it has, the worker may   *)
(* still fail (a lost answer); if it has not, it did not answer success.   *)
Execute(f, result) ==
  LET e == f.item
      s == f.sender
  IN  /\ f \in active /\ outcome[e] = "none"
      /\ outcome' = [outcome EXCEPT ![e] = result]
      /\ IF s \notin sender_tokens
         THEN result = "failure" /\ UNCHANGED <<candidates, requested, steady>>
         ELSE /\ requested' = requested \cup {e}
              /\ \/ /\ s \in tokens /\ <<s, RoomOf[e]>> \in joined
                    /\ result # "redirect"
                    /\ candidates' = candidates \ {e}
                    /\ steady' = steady \ {e}
                 \/ result # "success" /\ UNCHANGED <<candidates, steady>>
      /\ UNCHANGED <<arriving, profile, tokens, joined, changes, pc, planVars, pageVars,
                     countVars, phase, work, active, delivered, current, cut_short>>

(* The generator yields a result ... *)
Yield(f) ==
  /\ pc = "dispatch"
  /\ outcome[f.item] \in Returned
  /\ Dispatch!HandBack(f)
  /\ current' = f.item
  /\ pc' = "count"
  /\ UNCHANGED <<dbVars, planVars, pageVars, countVars, outcome, historyVars>>

(* ... or raises what a worker let escape, which aborts the dispatch.      *)
WorkerRaised(f) ==
  /\ pc = "dispatch"
  /\ f \in active /\ outcome[f.item] = "raise"
  /\ Dispatch!Abort
  /\ pc' = "drain"
  /\ UNCHANGED <<dbVars, planVars, pageVars, countVars, outcome, current,
                 historyVars>>

CountedBeforeInsert(e) ==
  /\ failure_count' = failure_count + 1
  /\ run_failures' = run_failures
  /\ pc' = "dispatch"
  /\ UNCHANGED <<phase, work, active, delivered>>

(* A failed redaction is counted and journalled; if the insert fails the   *)
(* generator is closed at its yield.                                       *)
CountFailure(e) ==
  /\ failure_count' = failure_count + 1
  /\ \/ /\ RecordFailure(e, "redaction_request")
        /\ pc' = "dispatch"
        /\ UNCHANGED <<phase, work, active, delivered>>
     \/ /\ UNCHANGED run_failures
        /\ pc' = "drain"
        /\ Dispatch!Abort

SuccessForgotten ==
  /\ pc' = "dispatch"
  /\ UNCHANGED <<success_count, failure_count, run_failures, phase, work, active,
                 delivered>>

CountSuccess ==
  /\ success_count' = success_count + 1
  /\ pc' = "dispatch"
  /\ UNCHANGED <<failure_count, run_failures, phase, work, active, delivered>>

(* What the loop over iter_results does with a result. *)
Count ==
  /\ pc = "count"
  /\ current' = 0
  /\ IF outcome[current] \in Reported
     THEN CountSuccess
     ELSE CountFailure(current) /\ UNCHANGED success_count
  /\ UNCHANGED <<dbVars, planVars, pageVars, skipped_count, status, outcome,
                 historyVars>>

EndDispatch ==
  /\ pc = "dispatch"
  /\ Dispatch!Complete
  /\ pc' = "finish"
  /\ UNCHANGED <<dbVars, planVars, pageVars, countVars, outcome, current,
                 historyVars>>

(* An aborted dispatch waits for the candidates already being executed,    *)
(* and nobody looks at their results.                                      *)
WorkersIdle == \A f \in active : outcome[f.item] # "none"

Drain ==
  /\ pc = "drain"
  /\ WorkersIdle
  /\ pc' = "except"
  /\ UNCHANGED <<dbVars, planVars, pageVars, countVars, dispatchVars, historyVars>>

(* A KeyboardInterrupt during that wait leaves the pool's __exit__ and the *)
(* workers behind, which work on.                                          *)
CutShort ==
  /\ pc = "drain"
  /\ ~WorkersIdle
  /\ cut_short' = TRUE
  /\ pc' = "except"
  /\ UNCHANGED <<dbVars, planVars, pageVars, countVars, dispatchVars, requested,
                 steady>>

-----------------------------------------------------------------------------
(* The end of the run *)

AlwaysCompleted == "completed"

FinalStatus == IF failure_count = 0 THEN "completed" ELSE "failed"

Finish ==
  /\ pc = "finish"
  /\ status' = FinalStatus
  /\ pc' = "done"
  /\ UNCHANGED <<dbVars, planVars, pageVars, success_count, skipped_count,
                 failure_count, run_failures, dispatchVars, historyVars>>

(* except BaseException: the run is FAILED with one failure more.          *)
FinishFailed ==
  /\ pc = "except"
  /\ status' = "failed"
  /\ failure_count' = failure_count + 1
  /\ pc' = "raised"
  /\ UNCHANGED <<dbVars, planVars, pageVars, success_count, skipped_count,
                 run_failures, dispatchVars, historyVars>>

(* A query fails or a KeyboardInterrupt arrives while the main thread is   *)
(* anywhere in the try statement. A report that is not complete is lost.   *)
Fail ==
  /\ \/ /\ pc \in {"total", "report", "profiles", "tokens"}
        /\ pc' = "except"
        /\ candidate_count' = 0
        /\ UNCHANGED <<phase, work, active, delivered>>
     \/ /\ pc \in {"load", "page", "membership", "classify", "finish"}
        /\ pc' = "except"
        /\ UNCHANGED <<candidate_count, phase, work, active, delivered>>
     \/ /\ pc \in {"dispatch", "count"}
        /\ pc' = "drain"
        /\ Dispatch!Abort
        /\ UNCHANGED candidate_count
  /\ UNCHANGED <<dbVars, dry_run, reported, scope, sender_tokens, pageVars,
                 countVars, outcome, current, historyVars>>

-----------------------------------------------------------------------------
(* Synapse's database changes (external).                                  *)
Change ==
  /\ changes < MaxChanges
  /\ changes' = changes + 1
  /\ Synapse!Next
  /\ steady' = steady \cap candidates'
  /\ UNCHANGED <<pc, planVars, pageVars, countVars, dispatchVars, requested,
                 cut_short>>

-----------------------------------------------------------------------------
MainStep ==
  \/ CountCandidates \/ ReportSenders \/ VerifyProfiles \/ VerifyTokens \/ LoadTokens
  \/ ReadPage \/ CheckMembership \/ (\E e \in batch : Classify(e))
  \/ (\E s \in Senders : Take(s)) \/ (\E f \in active : Yield(f) \/ WorkerRaised(f))
  \/ Count \/ EndDispatch \/ Drain \/ Finish \/ FinishFailed

WorkerStep == \E f \in active, result \in Outcomes : Execute(f, result)

Ended == pc \in {"done", "raised"}

Next ==
  \/ MainStep \/ WorkerStep \/ Fail \/ CutShort \/ Change
  \/ (Ended /\ UNCHANGED vars)

(* The main thread runs, and a worker reaches the end of its candidate     *)
(* (MatrixRedaction!Termination).                                          *)
Spec == Init /\ [][Next]_vars
FairSpec == Spec /\ WF_vars(MainStep) /\ WF_vars(WorkerStep)

-----------------------------------------------------------------------------
(* Properties *)

ScopeReasons == {"remote_user_unsupported", "local_user_deactivated",
                 "no_valid_access_token"}

TypeOK ==
  /\ candidates \subseteq Events /\ tokens \subseteq Senders
  /\ joined \subseteq Senders \X Rooms /\ candidate_count \in Nat
  /\ scope \in [Senders -> {"unknown", "unchecked", "ok"} \cup ScopeReasons]
  /\ sender_tokens \subseteq Senders
  /\ last \in Events \cup {0}
  /\ batch \subseteq processed /\ processed \subseteq Events
  /\ Cardinality(batch) <= BatchSize
  /\ eligible \in [Senders -> Seq(Events)] /\ work \in [Senders -> Seq(Events)]
  /\ active \subseteq [sender : Senders, item : Events]
  /\ outcome \in [Events -> {"none"} \cup Outcomes]
  /\ current \in Events \cup {0}
  /\ run_failures \subseteq Events \X {"sender_scope", "room_membership", "redaction_request"}
  /\ status \in {"running", "completed", "failed"}
  /\ requested \subseteq Events /\ steady \subseteq candidates
  /\ cut_short \in BOOLEAN

(* Pages never overlap: however rows come and go between two queries, an   *)
(* event is read, counted and dispatched at most once in a run.            *)
ReadOnce ==
  /\ processed_count = Cardinality(processed)
  /\ \A s \in Senders : IsInjective(eligible[s])

(* Pages leave no gap: once the dispatch has begun, every event that has   *)
(* been a candidate since the first page was read has been read, also when *)
(* equal timestamps straddle a page border or rows before it disappear.    *)
NothingSteadyMissed ==
  pc \in {"dispatch", "count"} \/ (pc = "done" /\ ~dry_run) => steady \subseteq processed

Journalled(kinds) == {e \in Events : \E k \in kinds : <<e, k>> \in run_failures}
WithOutcome(results) == {e \in Events : outcome[e] \in results}

(* The row of a run that reached its end adds up, and the journal explains *)
(* it: each event read was reported redacted, or has one row saying why it *)
(* was not.                                                                *)
(* (RowBalances, below, says this of every moment.)                        *)
CountsAddUp ==
  pc = "done" /\ ~dry_run =>
    /\ processed_count = success_count + skipped_count + failure_count
    /\ success_count = Cardinality(WithOutcome(Reported))
    /\ skipped_count = Cardinality(Journalled({"sender_scope", "room_membership"}))
    /\ failure_count = Cardinality(Journalled({"redaction_request"}))
    /\ WithOutcome({"failure"}) = Journalled({"redaction_request"})
    /\ Cardinality(run_failures) = skipped_count + failure_count

(* An interrupt or an error makes the run forget the outcome of at most as *)
(* many executed candidates as there are worker threads, and it never      *)
(* counts a success no worker reported.                                    *)
LossIsBounded ==
  /\ success_count <= Cardinality(WithOutcome(Reported))
  /\ Cardinality(WithOutcome(Outcomes)) <=
       success_count + failure_count + MaxConcurrentSenders

(* When the run's row is final no thread works for the run any more, but   *)
(* after a second interrupt (what the homeserver still executes late is a  *)
(* Change); and after a COMPLETED real run every candidate it let through  *)
(* is gone from Synapse's candidates, but for those whose redaction was    *)
(* answered without a body.                                                *)
FinalStatusIsTrue ==
  status # "running" =>
    /\ WorkersIdle \/ cut_short
    /\ status = "completed" /\ ~dry_run =>
         \A s \in Senders : \A e \in ToSet(eligible[s]) :
           e \notin candidates \/ outcome[e] = "redirect"

(* What the documents require of a candidate (architecture.md, part 2).    *)
Permitted(e) ==
  /\ e \in candidates
  /\ profile[SenderOf[e]] = "active"
  /\ SenderOf[e] \in tokens
  /\ <<SenderOf[e], RoomOf[e]>> \in joined

(* While nobody else touches the database, a run that reaches its end has  *)
(* requested exactly the redactions the policy permits, every permitted    *)
(* candidate and no other, and its report counted the events it read.      *)
QuietRunIsExact ==
  pc = "done" /\ ~dry_run /\ changes = 0 =>
    /\ requested = {e \in InitialCandidates :
                      /\ profile[SenderOf[e]] = "active"
                      /\ SenderOf[e] \in tokens
                      /\ <<SenderOf[e], RoomOf[e]>> \in joined}
    /\ candidate_count = processed_count

(* A run ends, whatever changes, fails or interrupts it, and so do the     *)
(* workers it may have left behind.                                        *)
Termination == <>(Ended /\ WorkersIdle)

-----------------------------------------------------------------------------
(* The ledger: what the run's rows say of each event *)

(* Let through to its sender's queue. *)
Admitted(e) == e \in ToSet(eligible[SenderOf[e]])

(* Handed back by the scheduler and dealt with by the loop over results. *)
Counted(e) ==
  /\ outcome[e] \in Returned
  /\ e # current /\ \A f \in active : f.item # e

FateOf ==
  [success |-> "succeeded", redirect |-> "succeeded", failure |-> "redaction_request"]

Fate(e) ==
  IF e \notin processed THEN "unread"
  ELSE IF e \in batch \/ (Admitted(e) /\ ~Counted(e)) THEN "pending"
  ELSE IF Admitted(e) THEN FateOf[outcome[e]]
  ELSE SkipKind(e)

Stage ==
  CASE pc \in {"drain", "except"} -> "broken"
    [] pc = "raised" -> "aborted"
    [] pc = "done" -> "complete"
    [] OTHER -> "open"

Ledger == INSTANCE RunLedger WITH fate <- [e \in Events |-> Fate(e)], stage <- Stage

(* A sweep keeps RunLedger's books: whatever its threads, pages and errors *)
(* do, an event is decided once, and counted and journalled as decided.    *)
ImplementsLedger == Ledger!Spec

(* At every moment, and for good in the row of a run that an error or an   *)
(* interrupt ended, the counts and the journal of a sweep agree with what  *)
(* became of the events it read; one decided event at most has no row.     *)
RowBalances == Ledger!Balanced

(* architecture.md:17-24: the conditions hold at the moment of execution,  *)
(* or the event is skipped without an HTTP request.                        *)
PermittedAtRequest == [][\A e \in requested' \ requested : Permitted(e)]_vars
=============================================================================
