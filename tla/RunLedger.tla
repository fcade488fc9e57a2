------------------------------ MODULE RunLedger ------------------------------
(***************************************************************************)
(* What a run's row in runs and its rows in run_failures say of the events *)
(* the run has read, with the plan, the pages, the threads and Synapse's   *)
(* database abstracted away:                                               *)
(*                                                                         *)
(*   - an event that is read is decided at most once: it is skipped for    *)
(*     one reason, or its redaction succeeds or fails as far as the run is *)
(*     told, and each is counted;                                          *)
(*   - why it was skipped or failed is journalled with the count, unless   *)
(*     that very insert breaks the run;                                    *)
(*   - a run is complete only when it has decided every event it has read, *)
(*     and one that breaks is FAILED with one failure more than events.    *)
(***************************************************************************)
EXTENDS Naturals, FiniteSets

CONSTANT Events

VARIABLES
  fate,         \* of each event: "unread", "pending", or how it was decided
  stage,        \* "open", "broken", "complete" or "aborted"
  processed_count, success_count, skipped_count, failure_count,
  run_failures, \* rows of run_failures: <<event, failure_kind>>
  status        \* status of the runs row

counts == <<processed_count, success_count, skipped_count, failure_count>>
vars == <<fate, stage, counts, run_failures, status>>

SkipKinds == {"sender_scope", "room_membership"}
Kinds == SkipKinds \cup {"redaction_request"}

With(fates) == {e \in Events : fate[e] \in fates}

Init ==
  /\ fate = [e \in Events |-> "unread"] /\ stage = "open"
  /\ processed_count = 0 /\ success_count = 0
  /\ skipped_count = 0 /\ failure_count = 0
  /\ run_failures = {} /\ status = "running"

(* A page of events nobody has read is read and counted as processed.      *)
Read(page) ==
  /\ stage = "open" /\ page # {}
  /\ processed_count' = processed_count + Cardinality(page)
  /\ page \subseteq With({"unread"})
  /\ fate' = [e \in Events |-> IF e \in page THEN "pending" ELSE fate[e]]
  /\ UNCHANGED <<stage, success_count, skipped_count, failure_count, run_failures,
                 status>>

Decide(e, how) ==
  /\ stage = "open" /\ fate[e] = "pending"
  /\ fate' = [fate EXCEPT ![e] = how]

(* record_failure inserts and commits the row, or raises. *)
Journal(e, kind) ==
  \/ run_failures' = run_failures \cup {<<e, kind>>} /\ UNCHANGED stage
  \/ stage' = "broken" /\ UNCHANGED run_failures

Skip(e, kind) ==
  /\ skipped_count' = skipped_count + 1
  /\ Decide(e, kind) /\ Journal(e, kind)
  /\ UNCHANGED <<processed_count, success_count, failure_count, status>>

Succeed(e) ==
  /\ success_count' = success_count + 1
  /\ Decide(e, "succeeded")
  /\ UNCHANGED <<stage, processed_count, skipped_count, failure_count, run_failures,
                 status>>

FailOne(e) ==
  /\ failure_count' = failure_count + 1
  /\ Decide(e, "redaction_request") /\ Journal(e, "redaction_request")
  /\ UNCHANGED <<processed_count, success_count, skipped_count, status>>

(* finish_run: every event read has been decided. *)
Complete ==
  /\ stage = "open" /\ With({"pending"}) = {}
  /\ stage' = "complete"
  /\ status' = IF failure_count = 0 THEN "completed" ELSE "failed"
  /\ UNCHANGED <<fate, counts, run_failures>>

(* An error or an interrupt: nothing is decided, counted or journalled any *)
(* more ...                                                                *)
Break ==
  /\ stage = "open"
  /\ stage' = "broken"
  /\ UNCHANGED <<fate, counts, run_failures, status>>

(* ... and finish_run makes the row FAILED with one failure more.          *)
Abort ==
  /\ stage = "broken"
  /\ stage' = "aborted" /\ status' = "failed"
  /\ failure_count' = failure_count + 1
  /\ UNCHANGED <<fate, processed_count, success_count, skipped_count, run_failures>>

Next ==
  \/ \E page \in SUBSET Events : Read(page)
  \/ \E e \in Events : \/ Succeed(e) \/ FailOne(e)
                       \/ \E kind \in SkipKinds : Skip(e, kind)
  \/ Complete \/ Break \/ Abort

Spec == Init /\ [][Next]_vars

-----------------------------------------------------------------------------
Explained == {e \in Events : <<e, fate[e]>> \in run_failures}

(* At every moment, also in the row of an aborted run, each count is the   *)
(* number of events with that fate, but for the failure that stands for    *)
(* the abort; every row of the journal is about an event with that fate;   *)
(* and of the events counted as skipped or failed at most one has no row,  *)
(* the one whose insert broke the run.                                     *)
Balanced ==
  /\ processed_count = Cardinality(Events \ With({"unread"}))
  /\ success_count = Cardinality(With({"succeeded"}))
  /\ skipped_count = Cardinality(With(SkipKinds))
  /\ failure_count = Cardinality(With({"redaction_request"}))
                       + (IF stage = "aborted" THEN 1 ELSE 0)
  /\ run_failures \subseteq {<<e, fate[e]>> : e \in With(Kinds)}
  /\ \A d, e \in With(Kinds) \ Explained : d = e
  /\ With(Kinds) # Explained => stage \in {"broken", "aborted"}
  /\ stage = "complete" => With({"pending"}) = {}
  /\ status = CASE stage = "aborted" -> "failed"
                [] stage = "complete" -> IF failure_count = 0 THEN "completed" ELSE "failed"
                [] OTHER -> "running"
=============================================================================
