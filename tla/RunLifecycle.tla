---------------------------- MODULE RunLifecycle ----------------------------
(***************************************************************************)
(* run_once and the lock, journal and exit code of a run, for several      *)
(* processes that may be started at any time: the scheduler's run beside   *)
(* one started by hand. A run is one process that calls run_once once and  *)
(* owns at most one row of the runs table. What the sweep itself does is   *)
(* RedactionSweep; here it is a period in which worker threads may be at   *)
(* work. Any step may be cut short by an error of the journal, the         *)
(* database or stdout, by a KeyboardInterrupt, or by the death of the      *)
(* process, whose flock the kernel then releases.                          *)
(***************************************************************************)
EXTENDS Naturals, FiniteSets

CONSTANTS
  Runs,            \* the processes
  NoRun,           \* the lock is free
  MaxErrors,       \* bound: errors per run
  MaxInterrupts    \* bound: KeyboardInterrupts per run

ASSUME NoRunAssumption == NoRun \notin Runs
ASSUME BoundsAssumption == MaxErrors \in Nat /\ MaxInterrupts \in Nat

VARIABLES
  pc,          \* where each process stands
  lock,        \* holder of the flock on LOCK_FILE_PATH
  row,         \* status of each run's row, "none" before the insert
  exit,        \* how run_once ended
  working,     \* runs whose worker threads are executing candidates
  failing,     \* runs whose failure_count is not 0
  refused,     \* history: runs that were refused the lock
  errors,      \* errors met by each run
  interrupts,  \* KeyboardInterrupts met by each run
  schema,      \* tables of the journal's database
  missing      \* tables each process has found missing and will create

faultVars == <<errors, interrupts>>
schemaVars == <<schema, missing>>
vars == <<pc, lock, row, exit, working, failing, refused, faultVars, schemaVars>>

Tables == {"runs", "run_failures"}

Statuses == {"none", "running", "completed", "failed", "skipped"}
Exits == {"none", "0", "1", "exception", "killed"}

(* The points between which the lock is held.                              *)
Locked == {"start", "begun", "sweep", "dispatch", "drain", "record", "print",
           "except", "unlock"}
PCs == Locked \cup {"new", "create", "lock", "refused", "close", "printSkip", "end"}

Init ==
  /\ pc = [r \in Runs |-> "new"]
  /\ lock = NoRun
  /\ row = [r \in Runs |-> "none"]
  /\ exit = [r \in Runs |-> "none"]
  /\ working = {}
  /\ failing = {}
  /\ refused = {}
  /\ errors = [r \in Runs |-> 0]
  /\ interrupts = [r \in Runs |-> 0]
  /\ schema \in {{}, Tables} /\ missing = [r \in Runs |-> {}]

Goto(r, point) == pc' = [pc EXCEPT ![r] = point]
Write(r, status) == row' = [row EXCEPT ![r] = status]
Leave(r, code) == exit' = [exit EXCEPT ![r] = code]

-----------------------------------------------------------------------------
(* run_once *)

MissingIfNoRuns == IF "runs" \in schema THEN {} ELSE Tables

(* create_all looks which tables are there ...                             *)
MissingTables == Tables \ schema

CheckSchema(r) ==
  /\ pc[r] = "new"
  /\ missing' = [missing EXCEPT ![r] = MissingTables]
  /\ Goto(r, IF MissingTables = {} THEN "lock" ELSE "create")
  /\ UNCHANGED <<lock, row, exit, working, failing, refused, faultVars, schema>>

(* The table that references the other comes second. *)
NextTable(r) == IF "runs" \in missing[r] THEN "runs" ELSE "run_failures"

(* ... and then issues a CREATE TABLE for each that was not: on SQLite a   *)
(* transaction of its own, and an error if the table is there by now. The  *)
(* lock is not held yet.                                                   *)
CreateTable(r) ==
  /\ pc[r] = "create"
  /\ missing' = [missing EXCEPT ![r] = @ \ {NextTable(r)}]
  /\ schema' = schema \cup {NextTable(r)}
  /\ IF NextTable(r) \in schema
     THEN Goto(r, "end") /\ Leave(r, "exception")
     ELSE /\ Goto(r, IF missing[r] = {NextTable(r)} THEN "lock" ELSE "create")
          /\ UNCHANGED exit
  /\ UNCHANGED <<lock, row, working, failing, refused, faultVars>>

LockIgnored(r) ==
  /\ lock' = r
  /\ Goto(r, "start")
  /\ UNCHANGED refused

(* FileLock.__enter__: flock(LOCK_EX | LOCK_NB), and the holder's stamp.   *)
TryLock(r) ==
  IF lock = NoRun
  THEN lock' = r /\ Goto(r, "start") /\ UNCHANGED refused
  ELSE refused' = refused \cup {r} /\ Goto(r, "refused") /\ UNCHANGED lock

AcquireLock(r) ==
  /\ pc[r] = "lock"
  /\ TryLock(r)
  /\ UNCHANGED <<row, exit, working, failing, faultVars, schemaVars>>

(* Any OSError of flock is reported as a lock that is already held.        *)
FlockError(r) ==
  /\ pc[r] = "lock"
  /\ errors[r] < MaxErrors
  /\ errors' = [errors EXCEPT ![r] = @ + 1]
  /\ refused' = refused \cup {r}
  /\ Goto(r, "refused")
  /\ UNCHANGED <<lock, row, exit, working, failing, interrupts, schemaVars>>

(* journal.start_run *)
StartRun(r) ==
  /\ pc[r] \in {"start", "refused"}
  /\ Write(r, "running")
  /\ Goto(r, IF pc[r] = "start" THEN "begun" ELSE "close")
  /\ UNCHANGED <<lock, exit, working, failing, refused, faultVars, schemaVars>>

(* _execute_locked_run up to its try statement. *)
EnterTry(r) ==
  /\ pc[r] = "begun"
  /\ Goto(r, "sweep")
  /\ UNCHANGED <<lock, row, exit, working, failing, refused, faultVars, schemaVars>>

(* A real run has planned its work and iter_results hands it to the pool;  *)
(* the workers finish it.                                                  *)
BeginWork(r) ==
  /\ pc[r] = "sweep"
  /\ working' = working \cup {r}
  /\ Goto(r, "dispatch")
  /\ UNCHANGED <<lock, row, exit, failing, refused, faultVars, schemaVars>>

EndWork(r) ==
  /\ r \in working
  /\ working' = working \ {r}
  /\ UNCHANGED <<pc, lock, row, exit, failing, refused, faultVars, schemaVars>>

(* The loop over the results counts the first failed redaction.            *)
CountFailure(r) ==
  /\ pc[r] = "dispatch" /\ r \notin failing
  /\ failing' = failing \cup {r}
  /\ UNCHANGED <<pc, lock, row, exit, working, refused, faultVars, schemaVars>>

(* The dispatch is complete, or there is none: a dry run has its report.   *)
EndSweep(r) ==
  /\ \/ pc[r] = "sweep"
     \/ pc[r] = "dispatch" /\ r \notin working
  /\ Goto(r, "record")
  /\ UNCHANGED <<lock, row, exit, working, failing, refused, faultVars, schemaVars>>

(* journal.finish_run: COMPLETED, or FAILED when a redaction failed. *)
Record(r) ==
  /\ pc[r] = "record"
  /\ Write(r, IF r \in failing THEN "failed" ELSE "completed")
  /\ Goto(r, "print")
  /\ UNCHANGED <<lock, exit, working, failing, refused, faultVars, schemaVars>>

AlwaysZero(r) == "0"
ReturnStatus(r) == row[r]

(* return 0 if failure_count == 0 else 1 *)
ReturnCode(r) == IF r \in failing THEN "1" ELSE "0"

PrintSummaryRetries(r) ==
  /\ pc[r] = "print"
  /\ Goto(r, IF ReturnCode(r) = "1" THEN "sweep" ELSE "unlock")
  /\ Leave(r, ReturnCode(r))
  /\ UNCHANGED <<lock, row, working, failing, refused, faultVars, schemaVars>>

PrintSummary(r) ==
  /\ pc[r] = "print"
  /\ Leave(r, ReturnCode(r))
  /\ Goto(r, "unlock")
  /\ UNCHANGED <<lock, row, working, failing, refused, faultVars, schemaVars>>

PoolAbandoned(r) == TRUE

(* Leaving iter_results by an exception shuts the pool down and waits.     *)
PoolDrained(r) == r \notin working

Drain(r) ==
  /\ pc[r] = "drain"
  /\ PoolDrained(r)
  /\ Goto(r, "except")
  /\ UNCHANGED <<lock, row, exit, working, failing, refused, faultVars, schemaVars>>

(* except BaseException: finish_run(FAILED), then the exception goes on.   *)
RecordFailed(r) ==
  /\ pc[r] = "except"
  /\ Write(r, "failed")
  /\ Goto(r, "unlock")
  /\ UNCHANGED <<lock, exit, working, failing, refused, faultVars, schemaVars>>

(* FileLock.__exit__; the finally clause disposes of the engines. *)
Unlock(r) ==
  /\ pc[r] = "unlock"
  /\ lock' = NoRun
  /\ Goto(r, "end")
  /\ UNCHANGED <<row, exit, working, failing, refused, faultVars, schemaVars>>

CloseSkippedAsFailed(r) ==
  /\ pc[r] = "close"
  /\ Write(r, "failed")
  /\ Goto(r, "printSkip")
  /\ UNCHANGED <<lock, exit, working, failing, refused, faultVars, schemaVars>>

(* except LockAcquisitionError: finish_run(SKIPPED) and return 0. *)
CloseSkipped(r) ==
  /\ pc[r] = "close"
  /\ Write(r, "skipped")
  /\ Goto(r, "printSkip")
  /\ UNCHANGED <<lock, exit, working, failing, refused, faultVars, schemaVars>>

PrintSkipped(r) ==
  /\ pc[r] = "printSkip"
  /\ Leave(r, "0")
  /\ Goto(r, "end")
  /\ UNCHANGED <<lock, row, working, failing, refused, faultVars, schemaVars>>

-----------------------------------------------------------------------------
(* Faults *)

PrintOutsideTry(point) ==
  IF point = "dispatch" THEN "drain"
  ELSE IF point \in {"sweep", "drain", "record"} THEN "except"
  ELSE IF point \in {"start", "begun", "print", "except", "unlock"} THEN "unlock"
  ELSE "end"

(* Where an exception raised at a point is handled: the with block of the  *)
(* pool, except BaseException, the with block of the lock, or the caller.  *)
HandlerOf(point) ==
  IF point = "dispatch" THEN "drain"
  ELSE IF point \in {"sweep", "drain", "record", "print"} THEN "except"
  ELSE IF point \in {"start", "begun", "except", "unlock"} THEN "unlock"
  ELSE "end"

Raise(r) ==
  /\ Goto(r, HandlerOf(pc[r]))
  /\ Leave(r, "exception")
  /\ UNCHANGED <<lock, row, working, failing, refused, schemaVars>>

(* A statement that talks to a database or to stdout fails. *)
Error(r) ==
  /\ pc[r] \in {"new", "create", "lock", "start", "sweep", "dispatch", "record",
                "print", "except", "refused", "close", "printSkip"}
  /\ errors[r] < MaxErrors
  /\ errors' = [errors EXCEPT ![r] = @ + 1]
  /\ Raise(r)
  /\ UNCHANGED interrupts

(* Ctrl-C reaches the main thread between any two steps; LOCK_UN is taken  *)
(* as one with the step that leads to it.                                  *)
Interrupt(r) ==
  /\ pc[r] \in PCs \ {"unlock", "end"}
  /\ interrupts[r] < MaxInterrupts
  /\ interrupts' = [interrupts EXCEPT ![r] = @ + 1]
  /\ Raise(r)
  /\ UNCHANGED errors

(* SIGKILL, SIGTERM or a power cut: the threads die with the process and   *)
(* the kernel drops its lock.                                              *)
Kill(r) ==
  /\ pc[r] \notin {"new", "end"}
  /\ Goto(r, "end")
  /\ Leave(r, "killed")
  /\ lock' = IF lock = r THEN NoRun ELSE lock
  /\ working' = working \ {r}
  /\ UNCHANGED <<row, failing, refused, faultVars, schemaVars>>

-----------------------------------------------------------------------------
Step(r) ==
  \/ CreateTable(r) \/ AcquireLock(r) \/ StartRun(r) \/ EnterTry(r)
  \/ BeginWork(r) \/ EndSweep(r) \/ Record(r) \/ PrintSummary(r)
  \/ Drain(r) \/ RecordFailed(r) \/ Unlock(r) \/ CloseSkipped(r) \/ PrintSkipped(r)

Fault(r) == FlockError(r) \/ Error(r) \/ Interrupt(r) \/ Kill(r)

AllEnded == \A r \in Runs : pc[r] = "end"

Next ==
  \/ \E r \in Runs : \/ CheckSchema(r) \/ Step(r)
                     \/ EndWork(r) \/ CountFailure(r) \/ Fault(r)
  \/ AllEnded /\ UNCHANGED vars

(* A process that was started keeps running; its workers finish, since     *)
(* their requests are bounded (MatrixRedaction!Termination). Nothing is    *)
(* assumed about the start of a process.                                   *)
Fairness == \A r \in Runs : WF_vars(Step(r)) /\ WF_vars(EndWork(r))

Spec == Init /\ [][Next]_vars
FairSpec == Spec /\ Fairness

-----------------------------------------------------------------------------
(* Properties *)

TypeOK ==
  /\ pc \in [Runs -> PCs]
  /\ lock \in Runs \cup {NoRun}
  /\ row \in [Runs -> Statuses]
  /\ exit \in [Runs -> Exits]
  /\ working \subseteq Runs /\ failing \subseteq Runs
  /\ refused \subseteq Runs
  /\ errors \in [Runs -> 0..MaxErrors]
  /\ interrupts \in [Runs -> 0..MaxInterrupts]
  /\ schema \subseteq Tables /\ missing \in [Runs -> SUBSET Tables]

(* One run at a time is between taking and releasing the lock, whatever    *)
(* errors, interrupts and deaths the runs meet, and the lock is free when  *)
(* none is: a dead run never blocks the next one.                          *)
OneRunAtATime ==
  \A r \in Runs : pc[r] \in Locked <=> lock = r

(* Worker threads redact only while their run holds the lock, unless a     *)
(* Ctrl-C cut short the wait for them that an earlier fault had begun.     *)
WorkUnderLock ==
  \A r \in working :
    lock = r \/ (interrupts[r] >= 1 /\ errors[r] + interrupts[r] >= 2)

(* The moves of a row's status the journal should see. *)
RowMove(r) ==
  \/ row[r] = "none" /\ row'[r] = "running"
  \/ row[r] = "running" /\ row'[r] = "skipped" /\ r \in refused
  \/ row[r] = "running" /\ row'[r] \in {"completed", "failed"} /\ lock = r
  \/ row[r] = "completed" /\ row'[r] = "failed" /\ lock = r

(* The outcome of a run is written to the journal only while it holds the  *)
(* lock, and a row never returns to an earlier status: the only closed row *)
(* ever written again is a COMPLETED one whose summary could not be        *)
(* printed.                                                                *)
JournalUnderLock == [][\A r \in Runs : row'[r] # row[r] => RowMove(r)]_vars

(* The exit code tells cron what the journal tells the operator, although  *)
(* they are computed apart and faults may come between: 0 is a skipped run *)
(* or a completed one without a failed redaction, 1 a failed one with one; *)
(* and a run that returns either has left no worker behind.                *)
ExitMatchesRow ==
  \A r \in Runs :
    /\ exit[r] = "0" => IF r \in refused THEN row[r] = "skipped"
                        ELSE row[r] = "completed" /\ r \notin failing
    /\ exit[r] = "1" => row[r] = "failed" /\ r \in failing
    /\ exit[r] \in {"0", "1"} => r \notin working

(* One error, wherever it strikes a run that holds the lock and has a row, *)
(* ends in a FAILED row: no single failure leaves it RUNNING or COMPLETED. *)
SingleErrorIsRecorded ==
  \A r \in Runs :
    /\ pc[r] = "end" /\ exit[r] = "exception"
    /\ r \notin refused /\ row[r] # "none"
    /\ errors[r] = 1 /\ interrupts[r] = 0
    => row[r] = "failed"

(* A run has a row only in a journal that also has the table for its       *)
(* failures, however processes raced, failed or died creating the tables.  *)
JournalHasTables == \A r \in Runs : row[r] # "none" => schema = Tables

(* Every run that was started ends, so the lock becomes free again.        *)
Termination == \A r \in Runs : pc[r] # "new" ~> pc[r] = "end"

(* docs/architecture.md:155, "the scheduler is protected by a lock file":  *)
(* no worker thread is at work for a run that does not hold the lock.      *)
WorkOnlyUnderLock == \A r \in working : lock = r

(* test_cli.py:89, a KeyboardInterrupt marks the run as FAILED: here for   *)
(* an interrupt at any moment of a run that has its row and its lock.      *)
InterruptedRunIsFailed ==
  \A r \in Runs :
    /\ pc[r] = "end" /\ exit[r] = "exception"
    /\ r \notin refused /\ row[r] # "none"
    /\ errors[r] = 0 /\ interrupts[r] = 1
    => row[r] = "failed"
==============================================================================
