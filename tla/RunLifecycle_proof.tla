-------------------------- MODULE RunLifecycle_proof --------------------------
(* Safety of RunLifecycle for any number of processes, errors and           *)
(* interrupts.                                                              *)
EXTENDS RunLifecycle, TLAPS

-----------------------------------------------------------------------------
(* The inductive invariant *)

(* What a run's row, and whether it was refused, are at each point.         *)
Book(r) ==
  /\ pc[r] \in Locked \cup {"new", "create", "lock"} => r \notin refused
  /\ pc[r] \in {"refused", "close", "printSkip"} => r \in refused
  /\ pc[r] \in {"new", "create", "lock", "start", "refused"} => row[r] = "none"
  /\ pc[r] \in {"begun", "sweep", "dispatch", "drain", "record", "close"} =>
       row[r] = "running"
  /\ pc[r] = "print" => row[r] \in {"completed", "failed"}
  /\ pc[r] = "except" => row[r] \in {"running", "completed", "failed"}
  /\ pc[r] = "printSkip" => row[r] = "skipped"

(* Whether a redaction failed agrees with what has been written since. *)
Tally(r) ==
  /\ pc[r] \in {"new", "create", "lock", "start", "begun", "sweep"} => r \notin failing
  /\ pc[r] = "print" => row[r] = IF r \in failing THEN "failed" ELSE "completed"

(* When a run has an exit code, and what it says.                           *)
Code(r) ==
  /\ pc[r] \notin {"drain", "except", "unlock", "end"} => exit[r] = "none"
  /\ pc[r] \in {"drain", "except"} => exit[r] = "exception"
  /\ exit[r] = "0" => IF r \in refused THEN row[r] = "skipped"
                      ELSE row[r] = "completed" /\ r \notin failing
  /\ exit[r] = "1" => row[r] = "failed" /\ r \in failing

(* A run is on its way out because of a fault; a single error of a run with *)
(* a row leads through the except clause.                                   *)
Faulted(r) ==
  /\ pc[r] \in {"drain", "except"} => errors[r] + interrupts[r] >= 1
  /\ exit[r] = "exception" /\ r \notin refused /\ row[r] # "none"
       /\ errors[r] = 1 /\ interrupts[r] = 0
     => pc[r] \in {"drain", "except"} \/ row[r] = "failed"

(* Workers are at work during the dispatch and its drain, or a fault and a  *)
(* later interrupt have left them behind.                                   *)
Busy(r) ==
  r \in working =>
    \/ pc[r] \in {"dispatch", "drain"}
    \/ /\ pc[r] \in {"except", "unlock", "end"} /\ exit[r] = "exception"
       /\ interrupts[r] >= 1 /\ errors[r] + interrupts[r] >= 2

(* A process creates at least the tables that are not there, and goes on    *)
(* only when none is left: from then on the journal is complete.            *)
Schema(r) ==
  /\ pc[r] = "create" => Tables \ schema \subseteq missing[r]
  /\ pc[r] \notin {"new", "create", "end"} => schema = Tables
  /\ row[r] # "none" => schema = Tables

IInv ==
  /\ TypeOK
  /\ OneRunAtATime
  /\ \A r \in Runs : Book(r) /\ Tally(r) /\ Code(r) /\ Faulted(r) /\ Busy(r) /\ Schema(r)

-----------------------------------------------------------------------------
LEMMA InitIInv == Init => IInv
BY BoundsAssumption, NoRunAssumption
   DEF Init, IInv, TypeOK, OneRunAtATime, Book, Tally, Code, Faulted, Busy, Schema,
       PCs, Locked, Statuses, Exits

(* A handler is a point, and holds the lock exactly if the point of the     *)
(* exception does.                                                          *)
LEMMA HandlerKeepsLock ==
  ASSUME NEW point \in PCs
  PROVE  /\ HandlerOf(point) \in PCs
         /\ HandlerOf(point) \in Locked <=> point \in Locked
         /\ HandlerOf(point) \in {"drain", "except", "unlock", "end"}
BY DEF HandlerOf, PCs, Locked

-----------------------------------------------------------------------------
(* One lemma per group of actions. *)

LEMMA SchemaIInv ==
  ASSUME IInv, NEW r \in Runs, CheckSchema(r) \/ CreateTable(r)
  PROVE  IInv'
<1>. USE NoRunAssumption, BoundsAssumption
     DEF IInv, CheckSchema, MissingTables, CreateTable, Goto, Leave, faultVars
<1>1. NextTable(r) \in Tables /\ schema \subseteq schema'
  BY DEF NextTable, Tables
<1>2. TypeOK'
  <2>1. schema' \subseteq Tables /\ missing' \in [Runs -> SUBSET Tables]
    BY <1>1 DEF TypeOK
  <2>2. pc' \in [Runs -> PCs] /\ exit' \in [Runs -> Exits]
    BY DEF TypeOK, PCs, Exits
  <2>. QED
    BY <2>1, <2>2 DEF TypeOK
<1>3. OneRunAtATime'
  BY DEF TypeOK, OneRunAtATime, Locked
<1>4. \A q \in Runs : Book(q)' /\ Tally(q)'
  BY DEF TypeOK, Book, Tally, Locked
<1>5. \A q \in Runs : Code(q)'
  BY DEF TypeOK, Book, Tally, Code, Locked
<1>6. \A q \in Runs : Faulted(q)' /\ Busy(q)'
  BY DEF TypeOK, Book, Code, Faulted, Busy, Locked
<1>7. \A q \in Runs : Schema(q)'
  <2>1. CASE CheckSchema(r)
    BY <2>1 DEF TypeOK, Schema
  <2>2. CASE CreateTable(r)
    <3>1. schema' \subseteq Tables
      BY <1>2 DEF TypeOK
    <3>2. Tables \ schema' \subseteq missing'[r]
      BY <2>2 DEF TypeOK, Schema
    <3>3. pc'[r] \notin {"create", "end"} => schema' = Tables
      BY <2>2, <3>1 DEF TypeOK, Schema
    <3>4. \A q \in Runs :
            pc[q] \notin {"new", "create", "end"} \/ row[q] # "none"
              => schema' = Tables
      BY <1>1, <3>1 DEF Schema
    <3>5. \A q \in Runs \ {r} : pc'[q] = pc[q] /\ missing'[q] = missing[q]
      BY <2>2 DEF TypeOK
    <3>6. row' = row /\ pc'[r] # "new"
      BY <2>2 DEF TypeOK
    <3>. QED
      BY <1>1, <3>2, <3>3, <3>4, <3>5, <3>6 DEF Schema
  <2>. QED
    BY <2>1, <2>2
<1>. QED
  BY <1>2, <1>3, <1>4, <1>5, <1>6, <1>7

LEMMA LockIInv ==
  ASSUME IInv, NEW r \in Runs,
         AcquireLock(r) \/ FlockError(r) \/ StartRun(r) \/ EnterTry(r)
  PROVE  IInv'
<1>. USE NoRunAssumption, BoundsAssumption
     DEF IInv, AcquireLock, TryLock, FlockError, StartRun, EnterTry,
         Goto, Write, faultVars, schemaVars
<1>1. TypeOK'
  BY DEF TypeOK, PCs, Locked, Statuses
<1>2. OneRunAtATime'
  BY DEF TypeOK, OneRunAtATime, Locked
<1>3. \A q \in Runs : Book(q)' /\ Tally(q)'
  BY DEF TypeOK, Book, Tally, Locked
<1>4. \A q \in Runs : Code(q)'
  BY DEF TypeOK, Book, Tally, Code, Locked
<1>5. \A q \in Runs : Faulted(q)' /\ Busy(q)'
  BY DEF TypeOK, Book, Code, Faulted, Busy, Locked
<1>6. \A q \in Runs : Schema(q)'
  BY DEF TypeOK, Book, Schema, Locked
<1>. QED
  BY <1>1, <1>2, <1>3, <1>4, <1>5, <1>6

LEMMA SweepIInv ==
  ASSUME IInv, NEW r \in Runs,
         BeginWork(r) \/ EndWork(r) \/ CountFailure(r) \/ EndSweep(r) \/ Record(r) \/ PrintSummary(r)
  PROVE  IInv'
<1>. USE NoRunAssumption, BoundsAssumption
     DEF IInv, BeginWork, EndWork, CountFailure, EndSweep, Record, PrintSummary, ReturnCode,
         Goto, Write, Leave, faultVars, schemaVars
<1>1. TypeOK'
  BY DEF TypeOK, PCs, Locked, Statuses, Exits
<1>2. OneRunAtATime'
  BY DEF TypeOK, OneRunAtATime, Locked
<1>3. \A q \in Runs : Book(q)' /\ Tally(q)'
  BY DEF TypeOK, Book, Tally, Locked
<1>4. \A q \in Runs : Code(q)'
  BY DEF TypeOK, Book, Tally, Code, Locked
<1>5. \A q \in Runs : Faulted(q)' /\ Busy(q)'
  BY DEF TypeOK, Book, Code, Faulted, Busy, Locked
<1>6. \A q \in Runs : Schema(q)'
  BY DEF TypeOK, Book, Schema, Locked
<1>. QED
  BY <1>1, <1>2, <1>3, <1>4, <1>5, <1>6

LEMMA ExitIInv ==
  ASSUME IInv, NEW r \in Runs,
         Drain(r) \/ RecordFailed(r) \/ Unlock(r) \/ CloseSkipped(r) \/ PrintSkipped(r)
  PROVE  IInv'
<1>. USE NoRunAssumption, BoundsAssumption
     DEF IInv, Drain, PoolDrained, RecordFailed, Unlock, CloseSkipped, PrintSkipped,
         Goto, Write, Leave, faultVars, schemaVars
<1>1. TypeOK'
  BY DEF TypeOK, PCs, Locked, Statuses, Exits
<1>2. OneRunAtATime'
  BY DEF TypeOK, OneRunAtATime, Locked
<1>3. \A q \in Runs : Book(q)' /\ Tally(q)'
  BY DEF TypeOK, Book, Tally, Locked
<1>4. \A q \in Runs : Code(q)'
  BY DEF TypeOK, Book, Tally, Code, Locked
<1>5. \A q \in Runs : Faulted(q)' /\ Busy(q)'
  BY DEF TypeOK, Book, Code, Faulted, Busy, Locked
<1>6. \A q \in Runs : Schema(q)'
  BY DEF TypeOK, Book, Schema, Locked
<1>. QED
  BY <1>1, <1>2, <1>3, <1>4, <1>5, <1>6

(* What an error or an interrupt at pc[r] does, whichever of the two it is. *)
LEMMA RaiseIInv ==
  ASSUME IInv, NEW r \in Runs, Error(r) \/ Interrupt(r)
  PROVE  IInv'
<1>. USE NoRunAssumption, BoundsAssumption
     DEF IInv, Error, Interrupt, Raise, Goto, Leave, schemaVars
<1>1. /\ pc[r] \in PCs /\ HandlerOf(pc[r]) \in PCs
      /\ HandlerOf(pc[r]) \in Locked <=> pc[r] \in Locked
      /\ HandlerOf(pc[r]) \in {"drain", "except", "unlock", "end"}
  BY HandlerKeepsLock DEF TypeOK
<1>2. TypeOK'
  BY <1>1 DEF TypeOK, Exits
<1>3. OneRunAtATime'
  BY <1>1 DEF TypeOK, OneRunAtATime
<1>4. \A q \in Runs : Book(q)' /\ Tally(q)'
  BY <1>1 DEF TypeOK, Book, Tally, Locked, PCs, HandlerOf
<1>5. \A q \in Runs : Code(q)'
  BY <1>1 DEF TypeOK, Book, Tally, Code, Locked
<1>6. \A q \in Runs : Faulted(q)'
  BY <1>1 DEF TypeOK, Book, Code, Faulted, Locked, PCs, HandlerOf
<1>7. \A q \in Runs : Busy(q)'
  BY <1>1 DEF TypeOK, Faulted, Busy, Locked, PCs, HandlerOf
<1>8. \A q \in Runs : Schema(q)'
  BY <1>1 DEF TypeOK, Book, Schema, Locked, PCs, HandlerOf
<1>. QED
  BY <1>2, <1>3, <1>4, <1>5, <1>6, <1>7, <1>8

LEMMA KillIInv ==
  ASSUME IInv, NEW r \in Runs, Kill(r)
  PROVE  IInv'
<1>. USE NoRunAssumption, BoundsAssumption DEF IInv, Kill, Goto, Leave, faultVars, schemaVars
<1>1. TypeOK'
  BY DEF TypeOK, PCs, Exits
<1>2. OneRunAtATime'
  BY DEF TypeOK, OneRunAtATime, Locked
<1>3. \A q \in Runs : Book(q)' /\ Tally(q)' /\ Code(q)'
  BY DEF TypeOK, Book, Tally, Code, Locked
<1>4. \A q \in Runs : Faulted(q)' /\ Busy(q)'
  BY DEF TypeOK, Faulted, Busy
<1>5. \A q \in Runs : Schema(q)'
  BY DEF TypeOK, Schema
<1>. QED
  BY <1>1, <1>2, <1>3, <1>4, <1>5

LEMMA NextIInv == IInv /\ [Next]_vars => IInv'
<1>. SUFFICES ASSUME IInv, [Next]_vars PROVE IInv'
  OBVIOUS
<1>1. CASE UNCHANGED vars
  BY <1>1 DEF IInv, TypeOK, OneRunAtATime, Book, Tally, Code, Faulted, Busy, Schema, vars,
     faultVars, schemaVars
<1>2. ASSUME NEW r \in Runs, CheckSchema(r) \/ Step(r) \/ EndWork(r) \/ CountFailure(r)
                      \/ Fault(r)
      PROVE  IInv'
  BY <1>2, SchemaIInv, LockIInv, SweepIInv, ExitIInv, RaiseIInv, KillIInv DEF Step, Fault
<1>. QED
  BY <1>1, <1>2 DEF Next

-----------------------------------------------------------------------------
(* The theorems *)

(* IInv is an invariant of run_once in any number of processes.             *)
THEOREM Inductive == Spec => []IInv
BY InitIInv, NextIInv, PTL DEF Spec

(* The type invariant.                                                      *)
THEOREM TypeCorrect == Spec => []TypeOK
<1>1. IInv => TypeOK
  BY DEF IInv
<1>. QED
  BY <1>1, Inductive, PTL

(* The flock lets one run at a time between __enter__ and __exit__, and is  *)
(* free when none is there.                                                 *)
THEOREM Exclusion == Spec => []OneRunAtATime
<1>1. IInv => OneRunAtATime
  BY DEF IInv
<1>. QED
  BY <1>1, Inductive, PTL

(* Threads redact without the lock only after an interrupt that followed    *)
(* another fault.                                                           *)
THEOREM WorkersHoldTheLock == Spec => []WorkUnderLock
<1>1. IInv => WorkUnderLock
  BY DEF IInv, WorkUnderLock, OneRunAtATime, Busy, Locked, TypeOK
<1>. QED
  BY <1>1, Inductive, PTL

(* run_once returns 0 for skipped runs and for completed ones without a     *)
(* failed redaction, 1 for failed ones with one, and then no thread works.  *)
THEOREM ExitCodeIsTrue == Spec => []ExitMatchesRow
<1>1. IInv => ExitMatchesRow
  BY DEF IInv, ExitMatchesRow, Code, Busy
<1>. QED
  BY <1>1, Inductive, PTL

(* A single error of the journal, the database or stdout under the lock     *)
(* ends in a FAILED row.                                                    *)
THEOREM SingleErrorFails == Spec => []SingleErrorIsRecorded
<1>1. IInv => SingleErrorIsRecorded
  BY DEF IInv, SingleErrorIsRecorded, Faulted
<1>. QED
  BY <1>1, Inductive, PTL

(* No process that lost a race or died leaves a journal in which a run has  *)
(* a row but no table for its failures.                                     *)
THEOREM JournalIsComplete == Spec => []JournalHasTables
<1>1. IInv => JournalHasTables
  BY DEF IInv, JournalHasTables, Schema
<1>. QED
  BY <1>1, Inductive, PTL

(* One step writes a row at most as RowMove allows.                         *)
LEMMA JournalStep ==
  ASSUME IInv, [Next]_vars, NEW q \in Runs, row'[q] # row[q]
  PROVE  RowMove(q)
<1>1. /\ row \in [Runs -> Statuses] /\ Book(q)
      /\ pc[q] \in Locked => lock = q
  BY DEF IInv, TypeOK, OneRunAtATime
<1>2. \/ StartRun(q) \/ Record(q) \/ RecordFailed(q) \/ CloseSkipped(q)
  BY <1>1 DEF Next, Step, Fault, vars, CheckSchema, CreateTable, AcquireLock, FlockError, StartRun,
       EnterTry, BeginWork, EndWork, CountFailure, EndSweep, Record, PrintSummary, Drain,
       RecordFailed, Unlock, CloseSkipped, PrintSkipped, Error, Interrupt, Raise,
       Kill, Write
<1>3. CASE StartRun(q)
  BY <1>1, <1>3 DEF StartRun, Write, Book, RowMove
<1>4. CASE Record(q)
  BY <1>1, <1>4 DEF Record, Write, Book, RowMove, Locked
<1>5. CASE RecordFailed(q)
  BY <1>1, <1>5 DEF RecordFailed, Write, Book, RowMove, Locked
<1>6. CASE CloseSkipped(q)
  BY <1>1, <1>6 DEF CloseSkipped, Write, Book, RowMove
<1>. QED
  BY <1>2, <1>3, <1>4, <1>5, <1>6

(* Outcomes are journalled under the lock, and no row goes back.            *)
THEOREM JournalIsOrdered == Spec => JournalUnderLock
<1>1. IInv /\ [Next]_vars => [\A r \in Runs : row'[r] # row[r] => RowMove(r)]_vars
  BY JournalStep
<1>. QED
  BY <1>1, Inductive, PTL DEF Spec, JournalUnderLock
==============================================================================
