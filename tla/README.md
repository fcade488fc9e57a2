# Formal model of matrix-redactor

matrix-redactor sweeps a Synapse homeserver for events older than a TTL and
redacts each of them through the Matrix client API with an access token of its
own sender. This directory holds TLA+ modules for the parts of that program
that are hard to test, TLC configurations that check them on small instances,
and proofs, checked by TLAPS, of what holds for instances of every size.
Paths below are relative to `src/src/europeya_matrix_redactor/`.

## The system

| Part | Code | State | Operations |
| --- | --- | --- | --- |
| Round-robin scheduler | `services/sender_round_robin.py` | a deque of items per sender, the ready deque, the in-flight futures, a thread pool | `iter_results` (a generator), `_fill_worker_pool` |
| Redaction request | `services/executor.py`, `SenderTokenClient` in `cli.py`, `clients/matrix_client.py` | token in use, attempt, transaction id | `execute_candidate`, `redact_event`, `_request_json` and its sleeps |
| Run lifecycle | `run_once`, `_execute_locked_run` in `cli.py`, `locks.py`, `services/run_journal.py`, `ensure_app_state_schema` in `db/engine.py` | the journal's tables, the flock, one row of `runs` per run, whether a redaction failed, the exit code | create the tables, take the lock, `start_run`, `finish_run`, the except clauses, release |
| Sweep | `_execute_locked_run`, `services/planner.py`, `services/room_access.py`, `db/repositories.py` | sender scope, tokens, page cursor, eligible candidates by sender, four counters, rows of `run_failures` | report, scope check, token load, pages, membership check, dispatch, accounting |
| Repeated runs | all of the above under cron | what one run leaves to the next: redactions, journal rows, requests nobody waits for | select anew, request, give up, die |
| Synapse database | `db/synapse_schema.py`, the queries of `db/repositories.py` | events, redactions, users, tokens and their activity, memberships | read by the queries; written by the homeserver at any time |
| Synapse connection | `build_synapse_engine` in `db/engine.py` | transaction mode of a pooled connection | listeners on connect, check out, query, check in |
| Configuration, command line, health check, crontab, logging | `config.py`, `cli.py`, `scheduler.py`, `logging.py` | none the run depends on after start-up | parsing, formatting, one-shot calls |

How they interact: `run_once` creates the journal's tables, takes the lock,
inserts the run's row and calls `_execute_locked_run`, which reads Synapse's
database page by page, queues the candidates it may redact under their senders,
and hands the queues to the scheduler. The scheduler runs `execute_candidate` in
pool threads, at most one per sender, and yields results to the main thread,
which counts them and writes failures to the journal. The worker threads share
nothing with the main thread but the futures and a dictionary of clients behind
a `Lock`.

What is hard: futures that finish in any order; a generator that may be left
at any point while threads work; threads that sleep as long as the homeserver
likes; Ctrl-C, errors and process death between any two writes; a database that
changes between queries; requests executed after their time-out, or after the
death of the run that sent them; a second process started by hand.

What makes each part correct is listed with the modules below; the single
hazards, with the line where each bites and the properties about it, are in
`PROJECT.json`.

## Modules

How they build on each other:

    SenderDispatch  <--implements--  SenderRoundRobin  <--extends--  SenderCooldown
         ^                                                           (+ sleeping workers)
         | uses
    RedactionSweep  --uses-->  SynapseState  <--implements--  SynapseTables
         | implements
         v
    RunLedger
    MatrixRedaction (one request)   RunLifecycle (processes)
    RepeatedRuns (run after run)    SynapseSession (a connection)

**SenderDispatch** is the abstract contract of the scheduler: per sender, items
are worked on one at a time and in order; at most `MaxConcurrentSenders`
senders at once; each item handed back exactly once, unless the dispatch is
aborted.

**SenderRoundRobin** is the scheduler itself. `pc` is the place of the generator:
`fill` in `_fill_worker_pool`, `wait` in `wait(...)`, `deliver` in the loop over
`completed`, `yielded` suspended at its `yield`, `shutdown` in the `__exit__` of
the pool. One turn of the fill loop, one popped future and one resumption are
one action each; an interrupt falls between two of them.
A future is the record of its sender and item, so the keys of the dict
`in_flight` carry its values. The pool (`queued`, `running`,
`finished`, `raised`) is external. `Unwind` is a KeyboardInterrupt, or a consumer
that fails at the yield; `CutShort` is a further interrupt during the join that
`Unwind` leads to, after which the generator is `abandoned` with its threads at
work. It implements SenderDispatch: `work` is
`sender_queues`, `active` the futures whose outcome the consumer has not been
given, `delivered` the results yielded.

**SenderCooldown** extends it with what `MatrixClient` does in a pool thread
between two attempts: a request answered 429 puts the thread to sleep
(`cooling`) and keeps its place in `in_flight`. The scheduler's actions are
SenderRoundRobin's, unchanged; which senders are limited and how long a sleep
lasts is the homeserver's choice.

**MatrixRedaction** is one call of `execute_candidate` from a worker's side, with
the network and homeserver as environment: a request may be lost, executed after
its time-out or answered by a gateway, an answer may be lost, tokens may be
revoked at any time. The homeserver executes a transaction id once.

**RunLifecycle** is `run_once` in several processes. `pc` names the statement a
run has reached; `CheckSchema` and `CreateTable` are the two halves of
`create_all`, which processes run side by side before any of them has the lock.
`HandlerOf` says which handler an exception meets (the pool's `__exit__`,
`except BaseException`, the lock's `__exit__`, the caller). `EndWork` is a run's
worker threads finishing, independently of the main thread; `CountFailure` the
first `failure_count += 1` (`failing`), from which `Record` takes the row's status
and, later and apart from it, `ReturnCode` the exit code. `Error` is a failure
of the journal, a database or stdout; `Interrupt` a Ctrl-C; `Kill` a death of the
process.

**RedactionSweep** is the try statement of `_execute_locked_run`. It composes the
planning, the pages and the accounting with the scheduler, which enters through
its contract (`INSTANCE SenderDispatch`), and with Synapse's database, which
enters through SynapseState; a request is one step with its outcomes. Every
query is a step of its own and `Change` may alter the database between any two.
Candidates are ordered by timestamp and then id, as the query orders them.
A worker ends with a success, a failure, an exception, or a `redirect`: an
answer without a body that it reports as a success (`Reported`). `CutShort` is the
interrupt during the wait for the workers; the run then writes its FAILED row
while they go on. `steady`, `requested` and `cut_short` are history variables.

**RunLedger** is the sweep reduced to its books: the fate of each event (unread,
pending, or how it was decided), the four counts, the rows of `run_failures` and
the status. An event is read once and decided at most once, each decision goes
up in its count and into the journal with it, and an error or interrupt (`Break`)
ends all three wherever they stand. RedactionSweep implements it
(`ImplementsLedger`): `Fate` reads an event's fate off the pages, queues and
results, `Stage` the run's off `pc`. Everything between two entries, the plan,
the threads and what they execute, is a stutter.

**SynapseState** is what a run sees of Synapse's database, and how the
homeserver and its users change it: five variables, five actions.

**SynapseTables** is the database underneath: the tables of
`db/synapse_schema.py` as sets of rows, the queries of `SynapseEventRepository`
as operators over them (`LeftJoin`, `CandidateRows`, `SenderTokens`,
`JoinedRoomMemberships`), `SenderScopeVerifier`'s checks on top, and one action
per transaction of the homeserver. `redacted`, `membership` and `last_use`
remember what the homeserver did apart from the rows it left, and the queries
are compared with them. It implements SynapseState (`ImplementsState`), which is
what lets RedactionSweep forget the tables.

**RepeatedRuns** is run after run over one database, with a clock and the TTL:
a run takes its cutoff, selects and requests; it may give up a request or die,
and the homeserver may execute a request nobody waits for (`stray`) while a
later run plans. A run is reduced to one snapshot, and a request to one
transaction for each token it takes: when a token is refused, `NextToken` goes on
with the next one in a new transaction, whatever has become or becomes of the old
one. RedactionSweep and MatrixRedaction have these in full.

**SynapseSession** is a pooled connection of `build_synapse_engine` with the
listener that is to make it read-only, on SQLite and on PostgreSQL.

`*_proof` modules hold theorems; `MC*` modules hold instances.

## Runs

| Run | Instance | Shows |
| --- | --- | --- |
| `rr` | 3 senders, 2 workers, workloads of up to 3 items a sender | all properties of SenderRoundRobin, the refinement and termination |
| `cooldown` | 3 senders of which any may be limited, 2 threads, 1 retry | a cooldown costs the others one thread and no result |
| `matrix` | 3 tokens, 2 retries | the result of a request against what happened in the room |
| `lifecycle` | 2 processes, with or without the tables, 2 errors and 2 interrupts each, deaths unbounded | exclusion, journal, exit code against row and failures, termination |
| `sweep` | 4 events, 3 senders, 2 rooms, pages of 2, 2 workers, 2 changes | pagination, accounting, final status, exactness, termination |
| `tables` | 6 event rows, 2 local users and a remote one, 2 addresses, 3 transactions | the queries against the rules, and SynapseState |
| `repeated` | 2 events, TTL 1, 4 instants, 3 lost requests, 1 refused token an event, 2 deaths, 2 changes of what is permitted | duplicates are bounded, nothing stays unredacted |
| `matrix_redirect`, `lifecycle_two_interrupts`, `lifecycle_interrupt`, `sweep_stale`, `session_readonly` | as above | one disagreement of code and documentation each, see Findings |

### The properties

* SenderRoundRobin: `Conservation` (items of a sender = yielded, at most one
  outstanding, queued), `SerialPerSender`, `NoSenderStranded`, `FullyUsed` (as many
  in flight as possible when the main thread blocks), `WorkLeftAtExit` (no worker
  outlives the dispatch, unless an interrupt cut the wait for the pool short; then
  only what was in flight is finished), `TurnOrder` (nobody overtakes a waiting
  sender), `ImplementsDispatch`, `Termination` (of threads left behind, too).
* SenderCooldown: `StallNeedsLimits` (all threads asleep beside a waiting sender
  means as many limited senders as threads), `OthersFinish` (with fewer, the others
  get all their results even if a cooldown never ends).
* MatrixRedaction: `SuccessMeansRedacted`, `DuplicatesNeedRefusals`, `FailureIsEarned`,
  `TokensInOrder`, `Termination`.
* RunLifecycle: `OneRunAtATime`, `WorkUnderLock`, `JournalHasTables` (no row without
  both tables, however many processes create them, fail or die), `JournalUnderLock`,
  `ExitMatchesRow` (exit code, row and failures counted agree, and neither 0 nor 1
  is returned beside a working thread), `SingleErrorIsRecorded`, `Termination`.
* RedactionSweep: `ReadOnce`, `NothingSteadyMissed`, `LossIsBounded`
  (a run forgets the outcome of at most as many candidates as it has workers),
  `FinalStatusIsTrue` (a final row has no thread at work, unless a second interrupt
  cut the wait short; COMPLETED means that each candidate let through is gone, but
  for those answered without a body), `QuietRunIsExact`, `ImplementsLedger`,
  `RowBalances` (also in the row of an aborted run each count is the number of events with that fate,
  and at most one decided event has no row), `Termination`.
* SynapseTables: `CandidatesAreDue`, `TokensByRecency`, `PreflightMatchesRule`,
  `ImplementsState`.
* RepeatedRuns: `DuplicatesNeedLossOrRefusal` (at most one redaction of an event, and
  one more per request given up and per token refused), `EventuallyRedacted` (a
  failure, a time-out or a dead run only postpones).

### Bounds, and why they are enough

* `Workloads` (MCSenderRoundRobin): more senders than workers with unequal
  queues, an even load, one sender, a sender without items, nothing. Two
  workers let two futures complete in one `wait`; a third sender then waits for
  its turn. MCSenderCooldown keeps the two workloads in which a third sender
  waits, or two share the threads evenly. Larger instances are covered by the
  proofs.
* `TokenCount`, `MaxRetries`: a middle token and a middle attempt exist.
* `MaxErrors`, `MaxInterrupts` (per run): two faults in a row reach every handler
  and the handler of a handler. `lifecycle` has two processes: exclusion, the
  skip path and the race for the tables relate a run to one other.
* `MaxChanges` (sweep): two changes give every pair (a row vanishes and one
  appears, a sender leaves and returns); faults of the run itself are unbounded.
  Three events share a timestamp and a page holds two, so a tie spans a page
  border. The initial tokens and memberships vary, so the skip paths are taken
  also when nothing changes.
* `MaxWrites` (tables): three transactions make a membership change and change
  back, an event arrive as an outlier, leave that state and be redacted, a token
  be used from two addresses, or one be issued, used and expired. Every kind of
  row that a condition of a query tells apart is in `MCEventRows`; `Now` and
  `Cutoff` lie on the boundary of some row.
* `MaxTime`, `MaxLost`, `MaxRefusals`, `MaxKills`, `MaxChanges` (repeated): the two
  events come of age one instant after the other; two deaths and three lost
  requests let an event have strays of two different runs, and a refused token
  lets it have two transactions of one run.

### Fairness

The main thread keeps taking steps (`WF` of its next step); a pool thread takes
a queued task; a worker ends. The last is justified by the code below it: every
request has a time-out (`REQUEST_TIMEOUT_SECONDS`), the number of attempts and
tokens is bounded, and a sleep ends (httpx's time-outs are per phase and per
read; an answer that trickles in for ever is taken not to occur); that is
`MatrixRedaction!Termination`, where nothing is asked of the homeserver or the network. Nothing is assumed about
interrupts, errors, changes or the start of a process.

The length of a sleep is the homeserver's `retry_after_ms`, which the code does
not bound. MatrixRedaction and SenderRoundRobin take it to be finite;
SenderCooldown does not (`WakeUp` has no fairness), and asks what is left then.

RepeatedRuns assumes that time passes, that cron starts a run when none is
there, that a run does its work, and, as `SF` on `Execute`, that a request which is
sent again and again is at some time executed while the homeserver permits it.
The last is about the homeserver and the network, not about this code; without
it nothing would ever have to be redacted.

No run turns deadlock checking off: a finished system stutters explicitly.

## Proofs

Each proof is for every value of the constants, under the assumptions the module
names, which the runs evaluate. SenderRoundRobin: finitely many senders, at least
one worker (`config.py` rejects less), workloads that are sequences of items, and
a `NoFuture` that is no future. MatrixRedaction: `TokenCount` and `MaxRetries` are
naturals. RunLifecycle: `NoRun` is no run and the bounds on faults are naturals,
of any size. RedactionSweep: finitely many events, which are positive numbers, with
a sender, a room and a time each; a page of at least one; initial values of the
right types. RepeatedRuns: times and bounds are naturals. SynapseTables: finitely
many event rows with the eight columns, whose ids are keys; local users are
senders; the run's `Now` lies after the bounded transactions; `Null` is no value.
All proofs have one shape: an invariant `IInv` that Init establishes and every
action of Next preserves, and the properties as its consequences.

* **SenderRoundRobin_proof** proves `TypeOK`, `Conservation`, `SerialPerSender`,
  `WorkLeftAtExit`, `ReturnedIsComplete`, `NoSenderStranded`, `FullyUsed`, `TurnOrder`
  and `ImplementsDispatch`. None of these is inductive by itself. `PoolInv` ties the
  states of the pool's futures to `in_flight` and `completed`; `ReadyInv` says
  that the ready deque has no duplicates and holds only senders with items that
  are not in flight, without which a second future of a sender could be
  submitted; `YieldedInv` and `ControlInv` say what each `pc` implies of a sender that
  has just been given to the consumer; `ProgressInv` that a sender with items is
  ready, in flight or at the consumer; `BoundInv` that the fill loop never exceeds
  the number of workers. `FullyUsed` is then a count: the senders in flight and the
  ready ones are the senders with work, one future each. The refinement proof maps
  every action to one of SenderDispatch or to a stutter.
* **SenderCooldown_proof** maps every step of SenderCooldown to one of
  SenderRoundRobin or a stutter, so that all of the above holds beside sleeping
  workers too, and proves `StallNeedsLimits` from it.
* **MatrixRedaction_proof** proves `TypeOK`, `SuccessMeansRedacted`,
  `DuplicatesNeedRefusals`, `FailureIsEarned` and `TokensInOrder`. `TriedOnly` bounds
  the transaction ids in the network and in the room by the token in use;
  `AnswerIsTrue` carries the homeserver's execution over to the step that receives its answer;
  `Underway` ties `pc` to the result. The bound on duplicates is then a count: the
  ids in the room are among those of the tokens tried, and all of these but the last were refused.
* **RunLifecycle_proof** proves `TypeOK`, `OneRunAtATime`, `WorkUnderLock`,
  `ExitMatchesRow`, `SingleErrorIsRecorded`, `JournalHasTables` and `JournalUnderLock`
  for any number of processes. `Book` says what a run's row is at each statement,
  `Tally` how the row follows from the failures counted and at which statements
  there may be any, `Code` what the exit code says, `Faulted` how many
  faults it took to get onto each exception path, and `Busy` where threads of a run may work.
* **RedactionSweep_proof** proves all the safety properties of the sweep. `PageInv`
  keeps the cursor at the last event read, with everything read at or before it:
  a page is a prefix of what lies behind the cursor (`PageIsPrefix`), so pages
  neither overlap nor leave a gap (`SteadyInv`), wherever rows come and go.
  `PcInv` says what each `pc` implies of the dispatch and of the row; `WorkInv` that
  an item is queued, active or at the consumer and in one of these places only;
  `NothingDropped` that it is nowhere else until the dispatch is aborted. The
  counters equal the number of `Settled` items (`CountInv`), and `JournalInv` sorts
  the events read into the page in hand, the skipped and the queued. Against
  `QuietRunIsExact` stands `QuietInv`: what the plan found still holds while the
  count of changes is 0. For `ImplementsLedger` each action that reads, skips or
  counts is shown to be one entry and every other one a stutter; a run that
  finishes has nothing pending because of `NothingDropped` (and, in a dry run,
  because it never reads a page, `DryInv`). `FinalStatusIsTrue` rests on `GoneInv`: an
  event that a worker redacted has left the candidates, and nothing brings it back.
* **RunLedger_proof** proves (`BooksBalance`) that the books balance: `Balanced` and the types are
  inductive for any finite set of events. Through the refinement this is
  `RowBalances`, which `JournalInv` could not give: it says nothing of a run once
  something has aborted it.
* **RepeatedRuns_proof** proves `DuplicatesNeedLossOrRefusal`. `Account` is the
  strengthening: redactions made and strays still possible exceed the requests
  given up and tokens refused by at most one, and by none while the event
  is not redacted, or the run has it in its queue or a request for it that is not
  executed.
* **SynapseTables_proof** proves `CandidatesAreDue`, `TokensByRecency`,
  `PreflightMatchesRule` and `ImplementsState`. `IInv` says what the rows of the
  tables have to do with each other and with the history: ids are keys
  (`EventsInv`, `TokensInv`), a token's latest row of activity is its last use
  (`ActivityInv`), and of all the membership rows of a user the one that the
  current state names tells the membership (`MembershipInv`). The counts of the
  report add up because the folded sum of the sizes of disjoint groups is the
  size of their union (`FoldIsSum`: a least set of groups on which the two
  differed would differ without one of its groups, too). The order of the tokens
  rests on two lemmas about finite linear orders: ranks follow the order, and
  they number the elements from 1. For the refinement, `SeenEvents`
  and `SeenUsers` say what the queries see in terms of the history; each
  transaction then changes the standing of one event, one sender's tokens, one
  account or one membership, and is a step of SynapseState or a stutter.

Two properties are proved and in no run, because one that a run checks implies
them: `ReturnedIsComplete` (`ImplementsDispatch` with `Conservation`) and
`CountsAddUp` (`RowBalances`).

Only model-checked: everything under fairness (`Termination`, `OthersFinish`,
`EventuallyRedacted`), which is beyond TLAPS's provers here.

## Findings

1. **A redirect counts as a success** (`clients/matrix_client.py:100`). A status
   below 400 with an empty body returns `{}`, and the event is reported as
   redacted (`matrix_redirect`). `docs/architecture.md:180` says an event is
   either redacted or skipped with a reason in the journal.
2. **A second Ctrl-C releases the lock under working threads**
   (`services/sender_round_robin.py:42`, `lifecycle_two_interrupts`), against
   `docs/architecture.md:155`. `WorkUnderLock`, `WorkLeftAtExit` and `FinalStatusIsTrue`
   say what does hold.
3. **An interrupt before the try statement leaves the row RUNNING**
   (`cli.py:172`, `lifecycle_interrupt`), against `tests/test_cli.py:89`. The same
   holds of a death of the process; no later run closes such a row.
4. **Permission is checked when a page is read, not when the request is made**
   (`cli.py:343`, `sweep_stale`), against `docs/architecture.md:17-24`.
5. **On PostgreSQL the Synapse connection is not read-only** (`db/engine.py:48`,
   `session_readonly`), against `docs/architecture.md:90`: the statement that sets
   the session's default runs inside a transaction that has already begun read
   write, and the pool's rollback takes it back. On SQLite it holds.

The models show some smaller divergences, which have no run of their own:

* Any `OSError` of flock is a "held" lock (`locks.py:26`, `RunLifecycle!FlockError`;
  the docstring of the exception, line 13, speaks of another run that holds it):
  the run is journalled as skipped and exits 0.
* A token that goes between the two token queries (`cli.py:252`) makes the
  redaction a failure and the run FAILED, where `docs/testing.md:100-104` expects a skip.
* `docs/architecture.md:168` confines a 429 cooldown to its sender. A cooldown
  holds a pool thread (`clients/matrix_client.py:120`), so this is true only while
  fewer senders are limited than there are threads (`StallNeedsLimits`).
* Falling back to the next token uses a new transaction id, so an event whose
  first request was executed after its time-out may be redacted once per token
  (`DuplicatesNeedRefusals`, over several runs `DuplicatesNeedLossOrRefusal`).
* `candidate_count` comes from a snapshot of the report and need not equal
  `processed_count`; it does if nothing changes (`QuietRunIsExact`).

## Not modelled

Configuration, command line, crontab rendering, the health check and logging:
each is one pass of parsing or formatting without state that a later step
reads; the bounds `config.py` enforces are the modules' assumptions. Of the
journal the columns, and of the report the counts by type and room (checked in
SynapseTables) and the sample, which only go into texts. Only RepeatedRuns and
SynapseTables have a clock; elsewhere the length of a sleep, the cutoff and
`valid_until_ms` appear as choices of the environment. The dictionary of clients
and closing them are not modelled: what a worker left behind by a second
interrupt meets in a closed client is httpx's business.

## What is left

1. Larger compositions: RedactionSweep inside RunLifecycle (the interrupts of both
   in one model) instead of by their common statements.
2. RepeatedRuns over RunLedger, as RedactionSweep is over SenderDispatch, instead
   of over a run of its own.
