--------------------------- MODULE SenderRoundRobin ---------------------------
(***************************************************************************)
(* SenderRoundRobinScheduler.iter_results: a generator, run by the main    *)
(* thread, that feeds a ThreadPoolExecutor with at most one item per       *)
(* sender and yields each result to its consumer.                          *)
(*                                                                         *)
(* A future is the record of its sender and its item. The pool is external *)
(* (CPython's concurrent.futures): a submitted future is queued, then run  *)
(* by one of max_workers threads, then finished; a worker that lets an     *)
(* exception escape finishes its future as raised.                         *)
(***************************************************************************)
EXTENDS Naturals, Sequences, FiniteSets

CONSTANTS
  Senders,                \* user ids
  Items,                  \* candidate events
  MaxConcurrentSenders,   \* MAX_CONCURRENT_SENDERS
  Workloads,              \* the arguments a caller may pass
  NoFuture                \* "no future": before the first result is popped

ASSUME SendersAssumption == IsFiniteSet(Senders)
ASSUME WorkloadsAssumption == Workloads \subseteq [Senders -> Seq(Items)]
ASSUME ConcurrencyAssumption == MaxConcurrentSenders \in Nat \ {0}

Future == [sender : Senders, item : Items]

ASSUME NoFutureAssumption == NoFuture \notin Future

VARIABLES
  pc,               \* where the generator stands
  items_by_sender,  \* the argument: the items of each sender
  sender_queues,    \* what is left of each sender's deque
  ready_senders,    \* deque of senders whose turn is to come
  max_workers,      \* size of the pool
  in_flight,        \* keys of the in_flight dict
  queued,           \* pool: submitted, no thread has taken it
  running,          \* pool: a thread is executing the worker
  finished,         \* pool: the worker has ended, in_flight holds the future
  raised,           \* futures whose worker raised
  completed,        \* what wait() returned and the loop has not popped
  current,          \* the future popped last
  results           \* items whose result was yielded, per sender

vars == <<pc, items_by_sender, sender_queues, ready_senders, max_workers,
          in_flight, queued, running, finished, raised, completed, current,
          results>>

poolVars == <<queued, running, finished, raised>>
planVars == <<items_by_sender, max_workers>>

-----------------------------------------------------------------------------
Init ==
  /\ pc = "idle"
  /\ items_by_sender = [s \in Senders |-> <<>>]
  /\ sender_queues = [s \in Senders |-> <<>>]
  /\ ready_senders = <<>>
  /\ max_workers = 0
  /\ in_flight = {}
  /\ queued = {} /\ running = {} /\ finished = {} /\ raised = {}
  /\ completed = {}
  /\ current = NoFuture
  /\ results = [s \in Senders |-> <<>>]

LargerMutant(m, n) == IF m <= n THEN n ELSE m

Smaller(m, n) == IF m <= n THEN m ELSE n

(* The enumerations of a finite set: the insertion order of a dict's keys. *)
Orderings(S) ==
  {q \in [1..Cardinality(S) -> S] :
     /\ \A i, j \in DOMAIN q : q[i] = q[j] => i = j
     /\ \A x \in S : \E i \in DOMAIN q : q[i] = x}

(* The caller asks for the first result: the queues are built and either   *)
(* there is nothing to do or the pool is created.                          *)
Start(queues) ==
  LET busy == {s \in Senders : queues[s] # <<>>}
  IN  /\ pc = "idle"
      /\ items_by_sender' = queues
      /\ sender_queues' = queues
      /\ ready_senders' \in Orderings(busy)
      /\ max_workers' = Smaller(MaxConcurrentSenders, Cardinality(busy))
      /\ pc' = IF busy = {} THEN "returned" ELSE "fill"
      /\ UNCHANGED <<in_flight, poolVars, completed, current, results>>

-----------------------------------------------------------------------------
(* _fill_worker_pool *)

CanSubmitOneMore == ready_senders # <<>> /\ Cardinality(in_flight) <= max_workers
CanSubmitOneLess == ready_senders # <<>> /\ Cardinality(in_flight) + 1 < max_workers

CanSubmit == ready_senders # <<>> /\ Cardinality(in_flight) < max_workers

Newest(queue) == queue[Len(queue)]

(* queue.popleft() *)
Oldest(queue) == Head(queue)

ReadyRotated == Append(Tail(ready_senders), Head(ready_senders))

(* ready_senders.popleft() *)
ReadyPopped == Tail(ready_senders)

(* One turn of its loop: the sender at the head of the ready queue gives   *)
(* its oldest item to the pool; a sender without items is passed over.     *)
Submit ==
  LET s == Head(ready_senders)
      f == [sender |-> s, item |-> Oldest(sender_queues[s])]
  IN  /\ pc = "fill"
      /\ CanSubmit
      /\ ready_senders' = ReadyPopped
      /\ IF sender_queues[s] = <<>>
         THEN UNCHANGED <<sender_queues, in_flight, queued>>
         ELSE /\ sender_queues' = [sender_queues EXCEPT ![s] = Tail(@)]
              /\ in_flight' = in_flight \cup {f}
              /\ queued' = queued \cup {f}
      /\ UNCHANGED <<pc, planVars, running, finished, raised, completed,
                     current, results>>

(* The loop ends; the outer loop waits, or the generator returns.          *)
FillDone ==
  /\ pc = "fill"
  /\ ~CanSubmit
  /\ pc' = IF in_flight = {} THEN "returned" ELSE "wait"
  /\ UNCHANGED <<planVars, sender_queues, ready_senders, in_flight, poolVars,
                 completed, current, results>>

-----------------------------------------------------------------------------
WaitForAll ==
  /\ pc = "wait"
  /\ in_flight \subseteq finished
  /\ completed' = in_flight
  /\ pc' = "deliver"
  /\ UNCHANGED <<planVars, sender_queues, ready_senders, in_flight, poolVars,
                 current, results>>

(* wait(..., return_when=FIRST_COMPLETED) blocks until a future in flight  *)
(* is finished and returns all that are.                                   *)
Wait ==
  /\ pc = "wait"
  /\ in_flight \cap finished # {}
  /\ completed' = in_flight \cap finished
  /\ pc' = "deliver"
  /\ UNCHANGED <<planVars, sender_queues, ready_senders, in_flight, poolVars,
                 current, results>>

(* The completed futures are handled in the order of a set. The result is  *)
(* yielded, or the worker's exception escapes from future.result().        *)
Deliver(f) ==
  /\ pc = "deliver"
  /\ f \in completed
  /\ completed' = completed \ {f}
  /\ in_flight' = in_flight \ {f}
  /\ finished' = finished \ {f}
  /\ current' = f
  /\ IF f \in raised
     THEN pc' = "shutdown" /\ UNCHANGED results
     ELSE /\ pc' = "yielded"
          /\ results' = [results EXCEPT ![f.sender] = Append(@, f.item)]
  /\ UNCHANGED <<planVars, sender_queues, ready_senders, queued, running, raised>>

RequeuedIfTwoLeft(s) ==
  IF Len(sender_queues[s]) > 1 THEN Append(ready_senders, s) ELSE ready_senders
RequeuedInFront(s) ==
  IF sender_queues[s] # <<>> THEN <<s>> \o ready_senders ELSE ready_senders

(* if sender_queues[sender]: ready_senders.append(sender) *)
Requeued(s) ==
  IF sender_queues[s] # <<>> THEN Append(ready_senders, s) ELSE ready_senders

(* The consumer asks for the next result: a sender with items left goes to *)
(* the back of the ready queue.                                            *)
Resume ==
  /\ pc = "yielded"
  /\ ready_senders' = Requeued(current.sender)
  /\ pc' = IF completed = {} THEN "fill" ELSE "deliver"
  /\ UNCHANGED <<planVars, sender_queues, in_flight, poolVars, completed,
                 current, results>>

-----------------------------------------------------------------------------
(* The generator is left early: a KeyboardInterrupt reaches the main       *)
(* thread, or the consumer fails on a result and the generator is closed   *)
(* at its yield. The with block then shuts the pool down.                  *)
Unwind ==
  /\ pc \in {"fill", "wait", "deliver", "yielded"}
  /\ pc' = "shutdown"
  /\ UNCHANGED <<planVars, sender_queues, ready_senders, in_flight, poolVars,
                 completed, current, results>>

(* The pool's __exit__ joins its threads, which end once every submitted   *)
(* future is finished; no result of theirs is looked at any more.          *)
PoolNotWaitedFor == TRUE
WorkWaitedFor == queued = {} /\ running = {} /\ ready_senders = <<>>

PoolDrained == queued = {} /\ running = {}

Shutdown ==
  /\ pc = "shutdown"
  /\ PoolDrained
  /\ pc' = "raised"
  /\ UNCHANGED <<planVars, sender_queues, ready_senders, in_flight, poolVars,
                 completed, current, results>>

(* Another KeyboardInterrupt reaches the main thread while it joins the    *)
(* threads: it escapes from __exit__, and they go on without it.           *)
CutShort ==
  /\ pc = "shutdown"
  /\ pc' = "abandoned"
  /\ UNCHANGED <<planVars, sender_queues, ready_senders, in_flight, poolVars,
                 completed, current, results>>

-----------------------------------------------------------------------------
(* The pool (external). *)

mainVars == <<pc, planVars, sender_queues, ready_senders, in_flight, completed,
              current, results>>

BeginTask(f) ==
  /\ f \in queued
  /\ Cardinality(running) < max_workers
  /\ queued' = queued \ {f}
  /\ running' = running \cup {f}
  /\ UNCHANGED <<mainVars, finished, raised>>

EndTask(f, raises) ==
  /\ f \in running
  /\ running' = running \ {f}
  /\ finished' = finished \cup {f}
  /\ raised' = IF raises THEN raised \cup {f} ELSE raised
  /\ UNCHANGED <<mainVars, queued>>

-----------------------------------------------------------------------------
MainStep == Submit \/ FillDone \/ Wait \/ (\E f \in completed : Deliver(f))
              \/ Resume \/ Shutdown

PoolStep == \/ \E f \in queued : BeginTask(f)
            \/ \E f \in running, raises \in BOOLEAN : EndTask(f, raises)

(* The generator has ended and stays so; abandoned threads may go on. *)
Ended == pc \in {"returned", "raised", "abandoned"}

Next ==
  \/ \E queues \in Workloads : Start(queues)
  \/ MainStep
  \/ Unwind
  \/ CutShort
  \/ PoolStep
  \/ Ended /\ UNCHANGED vars

(* The main thread keeps running and waits only for futures; a pool thread *)
(* takes a queued task; a worker ends, since every request has a timeout   *)
(* and a bounded number of attempts.                                       *)
Fairness ==
  /\ WF_vars(MainStep)
  /\ \A f \in Future : WF_vars(BeginTask(f))
  /\ \A f \in Future : WF_vars(\E raises \in BOOLEAN : EndTask(f, raises))

Spec == Init /\ [][Next]_vars
FairSpec == Spec /\ Fairness

-----------------------------------------------------------------------------
(* Properties *)

PCs == {"idle", "fill", "wait", "deliver", "yielded", "shutdown", "returned",
        "raised", "abandoned"}

(* The type invariant: the pool never has more threads than               *)
(* MAX_CONCURRENT_SENDERS, and only futures in flight have completed.      *)
TypeOK ==
  /\ pc \in PCs
  /\ items_by_sender \in [Senders -> Seq(Items)]
  /\ sender_queues \in [Senders -> Seq(Items)]
  /\ ready_senders \in Seq(Senders)
  /\ max_workers \in 0..MaxConcurrentSenders
  /\ in_flight \subseteq Future
  /\ queued \subseteq Future
  /\ running \subseteq Future
  /\ finished \subseteq Future
  /\ raised \subseteq Future
  /\ completed \subseteq in_flight
  /\ current \in Future \cup {NoFuture}
  /\ results \in [Senders -> Seq(Items)]

(* Futures whose outcome the consumer has not been given: those in flight, *)
(* and the one whose exception is on its way out of the generator.         *)
Outstanding ==
  in_flight \cup (IF current \in raised THEN {current} ELSE {})

(* Nothing is lost, duplicated or reordered: at every moment, also after an*)
(* exception or an interrupt, the items of a sender are the ones yielded,  *)
(* then at most one outstanding, then the ones still queued.               *)
Conservation ==
  \A s \in Senders :
    \/ /\ \A f \in Outstanding : f.sender # s
       /\ results[s] \o sender_queues[s] = items_by_sender[s]
    \/ \E f \in Outstanding :
         /\ f.sender = s
         /\ Append(results[s], f.item) \o sender_queues[s] = items_by_sender[s]

(* Two items of one sender are never outstanding together, so two requests *)
(* of one sender never overlap (test_round_robin_never_runs_same_sender...)*)
SerialPerSender ==
  \A f, g \in Outstanding \cup queued \cup running :
    f.sender = g.sender => f = g

PlacesOf(s) == {i \in 1..Len(ready_senders) : ready_senders[i] = s}

(* While the dispatch goes on, a sender with items left is waiting for its *)
(* turn exactly once, or an item of its is in flight, or the consumer is   *)
(* looking at its latest result: nobody is forgotten by the main loop.     *)
NoSenderStranded ==
  pc \in {"fill", "wait", "deliver", "yielded"} =>
    \A s \in Senders : sender_queues[s] # <<>> =>
      \/ Cardinality(PlacesOf(s)) = 1
      \/ \E f \in in_flight : f.sender = s
      \/ pc = "yielded" /\ current.sender = s

(* When the main thread blocks in wait(), as many senders are in flight as *)
(* the bound and the remaining work allow: no thread idles beside work.    *)
FullyUsed ==
  pc = "wait" =>
    LET busy == {s \in Senders : \/ sender_queues[s] # <<>>
                                 \/ \E f \in in_flight : f.sender = s}
    IN  Cardinality(in_flight) = Smaller(max_workers, Cardinality(busy))

(* Control leaves iter_results, by return or by one exception, only when   *)
(* no thread runs a worker: the caller then closes the HTTP clients the    *)
(* workers use. A second fault can cut the wait for them short; the threads*)
(* then finish what was in flight, max_workers items at most, and take no  *)
(* item that was still in a sender's queue.                                *)
WorkLeftAtExit ==
  Ended =>
    \/ queued \cup running = {}
    \/ /\ pc = "abandoned"
       /\ queued \cup running \subseteq in_flight
       /\ Cardinality(queued \cup running) <= max_workers

(* A dispatch that returns has yielded every item of every sender.         *)
ReturnedIsComplete == pc = "returned" => results = items_by_sender

Ahead(s) == {t \in Senders : \E i, j \in DOMAIN ready_senders :
                i < j /\ ready_senders[i] = t /\ ready_senders[j] = s}

(* Round robin: while a sender waits for its turn, the senders it must let *)
(* pass are only ever fewer, whoever finishes in the meantime.             *)
TurnOrder ==
  [][\A s \in Senders :
       PlacesOf(s) # {} /\ PlacesOf(s)' # {} => Ahead(s)' \subseteq Ahead(s)]_vars

(* The scheduler implements the dispatch its caller relies on.             *)
Dispatch == INSTANCE SenderDispatch WITH
  phase <- CASE pc = "idle" -> "idle"
             [] pc = "returned" -> "complete"
             [] pc \in {"shutdown", "raised", "abandoned"} -> "aborted"
             [] OTHER -> "open",
  work <- sender_queues,
  active <- Outstanding,
  delivered <- results

ImplementsDispatch == Dispatch!Spec

(* A dispatch that was started ends, also when it is interrupted or a      *)
(* worker raises: it never waits for a future nobody will finish. Threads  *)
(* it may have left behind end too.                                        *)
Termination == (pc # "idle") ~> (Ended /\ queued \cup running = {})
===============================================================================
