----------------------- MODULE SenderRoundRobin_proof -----------------------
(***************************************************************************)
(* TLAPS proofs about SenderRoundRobin, for any set of senders, any queues *)
(* and any MAX_CONCURRENT_SENDERS. The inductive invariant IInv adds to    *)
(* the checked invariants how the pool and the in_flight dict agree, what  *)
(* may stand in the ready queue, and what each control point implies.      *)
(***************************************************************************)
EXTENDS SenderRoundRobin, TLAPS, SequenceTheorems, FiniteSetTheorems

Dispatching == pc \in {"fill", "wait", "deliver", "yielded"}
Unwinding == pc \in {"shutdown", "raised", "abandoned"}

(* The pool holds exactly the futures in flight, each in one state; only a *)
(* future whose worker ended has raised, and the one popped last may have. *)
PoolInv ==
  /\ in_flight = queued \cup running \cup finished
  /\ queued \cap running = {}
  /\ finished \cap (queued \cup running) = {}
  /\ completed \subseteq finished
  /\ raised \subseteq finished \cup (IF Unwinding THEN {current} ELSE {})

(* A sender waits at most once, and none of its items is out meanwhile.    *)
ReadyInv ==
  /\ \A i, j \in DOMAIN ready_senders :
       ready_senders[i] = ready_senders[j] => i = j
  /\ \A i \in DOMAIN ready_senders :
       /\ sender_queues[ready_senders[i]] # <<>>
       /\ \A f \in Outstanding : f.sender # ready_senders[i]

(* The sender whose result the consumer looks at is neither waiting nor    *)
(* working.                                                                *)
YieldedInv ==
  pc = "yielded" =>
    /\ current \in Future
    /\ \A i \in DOMAIN ready_senders : ready_senders[i] # current.sender
    /\ \A f \in Outstanding : f.sender # current.sender

(* No sender with items is forgotten while the dispatch goes on.           *)
ProgressInv ==
  Dispatching =>
    /\ max_workers > 0
    /\ \A s \in Senders : sender_queues[s] # <<>> =>
         \/ \E i \in DOMAIN ready_senders : ready_senders[i] = s
         \/ \E f \in in_flight : f.sender = s
         \/ pc = "yielded" /\ current.sender = s

(* What the control points before and after the dispatch imply.            *)
ControlInv ==
  /\ pc = "idle" =>
       /\ in_flight = {} /\ raised = {} /\ ready_senders = <<>>
       /\ \A s \in Senders : results[s] = <<>>
  /\ pc = "returned" =>
       in_flight = {} /\ \A s \in Senders : sender_queues[s] = <<>>
  /\ pc = "raised" => queued \cup running = {}

(* The pool is never asked for more than its size.                         *)
BoundInv ==
  /\ IsFiniteSet(in_flight)
  /\ Cardinality(in_flight) <= max_workers

IInv ==
  /\ TypeOK
  /\ PoolInv
  /\ SerialPerSender
  /\ ReadyInv
  /\ YieldedInv
  /\ ProgressInv
  /\ ControlInv
  /\ BoundInv
  /\ Conservation
-----------------------------------------------------------------------------
(* Sequence and set facts. *)

(* The item taken from a queue may be put after what was already handled.  *)
LEMMA HeadMoves ==
  ASSUME NEW S, NEW r \in Seq(S), NEW q \in Seq(S), q # <<>>
  PROVE  /\ Append(r, Head(q)) \o Tail(q) = r \o q
         /\ Head(q) \in S
         /\ Tail(q) \in Seq(S)
BY HeadTailProperties

(* An ordering of a finite set is a sequence that enumerates it.           *)
LEMMA OrderingsAreEnumerations ==
  ASSUME NEW S, IsFiniteSet(S), NEW q \in Orderings(S)
  PROVE  /\ q \in Seq(S)
         /\ DOMAIN q = 1..Cardinality(S)
         /\ \A i \in DOMAIN q : q[i] \in S
         /\ \A i, j \in DOMAIN q : q[i] = q[j] => i = j
         /\ \A x \in S : \E i \in DOMAIN q : q[i] = x
<1>1. Cardinality(S) \in Nat
  BY FS_CardinalityType
<1>2. q \in [1..Cardinality(S) -> S]
  BY DEF Orderings
<1>3. q \in Seq(S)
  BY <1>1, <1>2, IsASeq
<1> QED
  BY <1>2, <1>3 DEF Orderings

-----------------------------------------------------------------------------
LEMMA InitIInv == Init => IInv
<1> SUFFICES ASSUME Init PROVE IInv
  OBVIOUS
<1> USE DEF Init
<1>1. TypeOK
  BY ConcurrencyAssumption, SMT DEF TypeOK, PCs, Future
<1>2. PoolInv
  BY DEF PoolInv
<1>3. Outstanding = {}
  BY DEF Outstanding
<1>4. SerialPerSender /\ ReadyInv /\ YieldedInv /\ ProgressInv /\ ControlInv
  BY <1>3 DEF SerialPerSender, ReadyInv, YieldedInv, ProgressInv, Dispatching,
              ControlInv
<1>5. BoundInv
  BY FS_EmptySet DEF BoundInv
<1>6. Conservation
  BY <1>3, ConcatEmptySeq DEF Conservation
<1> QED
  BY <1>1, <1>2, <1>4, <1>5, <1>6 DEF IInv

LEMMA StartIInv ==
  ASSUME IInv, NEW queues \in Workloads, Start(queues)
  PROVE  IInv'
<1> DEFINE busy == {s \in Senders : queues[s] # <<>>}
<1>0. queues \in [Senders -> Seq(Items)]
  BY WorkloadsAssumption
<1>1. IsFiniteSet(busy) /\ Cardinality(busy) \in Nat
  BY SendersAssumption, FS_Subset, FS_CardinalityType
<1>2. /\ ready_senders' \in Seq(busy)
      /\ DOMAIN ready_senders' = 1..Cardinality(busy)
      /\ \A i \in DOMAIN ready_senders' : ready_senders'[i] \in busy
      /\ \A i, j \in DOMAIN ready_senders' :
           ready_senders'[i] = ready_senders'[j] => i = j
      /\ \A x \in busy : \E i \in DOMAIN ready_senders' : ready_senders'[i] = x
  <2>1. ready_senders' \in Orderings(busy)
    BY DEF Start
  <2> QED
    BY <1>1, <2>1, OrderingsAreEnumerations
<1>4. /\ pc = "idle" /\ in_flight = {} /\ raised = {}
      /\ queued = {} /\ running = {} /\ finished = {} /\ completed = {}
      /\ \A s \in Senders : results[s] = <<>>
  BY DEF IInv, ControlInv, PoolInv, TypeOK, Start
<1>5. /\ items_by_sender' = queues /\ sender_queues' = queues
      /\ max_workers' = Smaller(MaxConcurrentSenders, Cardinality(busy))
      /\ pc' = IF busy = {} THEN "returned" ELSE "fill"
      /\ UNCHANGED <<in_flight, queued, running, finished, raised, completed,
                     current, results>>
  BY DEF Start, poolVars
<1>6. Outstanding' = {}
  BY <1>4, <1>5 DEF Outstanding
<1>7. TypeOK'
  <2>1. max_workers' \in 0..MaxConcurrentSenders
    BY <1>1, <1>5, ConcurrencyAssumption DEF Smaller
  <2>2. ready_senders' \in Seq(Senders)
    BY <1>2, SeqMonotonic
  <2> QED
    BY <1>0, <1>4, <1>5, <2>1, <2>2 DEF IInv, TypeOK, PCs
<1>8. PoolInv'
  BY <1>4, <1>5 DEF PoolInv
<1>9. SerialPerSender'
  BY <1>4, <1>5, <1>6 DEF SerialPerSender
<1>10. ReadyInv'
  BY <1>2, <1>5, <1>6 DEF ReadyInv
<1>11. YieldedInv'
  BY <1>5 DEF YieldedInv
<1>12. ProgressInv'
  <2> SUFFICES ASSUME Dispatching' PROVE ProgressInv'
    BY DEF ProgressInv
  <2>1. busy # {}
    BY <1>5 DEF Dispatching
  <2>2. Cardinality(busy) > 0
    BY <1>1, <2>1, FS_EmptySet
  <2>3. max_workers' > 0
    BY <1>1, <1>5, <2>2, ConcurrencyAssumption DEF Smaller
  <2> QED
    BY <1>2, <1>5, <2>3 DEF ProgressInv
<1>13. ControlInv'
  BY <1>4, <1>5 DEF ControlInv
<1>14. BoundInv'
  BY <1>1, <1>4, <1>5, FS_EmptySet, ConcurrencyAssumption DEF BoundInv, Smaller
<1>15. Conservation'
  BY <1>0, <1>4, <1>5, <1>6, ConcatEmptySeq DEF Conservation
<1> QED
  BY <1>7, <1>8, <1>9, <1>10, <1>11, <1>12, <1>13, <1>14, <1>15 DEF IInv

(* A turn of _fill_worker_pool. The sender at the head of the ready queue  *)
(* has items and none out, so its future is new and keeps the pool's books *)
(* in order.                                                               *)
LEMMA SubmitIInv ==
  ASSUME IInv, Submit
  PROVE  IInv'
<1> DEFINE s == Head(ready_senders)
           f == [sender |-> s, item |-> Head(sender_queues[s])]
<1>0. TypeOK /\ pc = "fill" /\ CanSubmit
  BY DEF IInv, Submit
<1>1. /\ ready_senders \in Seq(Senders) /\ ready_senders # <<>>
      /\ s \in Senders /\ s = ready_senders[1] /\ 1 \in DOMAIN ready_senders
  BY <1>0 DEF TypeOK, CanSubmit
<1>2. /\ sender_queues[s] # <<>>
      /\ \A g \in Outstanding : g.sender # s
  BY <1>1 DEF IInv, ReadyInv
<1>3. /\ ready_senders' = Tail(ready_senders)
      /\ sender_queues' = [sender_queues EXCEPT ![s] = Tail(@)]
      /\ in_flight' = in_flight \cup {f}
      /\ queued' = queued \cup {f}
      /\ UNCHANGED <<pc, items_by_sender, max_workers, running, finished,
                     raised, completed, current, results>>
  BY <1>2 DEF Submit, ReadyPopped, Oldest, planVars
<1> HIDE DEF s
<1>4. /\ sender_queues[s] \in Seq(Items)
      /\ f \in Future
      /\ Tail(sender_queues[s]) \in Seq(Items)
      /\ sender_queues' \in [Senders -> Seq(Items)]
      /\ sender_queues'[s] = Tail(sender_queues[s])
      /\ \A t \in Senders \ {s} : sender_queues'[t] = sender_queues[t]
  <2>1. sender_queues[s] \in Seq(Items)
    BY <1>0, <1>1 DEF TypeOK
  <2>2. /\ Head(sender_queues[s]) \in Items
        /\ Tail(sender_queues[s]) \in Seq(Items)
    BY <1>2, <2>1
  <2> QED
    BY <1>0, <1>1, <1>3, <2>1, <2>2 DEF TypeOK, Future
<1>5. f \notin Outstanding /\ f \notin in_flight /\ f.sender = s
  BY <1>2 DEF Outstanding
<1>6. Outstanding' = Outstanding \cup {f}
  BY <1>3 DEF Outstanding
<1>7. /\ ready_senders' \in Seq(Senders)
      /\ DOMAIN ready_senders' = 1..(Len(ready_senders) - 1)
      /\ \A i \in DOMAIN ready_senders' :
           ready_senders'[i] = ready_senders[i + 1] /\ i + 1 \in DOMAIN ready_senders
      /\ \A i \in DOMAIN ready_senders \ {1} :
           i - 1 \in DOMAIN ready_senders' /\ ready_senders'[i - 1] = ready_senders[i]
  BY <1>1, <1>3, HeadTailProperties
<1>8. \A i \in DOMAIN ready_senders' : ready_senders'[i] \in Senders \ {s}
  BY <1>1, <1>7 DEF IInv, ReadyInv
<1>9. TypeOK'
  BY <1>0, <1>3, <1>4, <1>7 DEF TypeOK
<1>10. PoolInv'
  <2>1. f \notin queued \cup running \cup finished
    BY <1>5 DEF IInv, PoolInv
  <2>2. ~Unwinding /\ ~Unwinding'
    BY <1>0, <1>3 DEF Unwinding
  <2> QED
    BY <1>3, <2>1, <2>2 DEF IInv, PoolInv
<1>11. SerialPerSender'
  <2>1. (Outstanding \cup queued \cup running)' = Outstanding' \cup {f}
    BY <1>3, <1>6 DEF IInv, PoolInv, Outstanding
  <2>2. \A g1, g2 \in Outstanding : g1.sender = g2.sender => g1 = g2
    BY DEF IInv, SerialPerSender
  <2> QED
    BY <1>2, <1>5, <1>6, <2>1, <2>2 DEF SerialPerSender
<1>12. ReadyInv'
  <2> SUFFICES ASSUME NEW i \in DOMAIN ready_senders'
               PROVE  /\ \A j \in DOMAIN ready_senders' :
                           ready_senders'[i] = ready_senders'[j] => i = j
                      /\ sender_queues'[ready_senders'[i]] # <<>>
                      /\ \A h \in Outstanding' : h.sender # ready_senders'[i]
    BY DEF ReadyInv
  <2>1. \A j \in DOMAIN ready_senders' :
          ready_senders'[i] = ready_senders'[j] => i = j
    <3> SUFFICES ASSUME NEW j \in DOMAIN ready_senders',
                        ready_senders'[i] = ready_senders'[j]
                 PROVE  i = j
      OBVIOUS
    <3>1. i + 1 = j + 1
      BY <1>7 DEF IInv, ReadyInv
    <3> QED
      BY <1>1, <1>7, <3>1
  <2>2. /\ sender_queues[ready_senders'[i]] # <<>>
        /\ \A h \in Outstanding : h.sender # ready_senders'[i]
    BY <1>7 DEF IInv, ReadyInv
  <2> QED
    BY <1>4, <1>5, <1>6, <1>8, <2>1, <2>2
<1>13. YieldedInv' /\ ControlInv'
  BY <1>0, <1>3 DEF YieldedInv, ControlInv
<1>14. ProgressInv'
  <2> SUFFICES ASSUME NEW t \in Senders, sender_queues'[t] # <<>>
               PROVE  \/ \E i \in DOMAIN ready_senders' : ready_senders'[i] = t
                      \/ \E h \in in_flight' : h.sender = t
    BY <1>0, <1>3 DEF IInv, ProgressInv, Dispatching
  <2>1. CASE t = s
    BY <1>3, <1>5, <2>1
  <2>2. CASE t # s
    <3>1. \/ \E i \in DOMAIN ready_senders : ready_senders[i] = t
          \/ \E h \in in_flight : h.sender = t
      BY <1>0, <1>4, <2>2 DEF IInv, ProgressInv, Dispatching
    <3> QED
      BY <1>1, <1>3, <1>7, <2>2, <3>1
  <2> QED
    BY <2>1, <2>2
<1>15. BoundInv'
  <2>1. IsFiniteSet(in_flight) /\ Cardinality(in_flight) \in Nat
    BY FS_CardinalityType DEF IInv, BoundInv
  <2>2. IsFiniteSet(in_flight') /\ Cardinality(in_flight') = Cardinality(in_flight) + 1
    BY <1>3, <1>5, <2>1, FS_AddElement
  <2> QED
    BY <1>0, <1>3, <2>1, <2>2 DEF BoundInv, CanSubmit, TypeOK
<1>16. Conservation'
  <2> SUFFICES ASSUME NEW t \in Senders
               PROVE  \/ /\ \A h \in Outstanding' : h.sender # t
                         /\ results[t] \o sender_queues'[t] = items_by_sender[t]
                      \/ \E h \in Outstanding' :
                           /\ h.sender = t
                           /\ Append(results[t], h.item) \o sender_queues'[t]
                                = items_by_sender[t]
    BY <1>3 DEF Conservation
  <2>1. CASE t = s
    <3>1. results[s] \o sender_queues[s] = items_by_sender[s]
      BY <1>1, <1>2 DEF IInv, Conservation
    <3>2. results[s] \in Seq(Items)
      BY <1>0, <1>1 DEF TypeOK
    <3>3. Append(results[s], Head(sender_queues[s])) \o Tail(sender_queues[s])
            = results[s] \o sender_queues[s]
      <4>1. sender_queues[s] \in Seq(Items) /\ sender_queues[s] # <<>>
        BY <1>2, <1>4
      <4> QED
        BY <3>2, <4>1, HeadMoves
    <3>4. f.item = Head(sender_queues[s])
      OBVIOUS
    <3> QED
      BY <1>4, <1>5, <1>6, <2>1, <3>1, <3>3, <3>4
  <2>2. CASE t # s
    BY <1>4, <1>5, <1>6, <2>2 DEF IInv, Conservation
  <2> QED
    BY <2>1, <2>2
<1> QED
  BY <1>9, <1>10, <1>11, <1>12, <1>13, <1>14, <1>15, <1>16 DEF IInv

(* The steps that only move control. When the loop ends with nothing in    *)
(* flight the ready queue is empty, so no queue has items left.            *)
LEMMA FillDoneIInv ==
  ASSUME IInv, FillDone
  PROVE  IInv'
<1>1. /\ pc = "fill" /\ ~CanSubmit
      /\ pc' = IF in_flight = {} THEN "returned" ELSE "wait"
      /\ UNCHANGED <<items_by_sender, max_workers, sender_queues, ready_senders,
                     in_flight, queued, running, finished, raised, completed,
                     current, results>>
  BY DEF FillDone, planVars, poolVars
<1>2. UNCHANGED Outstanding
  BY <1>1 DEF Outstanding
<1>3. TypeOK' /\ BoundInv' /\ Conservation' /\ SerialPerSender' /\ ReadyInv'
  BY <1>1, <1>2 DEF IInv, TypeOK, PCs, BoundInv, Conservation, SerialPerSender,
                    ReadyInv
<1>4. PoolInv' /\ YieldedInv' /\ ProgressInv'
  BY <1>1 DEF IInv, PoolInv, Unwinding, YieldedInv, ProgressInv, Dispatching
<1>5. ControlInv'
  <2> SUFFICES ASSUME in_flight = {}
               PROVE  \A s \in Senders : sender_queues[s] = <<>>
    BY <1>1 DEF ControlInv
  <2>1. max_workers > 0
    BY <1>1 DEF IInv, ProgressInv, Dispatching
  <2>2. ready_senders = <<>>
    BY <1>1, <2>1, FS_EmptySet DEF CanSubmit
  <2> QED
    BY <1>1, <2>2 DEF IInv, ProgressInv, Dispatching
<1> QED
  BY <1>3, <1>4, <1>5 DEF IInv

LEMMA WaitIInv ==
  ASSUME IInv, Wait
  PROVE  IInv'
<1>1. /\ pc = "wait" /\ pc' = "deliver"
      /\ completed' = in_flight \cap finished
      /\ UNCHANGED <<items_by_sender, max_workers, sender_queues, ready_senders,
                     in_flight, queued, running, finished, raised, current,
                     results>>
  BY DEF Wait, planVars, poolVars
<1>2. UNCHANGED Outstanding
  BY <1>1 DEF Outstanding
<1>3. TypeOK' /\ BoundInv' /\ Conservation' /\ SerialPerSender' /\ ReadyInv'
  BY <1>1, <1>2 DEF IInv, TypeOK, PCs, BoundInv, Conservation, SerialPerSender,
                    ReadyInv
<1>4. PoolInv' /\ YieldedInv' /\ ProgressInv' /\ ControlInv'
  BY <1>1 DEF IInv, PoolInv, Unwinding, YieldedInv, ProgressInv, Dispatching,
              ControlInv
<1> QED
  BY <1>3, <1>4 DEF IInv

LEMMA UnwindIInv ==
  ASSUME IInv, Unwind
  PROVE  IInv'
<1>1. /\ Dispatching /\ pc' = "shutdown"
      /\ UNCHANGED <<items_by_sender, max_workers, sender_queues, ready_senders,
                     in_flight, queued, running, finished, raised, completed,
                     current, results>>
  BY DEF Unwind, planVars, poolVars, Dispatching
<1>2. UNCHANGED Outstanding
  BY <1>1 DEF Outstanding
<1>3. TypeOK' /\ BoundInv' /\ Conservation' /\ SerialPerSender' /\ ReadyInv'
  BY <1>1, <1>2 DEF IInv, TypeOK, PCs, BoundInv, Conservation, SerialPerSender,
                    ReadyInv
<1>4. PoolInv' /\ YieldedInv' /\ ProgressInv' /\ ControlInv'
  BY <1>1 DEF IInv, PoolInv, Unwinding, YieldedInv, ProgressInv, Dispatching,
              ControlInv
<1> QED
  BY <1>3, <1>4 DEF IInv

LEMMA ShutdownIInv ==
  ASSUME IInv, Shutdown
  PROVE  IInv'
<1>1. /\ pc = "shutdown" /\ pc' = "raised" /\ PoolDrained
      /\ UNCHANGED <<items_by_sender, max_workers, sender_queues, ready_senders,
                     in_flight, queued, running, finished, raised, completed,
                     current, results>>
  BY DEF Shutdown, planVars, poolVars
<1>2. UNCHANGED Outstanding
  BY <1>1 DEF Outstanding
<1>3. TypeOK' /\ BoundInv' /\ Conservation' /\ SerialPerSender' /\ ReadyInv'
  BY <1>1, <1>2 DEF IInv, TypeOK, PCs, BoundInv, Conservation, SerialPerSender,
                    ReadyInv
<1>4. PoolInv' /\ YieldedInv' /\ ProgressInv' /\ ControlInv'
  BY <1>1 DEF IInv, PoolInv, Unwinding, YieldedInv, ProgressInv, Dispatching,
              ControlInv, PoolDrained
<1> QED
  BY <1>3, <1>4 DEF IInv

(* The interrupted wait changes nothing but the place of control. *)
LEMMA CutShortIInv ==
  ASSUME IInv, CutShort
  PROVE  IInv'
<1>1. /\ pc = "shutdown" /\ pc' = "abandoned"
      /\ UNCHANGED <<items_by_sender, max_workers, sender_queues, ready_senders,
                     in_flight, queued, running, finished, raised, completed,
                     current, results>>
  BY DEF CutShort, planVars, poolVars
<1>2. UNCHANGED Outstanding
  BY <1>1 DEF Outstanding
<1>3. TypeOK' /\ BoundInv' /\ Conservation' /\ SerialPerSender' /\ ReadyInv'
  BY <1>1, <1>2 DEF IInv, TypeOK, PCs, BoundInv, Conservation, SerialPerSender,
                    ReadyInv
<1>4. PoolInv' /\ YieldedInv' /\ ProgressInv' /\ ControlInv'
  BY <1>1 DEF IInv, PoolInv, Unwinding, YieldedInv, ProgressInv, Dispatching,
              ControlInv
<1> QED
  BY <1>3, <1>4 DEF IInv

(* A future leaves the in_flight dict: its item is either appended to the  *)
(* results of its sender or stays outstanding as the exception escapes.    *)
LEMMA DeliverIInv ==
  ASSUME IInv, NEW f \in completed, Deliver(f)
  PROVE  IInv'
<1>1. /\ pc = "deliver"
      /\ completed' = completed \ {f}
      /\ in_flight' = in_flight \ {f}
      /\ finished' = finished \ {f}
      /\ current' = f
      /\ IF f \in raised
         THEN pc' = "shutdown" /\ UNCHANGED results
         ELSE /\ pc' = "yielded"
              /\ results' = [results EXCEPT ![f.sender] = Append(@, f.item)]
      /\ UNCHANGED <<items_by_sender, max_workers, sender_queues, ready_senders,
                     queued, running, raised>>
  BY DEF Deliver, planVars
<1>2. /\ f \in Future /\ f.sender \in Senders /\ f.item \in Items
      /\ f \in in_flight /\ f \in finished /\ f \notin queued \cup running
  BY DEF IInv, TypeOK, PoolInv, Future
<1>3. Outstanding = in_flight
  BY <1>1 DEF IInv, PoolInv, Unwinding, Outstanding
<1>4. Outstanding' = IF f \in raised THEN in_flight ELSE in_flight \ {f}
  BY <1>1, <1>2 DEF Outstanding
<1>5. /\ \A g \in in_flight \ {f} : g.sender # f.sender
      /\ \A i \in DOMAIN ready_senders : ready_senders[i] # f.sender
  BY <1>2, <1>3 DEF IInv, SerialPerSender, ReadyInv
<1>6. TypeOK'
  <2>1. pc' \in PCs
    BY <1>1 DEF PCs
  <2>2. results' \in [Senders -> Seq(Items)]
    <3>1. /\ results \in [Senders -> Seq(Items)]
          /\ f.sender \in Senders /\ f.item \in Items
      BY <1>2 DEF IInv, TypeOK
    <3>2. Append(results[f.sender], f.item) \in Seq(Items)
      BY <3>1, AppendProperties
    <3>3. results' \in {results, [results EXCEPT ![f.sender] = Append(@, f.item)]}
      BY <1>1
    <3> QED
      BY <3>1, <3>2, <3>3
  <2> QED
    BY <1>1, <1>2, <2>1, <2>2 DEF IInv, TypeOK
<1>7. PoolInv'
  BY <1>1, <1>2 DEF IInv, PoolInv, Unwinding
<1>8. SerialPerSender'
  BY <1>1, <1>3, <1>4 DEF IInv, SerialPerSender
<1>9. ReadyInv'
  BY <1>1, <1>3, <1>4 DEF IInv, ReadyInv
<1>10. YieldedInv'
  BY <1>1, <1>2, <1>4, <1>5 DEF YieldedInv
<1>11. ProgressInv'
  BY <1>1, <1>2 DEF IInv, ProgressInv, Dispatching
<1>12. ControlInv'
  BY <1>1 DEF ControlInv
<1>13. BoundInv'
  <2>1. /\ IsFiniteSet(in_flight) /\ Cardinality(in_flight) \in Nat
        /\ IsFiniteSet(in_flight') /\ Cardinality(in_flight') = Cardinality(in_flight) - 1
    BY <1>1, <1>2, FS_CardinalityType, FS_RemoveElement DEF IInv, BoundInv
  <2> QED
    BY <1>1, <2>1 DEF IInv, BoundInv, TypeOK
<1>14. Conservation'
  <2>1. CASE f \in raised
    BY <1>1, <1>3, <1>4, <2>1 DEF IInv, Conservation
  <2>2. CASE f \notin raised
    <3>1. /\ results' = [results EXCEPT ![f.sender] = Append(@, f.item)]
          /\ results \in [Senders -> Seq(Items)]
          /\ Outstanding' = in_flight \ {f}
      BY <1>1, <1>4, <2>2 DEF IInv, TypeOK
    <3> SUFFICES ASSUME NEW s \in Senders
                 PROVE  \/ /\ \A g \in Outstanding' : g.sender # s
                           /\ results'[s] \o sender_queues[s] = items_by_sender[s]
                        \/ \E g \in Outstanding' :
                             /\ g.sender = s
                             /\ Append(results'[s], g.item) \o sender_queues[s]
                                  = items_by_sender[s]
      BY <1>1 DEF Conservation
    <3>2. CASE s = f.sender
      <4>1. Append(results[s], f.item) \o sender_queues[s] = items_by_sender[s]
        BY <1>2, <1>3, <1>5, <3>2 DEF IInv, Conservation
      <4> QED
        BY <1>2, <1>5, <3>1, <3>2, <4>1
    <3>3. CASE s # f.sender
      BY <1>2, <1>3, <3>1, <3>3 DEF IInv, Conservation
    <3> QED
      BY <3>2, <3>3
  <2> QED
    BY <2>1, <2>2
<1> QED
  BY <1>6, <1>7, <1>8, <1>9, <1>10, <1>11, <1>12, <1>13, <1>14 DEF IInv

(* The consumer asks for more: the sender of the result it has seen has    *)
(* nothing out and does not wait, so it may be queued again.               *)
LEMMA ResumeIInv ==
  ASSUME IInv, Resume
  PROVE  IInv'
<1> DEFINE c == current.sender
<1>1. /\ pc = "yielded"
      /\ pc' = IF completed = {} THEN "fill" ELSE "deliver"
      /\ ready_senders' = IF sender_queues[c] # <<>>
                          THEN Append(ready_senders, c) ELSE ready_senders
      /\ UNCHANGED <<items_by_sender, max_workers, sender_queues, in_flight,
                     queued, running, finished, raised, completed, current,
                     results>>
  BY DEF Resume, planVars, poolVars, Requeued
<1>2. /\ c \in Senders
      /\ \A i \in DOMAIN ready_senders : ready_senders[i] # c
      /\ \A f \in Outstanding : f.sender # c
  BY <1>1 DEF IInv, YieldedInv, Future
<1> HIDE DEF c
<1>3. UNCHANGED Outstanding
  BY <1>1 DEF Outstanding
<1>4. ready_senders \in Seq(Senders)
  BY DEF IInv, TypeOK
<1>5. TypeOK'
  <2>1. pc' \in PCs
    BY <1>1 DEF PCs
  <2>2. ready_senders' \in Seq(Senders)
    BY <1>1, <1>2, <1>4, AppendProperties
  <2> QED
    BY <1>1, <2>1, <2>2 DEF IInv, TypeOK
<1>6. PoolInv' /\ SerialPerSender' /\ BoundInv' /\ Conservation'
  BY <1>1, <1>3 DEF IInv, PoolInv, Unwinding, SerialPerSender, BoundInv,
                    Conservation
<1>7. ReadyInv'
  <2>1. CASE sender_queues[c] = <<>>
    BY <1>1, <1>3, <2>1 DEF IInv, ReadyInv
  <2>2. CASE sender_queues[c] # <<>>
    <3>1. /\ DOMAIN ready_senders' = 1..(Len(ready_senders) + 1)
          /\ ready_senders'[Len(ready_senders) + 1] = c
          /\ \A i \in DOMAIN ready_senders : ready_senders'[i] = ready_senders[i]
          /\ \A i \in DOMAIN ready_senders' :
               i \in DOMAIN ready_senders \/ i = Len(ready_senders) + 1
          /\ Len(ready_senders) + 1 \notin DOMAIN ready_senders
      BY <1>1, <1>4, <2>2
    <3>2. \A i, j \in DOMAIN ready_senders' :
            ready_senders'[i] = ready_senders'[j] => i = j
      BY <1>2, <3>1 DEF IInv, ReadyInv
    <3>3. \A i \in DOMAIN ready_senders' :
            /\ sender_queues[ready_senders'[i]] # <<>>
            /\ \A f \in Outstanding : f.sender # ready_senders'[i]
      BY <1>2, <2>2, <3>1 DEF IInv, ReadyInv
    <3> QED
      BY <1>1, <1>3, <3>2, <3>3 DEF ReadyInv
  <2> QED
    BY <2>1, <2>2
<1>8. YieldedInv' /\ ControlInv'
  BY <1>1 DEF YieldedInv, ControlInv
<1>9. ProgressInv'
  <2>1. Dispatching /\ Dispatching' /\ pc' # "yielded"
    BY <1>1 DEF Dispatching
  <2> SUFFICES ASSUME NEW s \in Senders, sender_queues[s] # <<>>,
                      ~ \E f \in in_flight : f.sender = s
               PROVE  \E i \in DOMAIN ready_senders' : ready_senders'[i] = s
    BY <1>1, <2>1 DEF IInv, ProgressInv
  <2>2. s = c \/ \E i \in DOMAIN ready_senders : ready_senders[i] = s
    BY <2>1 DEF IInv, ProgressInv, c
  <2>3. CASE s = c
    <3>1. ready_senders' = Append(ready_senders, c)
      BY <1>1, <2>3
    <3> QED
      BY <1>4, <2>3, <3>1
  <2>4. CASE \E i \in DOMAIN ready_senders : ready_senders[i] = s
    BY <1>1, <1>4, <2>4
  <2> QED
    BY <2>2, <2>3, <2>4
<1> QED
  BY <1>5, <1>6, <1>7, <1>8, <1>9 DEF IInv

(* The pool moves a future from one of its states to the next.             *)
LEMMA PoolIInv ==
  ASSUME IInv, PoolStep
  PROVE  IInv'
<1>1. /\ UNCHANGED <<pc, items_by_sender, max_workers, sender_queues,
                     ready_senders, in_flight, completed, current, results>>
      /\ \/ \E f \in queued : /\ queued' = queued \ {f}
                              /\ running' = running \cup {f}
                              /\ UNCHANGED <<finished, raised>>
         \/ \E f \in running : /\ running' = running \ {f}
                               /\ finished' = finished \cup {f}
                               /\ raised' \in {raised, raised \cup {f}}
                               /\ UNCHANGED queued
  BY DEF PoolStep, BeginTask, EndTask, mainVars, planVars
<1>2. /\ queued' \cup running' \cup finished' = queued \cup running \cup finished
      /\ queued' \cup running' \subseteq queued \cup running
      /\ raised \subseteq raised' /\ raised' \ raised \subseteq in_flight
  BY <1>1 DEF IInv, PoolInv
<1>3. Outstanding' = Outstanding
  BY <1>1, <1>2 DEF Outstanding
<1>4. TypeOK' /\ BoundInv' /\ Conservation' /\ ReadyInv'
  BY <1>1, <1>3 DEF IInv, TypeOK, BoundInv, Conservation, ReadyInv
<1>5. PoolInv'
  BY <1>1 DEF IInv, PoolInv, Unwinding
<1>6. SerialPerSender'
  BY <1>2, <1>3 DEF IInv, SerialPerSender
<1>7. YieldedInv' /\ ProgressInv'
  BY <1>1, <1>3 DEF IInv, YieldedInv, ProgressInv, Dispatching
<1>8. ControlInv'
  BY <1>1, <1>2 DEF IInv, ControlInv, PoolInv
<1> QED
  BY <1>4, <1>5, <1>6, <1>7, <1>8 DEF IInv

LEMMA StutterIInv ==
  ASSUME IInv, UNCHANGED vars
  PROVE  IInv'
<1>1. UNCHANGED Outstanding
  BY DEF vars, Outstanding
<1>2. TypeOK'
  BY DEF vars, IInv, TypeOK
<1>3. PoolInv'
  BY DEF vars, IInv, PoolInv, Unwinding
<1>4. SerialPerSender' /\ ReadyInv' /\ YieldedInv'
  BY <1>1 DEF vars, IInv, SerialPerSender, ReadyInv, YieldedInv
<1>5. ProgressInv' /\ ControlInv' /\ BoundInv'
  BY DEF vars, IInv, ProgressInv, Dispatching, ControlInv, BoundInv
<1>6. Conservation'
  BY <1>1 DEF vars, IInv, Conservation
<1> QED
  BY <1>2, <1>3, <1>4, <1>5, <1>6 DEF IInv

LEMMA NextIInv == IInv /\ [Next]_vars => IInv'
<1> SUFFICES ASSUME IInv, [Next]_vars PROVE IInv'
  OBVIOUS
<1>1. CASE \E queues \in Workloads : Start(queues)
  BY <1>1, StartIInv
<1>2. CASE MainStep
  BY <1>2, SubmitIInv, FillDoneIInv, WaitIInv, DeliverIInv, ResumeIInv,
     ShutdownIInv DEF MainStep
<1>3. CASE Unwind \/ CutShort
  BY <1>3, UnwindIInv, CutShortIInv
<1>4. CASE PoolStep
  BY <1>4, PoolIInv
<1>5. CASE UNCHANGED vars
  BY <1>5, StutterIInv
<1> QED
  BY <1>1, <1>2, <1>3, <1>4, <1>5 DEF Next

-----------------------------------------------------------------------------
(* IInv holds in every reachable state.                                    *)
THEOREM Inductive == Spec => []IInv
BY InitIInv, NextIInv, PTL DEF Spec

(* Type correctness: the pool never has more threads than                  *)
(* MAX_CONCURRENT_SENDERS and only futures in flight are completed.        *)
THEOREM TypeCorrect == Spec => []TypeOK
<1>1. IInv => TypeOK
  BY DEF IInv
<1> QED
  BY <1>1, Inductive, PTL

(* No item is lost, duplicated or reordered, interrupted or not.           *)
THEOREM NothingLost == Spec => []Conservation
<1>1. IInv => Conservation
  BY DEF IInv
<1> QED
  BY <1>1, Inductive, PTL

(* No two items of a sender are ever worked on at the same time.           *)
THEOREM OneRequestPerSender == Spec => []SerialPerSender
<1>1. IInv => SerialPerSender
  BY DEF IInv
<1> QED
  BY <1>1, Inductive, PTL

(* Control leaves iter_results beside working threads only when an         *)
(* interrupt struck the wait for them; what they work on then was in       *)
(* flight, and is no more than the pool has threads.                       *)
THEOREM WorkAfterExitIsBounded == Spec => []WorkLeftAtExit
<1>1. IInv => WorkLeftAtExit
  <2> SUFFICES ASSUME IInv, Ended, queued \cup running # {}
               PROVE  /\ pc = "abandoned"
                      /\ queued \cup running \subseteq in_flight
                      /\ Cardinality(queued \cup running) <= max_workers
    BY DEF WorkLeftAtExit
  <2>1. pc = "abandoned" /\ queued \cup running \subseteq in_flight
    BY DEF IInv, ControlInv, PoolInv, Ended
  <2>2. /\ IsFiniteSet(queued \cup running)
        /\ Cardinality(queued \cup running) <= Cardinality(in_flight)
    BY <2>1, FS_Subset DEF IInv, BoundInv
  <2>3. /\ Cardinality(queued \cup running) \in Nat
        /\ Cardinality(in_flight) \in Nat /\ max_workers \in Nat
    BY <2>2, FS_CardinalityType, ConcurrencyAssumption DEF IInv, BoundInv, TypeOK
  <2> QED
    BY <2>1, <2>2, <2>3 DEF IInv, BoundInv
<1> QED
  BY <1>1, Inductive, PTL

(* A dispatch that returns has yielded everything it was given.            *)
THEOREM EverythingYielded == Spec => []ReturnedIsComplete
<1>1. IInv => ReturnedIsComplete
  <2> SUFFICES ASSUME IInv, pc = "returned" PROVE results = items_by_sender
    BY DEF ReturnedIsComplete
  <2>1. /\ results \in [Senders -> Seq(Items)]
        /\ items_by_sender \in [Senders -> Seq(Items)]
    BY DEF IInv, TypeOK
  <2>2. Outstanding = {} /\ \A s \in Senders : sender_queues[s] = <<>>
    BY DEF IInv, ControlInv, PoolInv, Unwinding, Outstanding
  <2>3. \A s \in Senders : results[s] \o <<>> = items_by_sender[s]
    BY <2>2 DEF IInv, Conservation
  <2>4. \A s \in Senders : results[s] = items_by_sender[s]
    BY <2>1, <2>3, ConcatEmptySeq
  <2> QED
    BY <2>1, <2>4
<1> QED
  BY <1>1, Inductive, PTL

(* The main loop forgets no sender that has items left.                    *)
THEOREM NobodyForgotten == Spec => []NoSenderStranded
<1>1. IInv => NoSenderStranded
  <2> SUFFICES ASSUME IInv, Dispatching, NEW s \in Senders,
                      NEW i \in DOMAIN ready_senders, ready_senders[i] = s
               PROVE  Cardinality(PlacesOf(s)) = 1
    BY DEF IInv, ProgressInv, Dispatching, NoSenderStranded
  <2>1. DOMAIN ready_senders = 1..Len(ready_senders)
    BY DEF IInv, TypeOK
  <2>2. PlacesOf(s) = {i}
    BY <2>1 DEF PlacesOf, IInv, ReadyInv
  <2> QED
    BY <2>2, FS_Singleton
<1> QED
  BY <1>1, Inductive, PTL

-----------------------------------------------------------------------------
(* FullyUsed. The main thread blocks only where the fill loop has just     *)
(* ended, and until it wakes up only the pool's threads take steps.        *)
WaitInv == pc = "wait" => ~CanSubmit

LEMMA WaitStep ==
  ASSUME [Next]_vars, WaitInv
  PROVE  WaitInv'
<1> SUFFICES ASSUME pc' = "wait" PROVE ~CanSubmit'
  BY DEF WaitInv
<1>1. CASE FillDone
  <2>1. ~CanSubmit /\ UNCHANGED <<ready_senders, in_flight, max_workers>>
    BY <1>1 DEF FillDone, planVars
  <2> QED
    BY <2>1 DEF CanSubmit
<1>2. CASE PoolStep \/ UNCHANGED vars
  <2>1. UNCHANGED <<pc, ready_senders, in_flight, max_workers>>
    BY <1>2 DEF PoolStep, BeginTask, EndTask, mainVars, planVars, vars
  <2>2. ~CanSubmit
    BY <2>1 DEF WaitInv
  <2> QED
    BY <2>1, <2>2 DEF CanSubmit
<1>3. ~ \/ \E queues \in Workloads : Start(queues)
        \/ Submit \/ Wait \/ (\E f \in completed : Deliver(f)) \/ Resume
        \/ Shutdown \/ Unwind \/ CutShort
  BY DEF Start, Submit, Wait, Deliver, Resume, Shutdown, Unwind, CutShort
<1> QED
  BY <1>1, <1>2, <1>3 DEF Next, MainStep

LEMMA BlocksWhenFull == Spec => []WaitInv
<1>1. Init => WaitInv
  BY DEF Init, WaitInv
<1>2. WaitInv /\ [Next]_vars => WaitInv'
  BY WaitStep
<1> QED
  BY <1>1, <1>2, PTL DEF Spec

(* The senders of the futures in flight: there are as many as futures,     *)
(* because no two futures share a sender.                                  *)
InFlightSenders == {s \in Senders : \E f \in in_flight : f.sender = s}

LEMMA OneFuturePerSender ==
  ASSUME IInv
  PROVE  /\ IsFiniteSet(InFlightSenders)
         /\ Cardinality(InFlightSenders) = Cardinality(in_flight)
<1> DEFINE senderOf == [f \in in_flight |-> f.sender]
<1>1. \A f \in in_flight : f.sender \in InFlightSenders
  BY DEF IInv, TypeOK, Future, InFlightSenders
<1>2. senderOf \in [in_flight -> InFlightSenders]
  BY <1>1
<1>3. \A f, g \in in_flight : senderOf[f] = senderOf[g] => f = g
  BY DEF IInv, SerialPerSender, Outstanding
<1>4. \A s \in InFlightSenders : \E f \in in_flight : senderOf[f] = s
  BY DEF InFlightSenders
<1>5. senderOf \in Bijection(in_flight, InFlightSenders)
  <2> HIDE DEF senderOf
  <2> QED
    BY <1>2, <1>3, <1>4 DEF Bijection, Injection, Surjection, IsInjective
<1>6. ExistsBijection(in_flight, InFlightSenders)
  BY <1>5 DEF ExistsBijection
<1>7. IsFiniteSet(in_flight)
  BY DEF IInv, BoundInv
<1> QED
  BY <1>6, <1>7, FS_Bijection

(* When the main thread blocks, the pool works on as many senders as it    *)
(* may, or on every sender that has anything left.                         *)
THEOREM NoThreadIdles == Spec => []FullyUsed
<1>1. IInv /\ WaitInv => FullyUsed
  <2> DEFINE busy == {s \in Senders : \/ sender_queues[s] # <<>>
                                      \/ \E f \in in_flight : f.sender = s}
  <2> SUFFICES ASSUME IInv, WaitInv, pc = "wait"
               PROVE  Cardinality(in_flight)
                        = Smaller(max_workers, Cardinality(busy))
    BY DEF FullyUsed
  <2>1. InFlightSenders \in SUBSET busy
    BY DEF InFlightSenders
  <2>2. IsFiniteSet(busy) /\ Cardinality(busy) \in Nat
    BY SendersAssumption, FS_Subset, FS_CardinalityType
  <2>3. Cardinality(in_flight) <= Cardinality(busy)
    BY <2>1, <2>2, OneFuturePerSender, FS_Subset
  <2>4. /\ Cardinality(in_flight) \in Nat /\ max_workers \in Nat
        /\ Cardinality(in_flight) <= max_workers
    BY FS_CardinalityType, ConcurrencyAssumption DEF IInv, BoundInv, TypeOK
  <2>5. CASE ready_senders = <<>>
    <3>1. busy = InFlightSenders
      BY <2>5 DEF InFlightSenders, IInv, ProgressInv, Dispatching
    <3>2. Cardinality(busy) = Cardinality(in_flight)
      BY <3>1, OneFuturePerSender
    <3> QED
      BY <2>4, <3>2 DEF Smaller
  <2>6. CASE ready_senders # <<>>
    <3>1. ~(Cardinality(in_flight) < max_workers)
      BY <2>6 DEF WaitInv, CanSubmit
    <3> HIDE DEF busy
    <3> QED
      BY <2>2, <2>3, <2>4, <3>1 DEF Smaller
  <2> QED
    BY <2>5, <2>6
<1> QED
  BY <1>1, BlocksWhenFull, Inductive, PTL

-----------------------------------------------------------------------------
(* A waiting sender is only ever closer to its turn.                       *)
LEMMA TurnStep ==
  ASSUME IInv, [Next]_vars, NEW s \in Senders,
         PlacesOf(s) # {}, PlacesOf(s)' # {}
  PROVE  Ahead(s)' \subseteq Ahead(s)
<1>0. ready_senders \in Seq(Senders) /\ DOMAIN ready_senders = 1..Len(ready_senders)
  BY DEF IInv, TypeOK
<1>1. PICK k \in DOMAIN ready_senders : ready_senders[k] = s
  BY <1>0 DEF PlacesOf
<1>2. \A m \in DOMAIN ready_senders : ready_senders[m] = s => m = k
  BY <1>1 DEF IInv, ReadyInv
<1>3. CASE UNCHANGED ready_senders
  BY <1>3 DEF Ahead
<1>4. CASE \E queues \in Workloads : Start(queues)
  <2>1. ready_senders = <<>>
    BY <1>4 DEF Start, IInv, ControlInv
  <2> QED
    BY <1>1, <2>1
<1>5. CASE Submit
  <2>1. ready_senders' = Tail(ready_senders) /\ ready_senders # <<>>
    BY <1>5 DEF Submit, ReadyPopped, CanSubmit
  <2>2. \A m \in DOMAIN ready_senders' :
          ready_senders'[m] = ready_senders[m + 1] /\ m + 1 \in DOMAIN ready_senders
    BY <1>0, <2>1, HeadTailProperties
  <2>3. DOMAIN ready_senders' \subseteq Nat
    BY <1>0, <2>1, HeadTailProperties
  <2> QED
    BY <2>2, <2>3 DEF Ahead
<1>6. CASE Resume /\ ready_senders' = Append(ready_senders, current.sender)
  <2>1. /\ current.sender \in Senders
        /\ \A m \in DOMAIN ready_senders : ready_senders[m] # current.sender
    BY <1>6 DEF Resume, IInv, YieldedInv, Future
  <2>2. /\ \A m \in DOMAIN ready_senders : ready_senders'[m] = ready_senders[m]
        /\ \A m \in DOMAIN ready_senders' :
             \/ m \in DOMAIN ready_senders
             \/ (m = Len(ready_senders) + 1 /\ ready_senders'[m] = current.sender)
    BY <1>0, <1>6, <2>1, AppendProperties
  <2>3. \A m, n \in DOMAIN ready_senders' :
          m < n /\ ready_senders'[n] = s =>
            n = k /\ m \in DOMAIN ready_senders
    BY <1>0, <1>1, <1>2, <2>1, <2>2
  <2> QED
    BY <1>1, <2>2, <2>3 DEF Ahead
<1>7. CASE Resume /\ UNCHANGED ready_senders
  BY <1>3, <1>7
<1> QED
  <2>1. Resume => \/ ready_senders' = Append(ready_senders, current.sender)
                  \/ UNCHANGED ready_senders
    BY DEF Resume, Requeued
  <2>2. (FillDone \/ Wait \/ (\E f \in completed : Deliver(f)) \/ Shutdown
           \/ Unwind \/ CutShort \/ PoolStep \/ UNCHANGED vars)
        => UNCHANGED ready_senders
    BY DEF FillDone, Wait, Deliver, Shutdown, Unwind, CutShort, PoolStep,
           BeginTask, EndTask, mainVars, vars
  <2> QED
    BY <1>3, <1>4, <1>5, <1>6, <1>7, <2>1, <2>2 DEF Next, MainStep

(* Round robin: no sender is overtaken while it waits for its turn.        *)
THEOREM RoundRobinOrder == Spec => TurnOrder
<1>1. IInv /\ [Next]_vars =>
        [\A s \in Senders :
           PlacesOf(s) # {} /\ PlacesOf(s)' # {} => Ahead(s)' \subseteq Ahead(s)]_vars
  BY TurnStep
<1> QED
  BY <1>1, Inductive, PTL DEF Spec, TurnOrder

-----------------------------------------------------------------------------
(* The scheduler implements SenderDispatch: Submit is Take, the delivery of*)
(* a result is HandBack, leaving the loop is Complete, and whatever makes  *)
(* control leave early is Abort.                                           *)

LEMMA InitImplements == Init => Dispatch!Init
BY DEF Init, Dispatch!Init, Outstanding

LEMMA StartImplements ==
  ASSUME IInv, NEW queues \in Workloads, Start(queues)
  PROVE  Dispatch!Begin(queues)
<1>1. /\ pc = "idle" /\ pc' \in {"fill", "returned"}
      /\ pc' = "returned" <=> \A s \in Senders : queues[s] = <<>>
      /\ sender_queues' = queues
      /\ UNCHANGED <<in_flight, raised, current, results>>
  BY DEF Start, poolVars
<1>2. UNCHANGED Outstanding
  BY <1>1 DEF Outstanding
<1> QED
  BY <1>1, <1>2 DEF Dispatch!Begin

LEMMA SubmitImplements ==
  ASSUME IInv, Submit
  PROVE  \E s \in Senders : Dispatch!Take(s)
<1> DEFINE s == Head(ready_senders)
           f == [sender |-> s, item |-> Head(sender_queues[s])]
<1>1. /\ pc = "fill" /\ CanSubmit /\ s \in Senders /\ s = ready_senders[1]
      /\ 1 \in DOMAIN ready_senders
  BY DEF Submit, CanSubmit, IInv, TypeOK
<1>2. /\ sender_queues[s] # <<>>
      /\ \A g \in Outstanding : g.sender # s
  BY <1>1 DEF IInv, ReadyInv
<1>3. /\ sender_queues' = [sender_queues EXCEPT ![s] = Tail(@)]
      /\ in_flight' = in_flight \cup {f}
      /\ UNCHANGED <<pc, raised, current, results>>
  BY <1>2 DEF Submit, Oldest
<1>4. Outstanding = in_flight
  BY <1>1 DEF IInv, PoolInv, Unwinding, Outstanding
<1>5. Outstanding' = Outstanding \cup {f}
  BY <1>3 DEF Outstanding
<1>6. Cardinality(Outstanding) < MaxConcurrentSenders
  <2>1. Cardinality(in_flight) \in Nat
    BY FS_CardinalityType DEF IInv, BoundInv
  <2> QED
    BY <1>1, <1>4, <2>1, ConcurrencyAssumption DEF IInv, TypeOK, CanSubmit
<1> HIDE DEF s
<1>7. Dispatch!Take(s)
  <2>1. Dispatch!Cardinality(Outstanding) = Cardinality(Outstanding)
    BY DEF Dispatch!Cardinality, Cardinality
  <2> QED
    BY <1>1, <1>2, <1>3, <1>5, <1>6, <2>1 DEF Dispatch!Take
<1> QED
  BY <1>1, <1>7

LEMMA FillDoneImplements ==
  ASSUME IInv, FillDone
  PROVE  Dispatch!Complete \/ UNCHANGED Dispatch!vars
<1>1. /\ pc = "fill"
      /\ pc' = IF in_flight = {} THEN "returned" ELSE "wait"
      /\ UNCHANGED <<sender_queues, in_flight, raised, current, results>>
  BY DEF FillDone, poolVars
<1>2. Outstanding = in_flight /\ UNCHANGED Outstanding
  BY <1>1 DEF IInv, PoolInv, Unwinding, Outstanding
<1>3. CASE in_flight = {}
  <2>1. IInv' /\ pc' = "returned"
    BY <1>1, <1>3, FillDoneIInv
  <2>2. \A s \in Senders : sender_queues[s] = <<>>
    BY <1>1, <2>1 DEF IInv, ControlInv
  <2> QED
    BY <1>1, <1>2, <1>3, <2>1, <2>2 DEF Dispatch!Complete
<1>4. CASE in_flight # {}
  BY <1>1, <1>2, <1>4 DEF Dispatch!vars
<1> QED
  BY <1>3, <1>4

LEMMA DeliverImplements ==
  ASSUME IInv, NEW f \in completed, Deliver(f)
  PROVE  \/ \E g \in Outstanding : Dispatch!HandBack(g)
         \/ Dispatch!Abort
<1>1. /\ pc = "deliver"
      /\ in_flight' = in_flight \ {f}
      /\ current' = f
      /\ IF f \in raised
         THEN pc' = "shutdown" /\ UNCHANGED results
         ELSE /\ pc' = "yielded"
              /\ results' = [results EXCEPT ![f.sender] = Append(@, f.item)]
      /\ UNCHANGED <<sender_queues, raised>>
  BY DEF Deliver
<1>2. f \in in_flight
  BY DEF IInv, TypeOK
<1>3. Outstanding = in_flight
  BY <1>1 DEF IInv, PoolInv, Unwinding, Outstanding
<1>4. Outstanding' = IF f \in raised THEN Outstanding ELSE Outstanding \ {f}
  BY <1>1, <1>2, <1>3 DEF Outstanding
<1>5. CASE f \in raised
  BY <1>1, <1>4, <1>5 DEF Dispatch!Abort
<1>6. CASE f \notin raised
  <2>1. Dispatch!HandBack(f)
    BY <1>1, <1>4, <1>6 DEF Dispatch!HandBack
  <2> QED
    BY <1>2, <1>3, <2>1
<1> QED
  BY <1>5, <1>6

LEMMA UnwindImplements == Unwind => Dispatch!Abort
<1> SUFFICES ASSUME Unwind PROVE Dispatch!Abort
  OBVIOUS
<1>1. /\ pc \in {"fill", "wait", "deliver", "yielded"} /\ pc' = "shutdown"
      /\ UNCHANGED <<sender_queues, in_flight, raised, current, results>>
  BY DEF Unwind, poolVars
<1>2. UNCHANGED Outstanding
  BY <1>1 DEF Outstanding
<1> QED
  BY <1>1, <1>2 DEF Dispatch!Abort

(* The remaining steps are invisible to the caller.                        *)
LEMMA SilentStepsImplement ==
  ASSUME IInv,
         Wait \/ Resume \/ Shutdown \/ CutShort \/ PoolStep \/ UNCHANGED vars
  PROVE  UNCHANGED Dispatch!vars
<1>1. CASE Wait \/ Resume \/ Shutdown \/ CutShort
  <2>1. /\ \/ pc \in {"wait", "yielded"} /\ pc' \in {"deliver", "fill"}
           \/ pc = "shutdown" /\ pc' \in {"raised", "abandoned"}
        /\ UNCHANGED <<sender_queues, in_flight, raised, current, results>>
    BY <1>1 DEF Wait, Resume, Shutdown, CutShort, poolVars
  <2>2. UNCHANGED Outstanding
    BY <2>1 DEF Outstanding
  <2> QED
    BY <2>1, <2>2 DEF Dispatch!vars
<1>2. CASE PoolStep
  <2>1. /\ UNCHANGED <<pc, sender_queues, in_flight, current, results>>
        /\ \/ UNCHANGED raised
           \/ \E f \in running : raised' = raised \cup {f}
    BY <1>2 DEF PoolStep, BeginTask, EndTask, mainVars
  <2>2. UNCHANGED Outstanding
    BY <2>1 DEF Outstanding, IInv, PoolInv
  <2> QED
    BY <2>1, <2>2 DEF Dispatch!vars
<1>3. CASE UNCHANGED vars
  BY <1>3 DEF vars, Outstanding, Dispatch!vars
<1> QED
  BY <1>1, <1>2, <1>3

LEMMA NextImplements == IInv /\ [Next]_vars => [Dispatch!Next]_Dispatch!vars
<1> SUFFICES ASSUME IInv, [Next]_vars
             PROVE  Dispatch!Next \/ UNCHANGED Dispatch!vars
  OBVIOUS
<1>1. CASE \E queues \in Workloads : Start(queues)
  BY <1>1, StartImplements DEF Dispatch!Next
<1>2. CASE Submit
  BY <1>2, SubmitImplements DEF Dispatch!Next
<1>3. CASE FillDone
  BY <1>3, FillDoneImplements DEF Dispatch!Next
<1>4. CASE \E f \in completed : Deliver(f)
  BY <1>4, DeliverImplements DEF Dispatch!Next
<1>5. CASE Unwind
  BY <1>5, UnwindImplements DEF Dispatch!Next
<1>6. CASE Wait \/ Resume \/ Shutdown \/ CutShort \/ PoolStep \/ UNCHANGED vars
  BY <1>6, SilentStepsImplement
<1> QED
  BY <1>1, <1>2, <1>3, <1>4, <1>5, <1>6 DEF Next, MainStep

(* The scheduler keeps every promise of SenderDispatch, for any number of  *)
(* senders, workers and items.                                             *)
THEOREM RoundRobinImplementsDispatch == Spec => ImplementsDispatch
BY InitImplements, NextImplements, Inductive, PTL
   DEF Spec, ImplementsDispatch, Dispatch!Spec
=============================================================================
