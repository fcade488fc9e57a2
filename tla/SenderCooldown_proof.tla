------------------------- MODULE SenderCooldown_proof -------------------------
(***************************************************************************)
(* TLAPS proof about SenderCooldown, for any senders, workloads, number of *)
(* threads and of retries: what the scheduler's proofs say still holds     *)
(* when threads sleep in a cooldown, and only senders that are limited     *)
(* put a thread to sleep.                                                  *)
(***************************************************************************)
EXTENDS SenderCooldown, SenderRoundRobin_proof

(* A thread sleeps on behalf of a limited sender. *)
CoolingInv ==
  /\ limited \subseteq Senders
  /\ \A f \in cooling : f.sender \in limited

(* A cooldown adds nothing to the scheduler's own steps: a rate-limited    *)
(* answer and a wake-up leave all of its variables alone.                  *)
LEMMA CooldownImplementsRoundRobin == CooldownSpec => Spec
<1>1. CooldownInit => Init
  BY DEF CooldownInit
<1>2. [CooldownNext]_allVars => [Next]_vars
  <2> SUFFICES ASSUME [CooldownNext]_allVars PROVE [Next]_vars
    OBVIOUS
  <2>1. CASE \/ \E queues \in Workloads : Start(queues)
             \/ MainStep \/ Unwind \/ CutShort \/ (Ended /\ UNCHANGED vars)
    BY <2>1 DEF Next
  <2>2. CASE \E f \in queued : BeginRequest(f)
    BY <2>2 DEF BeginRequest, Next, PoolStep
  <2>3. CASE \E f \in running, raises \in BOOLEAN : EndRequest(f, raises)
    BY <2>3 DEF EndRequest, Next, PoolStep
  <2>4. CASE \/ \E f \in running : RateLimited(f)
             \/ \E f \in cooling : WakeUp(f)
             \/ UNCHANGED allVars
    BY <2>4 DEF RateLimited, WakeUp, allVars
  <2> QED
    BY <2>1, <2>2, <2>3, <2>4 DEF CooldownNext
<1> QED
  BY <1>1, <1>2, PTL DEF CooldownSpec, Spec

LEMMA OnlyLimitedSleep == CooldownSpec => []CoolingInv
<1>1. CooldownInit => CoolingInv
  BY DEF CooldownInit, CoolingInv
<1>2. CoolingInv /\ [CooldownNext]_allVars => CoolingInv'
  <2> SUFFICES ASSUME CoolingInv, [CooldownNext]_allVars PROVE CoolingInv'
    OBVIOUS
  <2>1. CASE \E f \in running : RateLimited(f)
    BY <2>1 DEF RateLimited, CoolingInv
  <2>2. CASE \E f \in cooling : WakeUp(f)
    BY <2>2 DEF WakeUp, CoolingInv
  <2>3. CASE UNCHANGED <<limited, cooling>>
    BY <2>3 DEF CoolingInv
  <2> QED
    BY <2>1, <2>2, <2>3
       DEF CooldownNext, BeginRequest, EndRequest, cooldownVars, allVars
<1> QED
  BY <1>1, <1>2, PTL DEF CooldownSpec

LEMMA AppendedIsNonempty ==
  ASSUME NEW S, NEW r \in Seq(S), NEW x \in S, NEW q \in Seq(S)
  PROVE  Append(r, x) \o q # <<>>
<1>1. Append(r, x) \in Seq(S) /\ Len(Append(r, x)) = Len(r) + 1
  BY AppendProperties
<1>2. Len(Append(r, x) \o q) = Len(r) + 1 + Len(q)
  BY <1>1, ConcatProperties
<1>3. Len(r) \in Nat /\ Len(q) \in Nat
  BY LenProperties
<1> QED
  BY <1>2, <1>3

(* A sender with a future in flight was given items. *)
LEMMA InFlightHasItems ==
  ASSUME IInv, NEW f \in in_flight
  PROVE  f.sender \in Senders /\ items_by_sender[f.sender] # <<>>
<1> DEFINE s == f.sender
<1>1. s \in Senders /\ f \in Outstanding
  BY DEF IInv, TypeOK, Future, Outstanding
<1>2. PICK g \in Outstanding :
        /\ g.sender = s
        /\ Append(results[s], g.item) \o sender_queues[s] = items_by_sender[s]
  BY <1>1 DEF IInv, Conservation
<1>3. g \in Future
  BY DEF IInv, TypeOK, PoolInv, Outstanding, Unwinding
<1>4. /\ results[s] \in Seq(Items) /\ sender_queues[s] \in Seq(Items)
      /\ g.item \in Items
  BY <1>1, <1>3 DEF IInv, TypeOK, Future
<1>5. Append(results[s], g.item) \o sender_queues[s] # <<>>
  BY <1>4, AppendedIsNonempty
<1> QED
  BY <1>1, <1>2, <1>5

(* The main thread is held up beside waiting senders only when as many     *)
(* senders are limited as there are threads.                               *)
THEOREM CooldownIsConfined == CooldownSpec => []StallNeedsLimits
<1>1. IInv /\ WaitInv /\ CoolingInv => StallNeedsLimits
  <2> SUFFICES ASSUME IInv, WaitInv, CoolingInv, pc = "wait",
                      ready_senders # <<>>, in_flight \subseteq cooling
               PROVE  Cardinality(LimitedHere) >= max_workers
    BY DEF StallNeedsLimits
  <2>1. InFlightSenders \subseteq LimitedHere
    BY InFlightHasItems DEF InFlightSenders, LimitedHere, CoolingInv
  <2>2. IsFiniteSet(LimitedHere) /\ Cardinality(LimitedHere) \in Nat
    <3>1. LimitedHere \in SUBSET Senders
      BY DEF LimitedHere, CoolingInv
    <3> QED
      BY <3>1, SendersAssumption, FS_Subset, FS_CardinalityType
  <2>3. Cardinality(in_flight) <= Cardinality(LimitedHere)
    BY <2>1, <2>2, OneFuturePerSender, FS_Subset
  <2>4. Cardinality(in_flight) \in Nat /\ max_workers \in Nat
    BY FS_CardinalityType, ConcurrencyAssumption DEF IInv, BoundInv, TypeOK
  <2>5. ~(Cardinality(in_flight) < max_workers)
    BY DEF WaitInv, CanSubmit
  <2> QED
    BY <2>2, <2>3, <2>4, <2>5
<1> QED
  BY <1>1, CooldownImplementsRoundRobin, OnlyLimitedSleep, BlocksWhenFull,
     Inductive, PTL
===============================================================================
