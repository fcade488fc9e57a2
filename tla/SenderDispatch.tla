---------------------------- MODULE SenderDispatch ----------------------------
(***************************************************************************)
(* What SenderRoundRobinScheduler promises its caller, with the worker     *)
(* pool, the ready queue and the order of service abstracted away:         *)
(*                                                                         *)
(*   - the items of one sender are worked on one at a time, in order;      *)
(*   - at most MaxConcurrentSenders senders are worked on at once;         *)
(*   - every item is handed back exactly once, unless the whole dispatch   *)
(*     is aborted, and then nothing more is taken or handed back.          *)
(***************************************************************************)
EXTENDS Naturals, Sequences, FiniteSets

CONSTANTS
  Senders,               \* user ids that own queues
  Items,                 \* the work items (candidate events)
  MaxConcurrentSenders,  \* bound on senders worked on at once
  Workloads              \* what a caller may hand over: a queue per sender

VARIABLES
  phase,      \* "idle", "open", "complete" or "aborted"
  work,       \* items of each sender nobody has taken yet
  active,     \* items taken and not handed back, with their sender
  delivered   \* items of each sender handed back, in order

vars == <<phase, work, active, delivered>>

Init ==
  /\ phase = "idle"
  /\ work = [s \in Senders |-> <<>>]
  /\ active = {}
  /\ delivered = [s \in Senders |-> <<>>]

(* The caller hands over one queue per sender. *)
Begin(queues) ==
  /\ phase = "idle"
  /\ phase' = IF \A s \in Senders : queues[s] = <<>> THEN "complete" ELSE "open"
  /\ work' = queues
  /\ UNCHANGED <<active, delivered>>

(* The next item of a sender none of whose items is active becomes active. *)
Take(s) ==
  /\ phase = "open"
  /\ work[s] # <<>>
  /\ \A f \in active : f.sender # s
  /\ Cardinality(active) < MaxConcurrentSenders
  /\ active' = active \cup {[sender |-> s, item |-> Head(work[s])]}
  /\ work' = [work EXCEPT ![s] = Tail(@)]
  /\ UNCHANGED <<phase, delivered>>

(* An active item is handed back. *)
HandBack(f) ==
  /\ phase = "open"
  /\ active' = active \ {f}
  /\ delivered' = [delivered EXCEPT ![f.sender] = Append(@, f.item)]
  /\ UNCHANGED <<phase, work>>

Complete ==
  /\ phase = "open"
  /\ active = {}
  /\ \A s \in Senders : work[s] = <<>>
  /\ phase' = "complete"
  /\ UNCHANGED <<work, active, delivered>>

Abort ==
  /\ phase = "open"
  /\ phase' = "aborted"
  /\ UNCHANGED <<work, active, delivered>>

Next ==
  \/ \E queues \in Workloads : Begin(queues)
  \/ \E s \in Senders : Take(s)
  \/ \E f \in active : HandBack(f)
  \/ Complete
  \/ Abort

Spec == Init /\ [][Next]_vars
===============================================================================
