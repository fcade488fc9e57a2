---------------------------- MODULE SenderCooldown ----------------------------
(***************************************************************************)
(* The scheduler beside a homeserver that limits the rate of some senders: *)
(* a worker that is answered 429 sleeps in its pool thread for as long as  *)
(* retry_after_ms says, and keeps its place in in_flight while it does.    *)
(* The scheduler's steps are SenderRoundRobin's; of a worker this module   *)
(* adds what MatrixClient does between two attempts. How long a sleep may  *)
(* last is the homeserver's choice, so nothing says that it ends.          *)
(***************************************************************************)
EXTENDS SenderRoundRobin

CONSTANT MaxRetries   \* MAX_RETRIES

ASSUME RetriesAssumption == MaxRetries \in Nat

VARIABLES
  limited,   \* senders the homeserver answers 429 (external)
  cooling,   \* futures whose thread sleeps between two attempts
  retries    \* attempts answered 429 of each sender's current request

cooldownVars == <<limited, cooling, retries>>
allVars == <<vars, cooldownVars>>

CooldownInit ==
  /\ Init
  /\ limited \in SUBSET Senders
  /\ cooling = {}
  /\ retries = [s \in Senders |-> 0]

-----------------------------------------------------------------------------
(* A pool thread calls the worker: a new request, with all its attempts.   *)
BeginRequest(f) ==
  /\ BeginTask(f)
  /\ retries' = [retries EXCEPT ![f.sender] = 0]
  /\ UNCHANGED <<limited, cooling>>

(* _sleep_retryable_response: a 429 with attempts left puts the thread to  *)
(* sleep. (Without any left the request fails, which is EndRequest.)       *)
RateLimited(f) ==
  /\ f \in running \ cooling
  /\ f.sender \in limited
  /\ retries[f.sender] < MaxRetries
  /\ retries' = [retries EXCEPT ![f.sender] = @ + 1]
  /\ cooling' = cooling \cup {f}
  /\ UNCHANGED <<vars, limited>>

(* time.sleep returns: the next attempt. *)
WakeUp(f) ==
  /\ f \in cooling
  /\ cooling' = cooling \ {f}
  /\ UNCHANGED <<vars, limited, retries>>

EndRequest(f, raises) ==
  /\ f \notin cooling
  /\ EndTask(f, raises)
  /\ UNCHANGED cooldownVars

-----------------------------------------------------------------------------
CooldownNext ==
  \/ /\ \/ \E queues \in Workloads : Start(queues)
        \/ MainStep
        \/ Unwind
        \/ CutShort
        \/ Ended /\ UNCHANGED vars
     /\ UNCHANGED cooldownVars
  \/ \E f \in queued : BeginRequest(f)
  \/ \E f \in running, raises \in BOOLEAN : EndRequest(f, raises)
  \/ \E f \in running : RateLimited(f)
  \/ \E f \in cooling : WakeUp(f)

(* As SenderRoundRobin's, but for a thread that sleeps.                    *)
CooldownFairness ==
  /\ WF_allVars(MainStep /\ UNCHANGED cooldownVars)
  /\ \A f \in Future : WF_allVars(BeginRequest(f))
  /\ \A f \in Future : WF_allVars(\E raises \in BOOLEAN : EndRequest(f, raises))

CooldownSpec == CooldownInit /\ [][CooldownNext]_allVars
FairCooldownSpec == CooldownSpec /\ CooldownFairness

-----------------------------------------------------------------------------
(* Properties *)

(* The limited senders with work in this dispatch. *)
LimitedHere == {s \in limited : items_by_sender[s] # <<>>}

(* A sender's cooldown costs the others one thread and no more: threads    *)
(* that all sleep beside senders waiting for their turn mean that there    *)
(* are as many limited senders as threads.                                 *)
StallNeedsLimits ==
  pc = "wait" /\ ready_senders # <<>> /\ in_flight \subseteq cooling =>
    Cardinality(LimitedHere) >= max_workers

(* While fewer senders are limited than there are threads, every other     *)
(* sender gets all its results though a cooldown never ends, unless an     *)
(* exception or an interrupt ends the dispatch.                            *)
OthersFinish ==
  \A s \in Senders :
    /\ pc # "idle"
    /\ s \notin limited
    /\ Cardinality(LimitedHere) < max_workers
    ~> \/ results[s] = items_by_sender[s]
       \/ pc \in {"shutdown", "raised", "abandoned"}
===============================================================================
