----------------------------- MODULE RepeatedRuns -----------------------------
(***************************************************************************)
(* The runs that the scheduler and operators start over one Synapse        *)
(* database, one after another (RunLifecycle!OneRunAtATime). A run keeps   *)
(* nothing for the next: it selects anew what is old, unredacted and       *)
(* permitted. What it may leave behind is a request that it gave up, or    *)
(* did not live to see answered, and that the homeserver executes later.   *)
(*                                                                         *)
(* A run is RedactionSweep with one snapshot for all its queries, a        *)
(* request with its attempts is MatrixRedaction, a transaction for each of *)
(* the sender's tokens that it takes; requests of a run are outstanding in *)
(* any number and answered in any order.                                   *)
(***************************************************************************)
EXTENDS Naturals, FiniteSets

CONSTANTS
  Events, TsOf,   \* events and their origin_server_ts
  TTL,            \* TTL_HOURS
  MaxTime,        \* bound: the clock stops there
  MaxLost,        \* bound: requests given up without an answer
  MaxRefusals,    \* bound: refused tokens per event
  MaxKills,       \* bound: runs that die
  MaxChanges      \* bound: changes of what is permitted

ASSUME TimesAssumption ==
  TTL \in Nat /\ MaxTime \in Nat /\ TsOf \in [Events -> 0..MaxTime]
ASSUME BoundsAssumption ==
  MaxLost \in Nat /\ MaxRefusals \in Nat /\ MaxKills \in Nat /\ MaxChanges \in Nat

VARIABLES
  now,
  stored,      \* events the homeserver holds
  permitted,   \* events whose sender is in scope and in the room
  redacted,    \* events with a row in redactions
  run,         \* "idle", "planning" or "sending"
  cutoff,      \* cutoff_ms of the run
  queue,       \* eligible candidates not yet requested
  request,     \* the run's request for an event: "none", "sent", "executed"
  stray,       \* requests of an event that nobody waits for any more
  failed,      \* events with a run_failures row of some run
  kills, changes,
  (* history *)
  own,         \* redaction events the application made of an event
  givenUp,     \* requests of an event that ended without its answer
  refusals     \* tokens refused to requests of an event that had a further one

runVars == <<run, cutoff, queue, request>>
vars == <<now, stored, permitted, redacted, runVars, stray, failed, kills, changes,
          own, givenUp, refusals>>

Init ==
  /\ now = 0 /\ stored = {} /\ permitted = Events /\ redacted = {}
  /\ run = "idle" /\ cutoff = 0 /\ queue = {}
  /\ request = [e \in Events |-> "none"]
  /\ stray = [e \in Events |-> 0]
  /\ failed = {} /\ kills = 0 /\ changes = 0
  /\ own = [e \in Events |-> 0] /\ givenUp = [e \in Events |-> 0]
  /\ refusals = [e \in Events |-> 0]

(* The requests given up so far, each with its number. *)
Lost == {p \in Events \X (1..MaxLost) : p[2] <= givenUp[p[1]]}

-----------------------------------------------------------------------------
(* The run *)

CutoffIsNow == now

(* calculate_cutoff_ms; before it the epoch, nothing is old enough.        *)
Cutoff == IF now > TTL THEN now - TTL ELSE 0

StartRun ==
  /\ run = "idle"
  /\ run' = "planning"
  /\ cutoff' = Cutoff
  /\ UNCHANGED <<now, stored, permitted, redacted, queue, request, stray, failed,
                 kills, changes, own, givenUp, refusals>>

Expired == {e \in stored : TsOf[e] < cutoff}
AnyExpired == Expired \cap permitted
NeverFailedBefore == ((Expired \ redacted) \cap permitted) \ failed

(* Every run selects and checks its candidates anew, whatever the journal  *)
(* says of earlier ones.                                                   *)
Selected == (Expired \ redacted) \cap permitted

Plan ==
  /\ run = "planning"
  /\ queue' = Selected
  /\ run' = "sending"
  /\ UNCHANGED <<now, stored, permitted, redacted, cutoff, request, stray, failed,
                 kills, changes, own, givenUp, refusals>>

Send(e) ==
  /\ run = "sending" /\ e \in queue
  /\ queue' = queue \ {e}
  /\ request' = [request EXCEPT ![e] = "sent"]
  /\ UNCHANGED <<now, stored, permitted, redacted, run, cutoff, stray, failed, kills,
                 changes, own, givenUp, refusals>>

(* The answer to a request: a success, or a failure that is journalled,    *)
(* which a gateway may also make of a request that was executed.           *)
Answer(e) ==
  /\ request[e] # "none"
  /\ request' = [request EXCEPT ![e] = "none"]
  /\ \/ request[e] = "executed" /\ UNCHANGED failed
     \/ failed' = failed \cup {e}
  /\ UNCHANGED <<now, stored, permitted, redacted, run, cutoff, queue, stray, kills,
                 changes, own, givenUp, refusals>>

(* Every attempt timed out, or a gateway answered for the homeserver, and  *)
(* one of them may yet be executed.                                        *)
GiveUp(e) ==
  /\ request[e] = "sent"
  /\ Cardinality(Lost) < MaxLost
  /\ request' = [request EXCEPT ![e] = "none"]
  /\ stray' = [stray EXCEPT ![e] = @ + 1]
  /\ givenUp' = [givenUp EXCEPT ![e] = @ + 1]
  /\ failed' = failed \cup {e}
  /\ UNCHANGED <<now, stored, permitted, redacted, run, cutoff, queue, kills, changes,
                 own, refusals>>

(* SenderTokenClient goes on with the sender's next token, in a            *)
(* transaction of its own, when one is refused. Earlier attempts with the  *)
(* refused one may have been executed, or may yet be: they were            *)
(* authenticated before it expired.                                        *)
NextToken(e) ==
  /\ request[e] # "none"
  /\ refusals[e] < MaxRefusals
  /\ refusals' = [refusals EXCEPT ![e] = @ + 1]
  /\ stray' = IF request[e] = "sent" THEN [stray EXCEPT ![e] = @ + 1] ELSE stray
  /\ request' = [request EXCEPT ![e] = "sent"]
  /\ UNCHANGED <<now, stored, permitted, redacted, run, cutoff, queue, failed, kills,
                 changes, own, givenUp>>

Idle == queue = {} /\ \A e \in Events : request[e] = "none"

EndRun ==
  /\ run = "sending" /\ Idle
  /\ run' = "idle"
  /\ UNCHANGED <<now, stored, permitted, redacted, cutoff, queue, request, stray,
                 failed, kills, changes, own, givenUp, refusals>>

(* The process dies: its requests are on their way, and its lock is free.  *)
Kill ==
  LET sent == {e \in Events : request[e] = "sent"}
      Count(counter) == [e \in Events |->
                           IF e \in sent THEN counter[e] + 1 ELSE counter[e]]
  IN  /\ run # "idle"
      /\ kills < MaxKills /\ Cardinality(Lost) + Cardinality(sent) <= MaxLost
      /\ kills' = kills + 1
      /\ run' = "idle" /\ queue' = {}
      /\ request' = [e \in Events |-> "none"]
      /\ stray' = Count(stray) /\ givenUp' = Count(givenUp)
      /\ UNCHANGED <<now, stored, permitted, redacted, cutoff, failed, changes, own,
                     refusals>>

-----------------------------------------------------------------------------
(* The homeserver and its users (external) *)

(* A redaction makes a redaction event each time it is executed; its row   *)
(* is written before it is answered.                                       *)
Redaction(e) ==
  /\ e \in permitted
  /\ redacted' = redacted \cup {e}
  /\ own' = [own EXCEPT ![e] = @ + 1]

Execute(e) ==
  /\ request[e] = "sent"
  /\ Redaction(e)
  /\ request' = [request EXCEPT ![e] = "executed"]
  /\ UNCHANGED <<now, stored, permitted, run, cutoff, queue, stray, failed, kills,
                 changes, givenUp, refusals>>

(* A stray request is executed after all, or is lost or refused.           *)
StrayEnds(e) ==
  /\ stray[e] > 0
  /\ stray' = [stray EXCEPT ![e] = @ - 1]
  /\ Redaction(e) \/ UNCHANGED <<redacted, own>>
  /\ UNCHANGED <<now, stored, permitted, runVars, failed, kills, changes, givenUp,
                 refusals>>

(* An event arrives, at its time or later. *)
Receive(e) ==
  /\ e \notin stored /\ TsOf[e] <= now
  /\ stored' = stored \cup {e}
  /\ UNCHANGED <<now, permitted, redacted, runVars, stray, failed, kills, changes,
                 own, givenUp, refusals>>

(* Its sender leaves or loses the token, or comes back. *)
ChangePermission(e) ==
  /\ changes < MaxChanges
  /\ changes' = changes + 1
  /\ permitted' = IF e \in permitted THEN permitted \ {e} ELSE permitted \cup {e}
  /\ UNCHANGED <<now, stored, redacted, runVars, stray, failed, kills, own, givenUp,
                 refusals>>

(* Somebody else redacts it. *)
Moderate(e) ==
  /\ e \in stored \ redacted
  /\ redacted' = redacted \cup {e}
  /\ UNCHANGED <<now, stored, permitted, runVars, stray, failed, kills, changes, own,
                 givenUp, refusals>>

Tick ==
  /\ now < MaxTime
  /\ now' = now + 1
  /\ UNCHANGED <<stored, permitted, redacted, runVars, stray, failed, kills, changes,
                 own, givenUp, refusals>>

-----------------------------------------------------------------------------
Next ==
  \/ StartRun \/ Plan \/ EndRun \/ Kill \/ Tick
  \/ \E e \in Events :
       \/ Send(e) \/ Answer(e) \/ GiveUp(e) \/ NextToken(e)
       \/ Execute(e) \/ StrayEnds(e)
       \/ Receive(e) \/ ChangePermission(e) \/ Moderate(e)

(* Time passes, cron starts a run whenever none is there, and a run does   *)
(* its work; a request that is sent again and again is executed sometime,  *)
(* where the homeserver permits it.                                        *)
Fairness ==
  /\ WF_vars(Tick) /\ WF_vars(StartRun) /\ WF_vars(Plan) /\ WF_vars(EndRun)
  /\ \A e \in Events : WF_vars(Send(e)) /\ WF_vars(Answer(e) \/ GiveUp(e))
                         /\ SF_vars(Execute(e))

Spec == Init /\ [][Next]_vars
FairSpec == Spec /\ Fairness

-----------------------------------------------------------------------------
(* Properties *)

(* However runs die and their requests linger, the application redacts an  *)
(* event at most once, and once more for each request that it gave up      *)
(* unanswered and each token that was refused to one, and none before its  *)
(* time to live is over.                                                   *)
DuplicatesNeedLossOrRefusal ==
  \A e \in Events :
    /\ own[e] <= 1 + givenUp[e] + refusals[e]
    /\ own[e] > 0 => TsOf[e] + TTL < now

(* A failure, a time-out or a dead run only postpones: an event that the   *)
(* homeserver holds and that stays permitted is redacted by a later run.   *)
EventuallyRedacted ==
  \A e \in Events :
    <>[](e \in stored /\ e \in permitted) /\ TsOf[e] + TTL < MaxTime
      => <>(e \in redacted)
===============================================================================
