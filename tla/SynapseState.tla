----------------------------- MODULE SynapseState -----------------------------
(***************************************************************************)
(* What the redactor's queries see of Synapse's database while one run     *)
(* lasts, and how the homeserver and its users may change it (external).   *)
(* The run's cutoff is fixed, so the events old enough for it are known    *)
(* from the start; an old event may still arrive late. SynapseTables is    *)
(* shown to implement this; RedactionSweep runs beside it.                 *)
(***************************************************************************)
CONSTANTS
  Events,            \* the events older than the cutoff
  Senders, Rooms,
  SenderOf, RoomOf   \* attributes of an event that never change

VARIABLES
  candidates,   \* events that match _base_candidate_query
  arriving,     \* events that may yet become candidates
  profile,      \* "remote" (no row in users), "active" or "deactivated"
  tokens,       \* senders with a valid access token
  joined        \* <<sender, room>> with membership join

vars == <<candidates, arriving, profile, tokens, joined>>

Memberships == {<<SenderOf[e], RoomOf[e]>> : e \in Events}

(* Also initially: no assumption on what the database holds. *)
Init ==
  /\ candidates \subseteq Events
  /\ arriving \subseteq Events \ candidates
  /\ profile \in [Senders -> {"remote", "active", "deactivated"}]
  /\ tokens \subseteq Senders
  /\ joined \subseteq Memberships

-----------------------------------------------------------------------------
(* Someone redacts an event, or the homeserver rejects it; both may come   *)
(* before the event would have been a candidate.                           *)
Redact(e) ==
  /\ e \in candidates \cup arriving
  /\ candidates' = candidates \ {e}
  /\ arriving' = arriving \ {e}
  /\ UNCHANGED <<profile, tokens, joined>>

(* An event with an old timestamp arrives, or is no outlier any more.      *)
Arrive(e) ==
  /\ e \in arriving
  /\ candidates' = candidates \cup {e}
  /\ arriving' = arriving \ {e}
  /\ UNCHANGED <<profile, tokens, joined>>

(* An admin deactivates a user, which logs out all devices.                *)
Deactivate(s) ==
  /\ profile[s] = "active"
  /\ profile' = [profile EXCEPT ![s] = "deactivated"]
  /\ tokens' = tokens \ {s}
  /\ UNCHANGED <<candidates, arriving, joined>>

(* A first login, or the end of the last valid token.                      *)
ChangeToken(s) ==
  /\ profile[s] = "active"
  /\ tokens' = IF s \in tokens THEN tokens \ {s} ELSE tokens \cup {s}
  /\ UNCHANGED <<candidates, arriving, profile, joined>>

(* A user joins, leaves, or is kicked or banned from a room.               *)
ChangeMembership(m) ==
  /\ joined' = IF m \in joined THEN joined \ {m} ELSE joined \cup {m}
  /\ UNCHANGED <<candidates, arriving, profile, tokens>>

Next ==
  \/ \E e \in Events : Redact(e) \/ Arrive(e)
  \/ \E s \in Senders : Deactivate(s) \/ ChangeToken(s)
  \/ \E m \in Memberships : ChangeMembership(m)

Spec == Init /\ [][Next]_vars
===============================================================================
