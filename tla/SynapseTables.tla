----------------------------- MODULE SynapseTables ----------------------------
(***************************************************************************)
(* Synapse's tables, as db/synapse_schema.py declares them, and the        *)
(* queries of SynapseEventRepository and checks of SenderScopeVerifier     *)
(* over them. A table is a set of rows, an absent value is Null. The       *)
(* homeserver writes the tables (external), one action per transaction;    *)
(* how often a table mentions the same thing is its choice: an event can   *)
(* be redacted twice, or before it arrives, a token is seen from several   *)
(* addresses, each change of a membership leaves a row behind.             *)
(***************************************************************************)
EXTENDS Naturals, FiniteSets, FiniteSetsExt, Sequences, Functions

CONSTANTS
  EventRows,        \* rows of events the homeserver may come to hold
  Persisted,        \* those it holds at first
  LocalUsers, Senders, Addresses,
  Rooms,            \* the rooms local users join and leave
  Cutoff, Now,      \* cutoff_ms and current_time_ms of the run
  EVENT_TYPE_ALLOWLIST, ROOM_ID_EXCLUDELIST,
  Null,             \* SQL's NULL
  MaxWrites         \* bound on the homeserver's transactions

ASSUME UsersAssumption == LocalUsers \subseteq Senders
ASSUME EventRowsAssumption ==
  /\ Persisted \subseteq EventRows /\ IsFiniteSet(EventRows)
  /\ \A e \in EventRows :
       /\ e = [event_id |-> e.event_id, type |-> e.type, room_id |-> e.room_id,
               sender |-> e.sender, origin_server_ts |-> e.origin_server_ts,
               outlier |-> e.outlier, state_key |-> e.state_key,
               rejection_reason |-> e.rejection_reason]
       /\ e.sender \in Senders /\ e.outlier \in BOOLEAN
  /\ \A d, e \in EventRows : d.event_id = e.event_id => d = e

ASSUME BoundAssumption == MaxWrites \in Nat /\ Now \in Nat /\ Now > MaxWrites

(* NULL is no value of a column, no failure reason and no row. *)
ASSUME NullAssumption ==
  /\ Null \notin {"remote_user_unsupported", "local_user_deactivated",
                  "no_valid_access_token", "auth_error"}
  /\ Null \notin Nat /\ Null \notin LocalUsers
  /\ Null \notin [event_id : {"redaction"} \X Nat,
                   redacts : {e.event_id : e \in EventRows}]
  /\ Null \notin [user_id : LocalUsers, access_token : Nat, last_seen : Nat]

VARIABLES
  events, redactions, users, access_tokens, user_ips,
  current_state_events, room_memberships,
  writes,        \* transactions so far; also the source of new ids and times
  (* history: what the homeserver did, apart from the tables *)
  redacted,      \* event_ids somebody has redacted
  membership,    \* membership of each user in each room
  last_use       \* when each token was last used

tables == <<events, redactions, users, access_tokens, user_ips,
            current_state_events, room_memberships>>
history == <<redacted, membership, last_use>>
vars == <<tables, writes, history>>

TokenIds == 1..(MaxWrites + 2)

(* Every local user has an account and is in every room by a state event   *)
(* with an id of its own; one, any, has two tokens from before.            *)
MemberEvent(u, r) == <<u, r, 0>>

Init ==
  /\ events = Persisted /\ redactions = {}
  /\ users = {[name |-> u, deactivated |-> FALSE] : u \in LocalUsers}
  /\ \E u \in LocalUsers :
       access_tokens = {[id |-> i, user_id |-> u, valid_until_ms |-> Null,
                         puppets_user_id |-> Null, last_validated |-> Null] : i \in 1..2}
  /\ user_ips = {}
  /\ current_state_events =
       {[room_id |-> r, type |-> "m.room.member", state_key |-> u,
         event_id |-> MemberEvent(u, r)] : u \in LocalUsers, r \in Rooms}
  /\ room_memberships =
       {[event_id |-> MemberEvent(u, r), room_id |-> r, user_id |-> u,
         membership |-> "join"] : u \in LocalUsers, r \in Rooms}
  /\ writes = 0
  /\ redacted = {}
  /\ membership = [m \in LocalUsers \X Rooms |-> "join"]
  /\ last_use = [t \in TokenIds |-> 0]

-----------------------------------------------------------------------------
(* The queries *)

(* LEFT JOIN: the pairs that match, and each row without a partner.        *)
LeftJoin(left, matches) ==
  matches \cup {<<l, Null>> : l \in left \ {p[1] : p \in matches}}

RedactionOfRedaction(e, r) == r.event_id = e.event_id

(* redactions.redacts = events.event_id *)
RedactionOf(e, r) == r.redacts = e.event_id

(* _base_candidate_query *)
CandidateRows ==
  {p[1] : p \in {p \in LeftJoin(events, {p \in events \X redactions :
                                         RedactionOf(p[1], p[2])}) :
                   /\ p[1].origin_server_ts < Cutoff
                   /\ ~p[1].outlier
                   /\ p[1].rejection_reason = Null
                   /\ p[1].state_key = Null
                   /\ p[1].type \in EVENT_TYPE_ALLOWLIST
                   /\ p[2] = Null
                   /\ p[1].room_id \notin ROOM_ID_EXCLUDELIST}}

(* count_candidates_by_type, _room and _sender: GROUP BY a column. *)
CountsBy(column) ==
  [k \in {e[column] : e \in CandidateRows} |->
     Cardinality({e \in CandidateRows : e[column] = k})]

(* get_sender_profiles; no entry for a name without a row. *)
SenderProfiles(user_ids) ==
  [n \in {u.name : u \in users} \cap user_ids |->
     [deactivated |-> \E u \in users : u.name = n /\ u.deactivated]]

EveryActivity ==
  {[user_id |-> i.user_id, access_token |-> i.access_token,
    last_seen |-> i.last_seen] : i \in user_ips}

(* latest_token_activity: max(last_seen) of a user's token. *)
LatestTokenActivity ==
  {[user_id |-> i.user_id, access_token |-> i.access_token,
    last_seen |-> Max({j.last_seen : j \in {j \in user_ips :
                        j.user_id = i.user_id /\ j.access_token = i.access_token}})]
     : i \in user_ips}

ActivityOf(t, i) == i.user_id = t.user_id /\ i.access_token = t.id

(* A token is identified by its id here, and is never the empty string.    *)
UsableTokenRows(user) ==
  {p \in LeftJoin(access_tokens, {p \in access_tokens \X LatestTokenActivity :
                                    ActivityOf(p[1], p[2])}) :
     /\ p[1].user_id = user
     /\ p[1].puppets_user_id = Null
     /\ p[1].valid_until_ms = Null \/ p[1].valid_until_ms > Now}

(* DESC NULLS LAST, as a comparison: 0 stands below every time. *)
OrZero(value) == IF value = Null THEN 0 ELSE value
LastSeen(p) == IF p[2] = Null THEN 0 ELSE p[2].last_seen

Preferred(p, q) ==
  \/ LastSeen(p) > LastSeen(q)
  \/ LastSeen(p) = LastSeen(q) /\
     \/ OrZero(p[1].last_validated) > OrZero(q[1].last_validated)
     \/ OrZero(p[1].last_validated) = OrZero(q[1].last_validated) /\ p[1].id > q[1].id

(* get_sender_tokens: the tokens of a user in the order they are tried.    *)
SenderTokens(user) ==
  LET rows == UsableTokenRows(user)
      Rank(p) == Cardinality({q \in rows : Preferred(q, p)}) + 1
  IN  [i \in 1..Cardinality(rows) |-> (CHOOSE p \in rows : Rank(p) = i)[1].id]

OfUserAndRoom(c, m) == m.user_id = c.state_key /\ m.room_id = c.room_id

(* room_memberships.event_id = current_state_events.event_id *)
MembershipOf(c, m) == m.event_id = c.event_id

(* get_joined_room_memberships *)
JoinedRoomMemberships(pairs) ==
  {<<c.state_key, c.room_id>> :
     c \in {c \in current_state_events :
              /\ c.type = "m.room.member"
              /\ \E m \in room_memberships :
                   MembershipOf(c, m) /\ m.membership = "join"}} \cap pairs

-----------------------------------------------------------------------------
(* SenderScopeVerifier *)

(* verify_senders *)
FailureReason(sender) ==
  LET profiles == SenderProfiles({sender})
  IN  CASE sender \notin DOMAIN profiles -> "remote_user_unsupported"
        [] sender \in DOMAIN profiles /\ profiles[sender].deactivated ->
             "local_user_deactivated"
        [] OTHER -> IF SenderTokens(sender) = <<>> THEN "no_valid_access_token" ELSE Null

CanRedact(sender) == FailureReason(sender) = Null

(* find_room_membership_failures *)
RoomMembershipFailures(candidates) ==
  LET joinedPairs == JoinedRoomMemberships({<<e.sender, e.room_id>> : e \in candidates})
  IN  {e \in candidates : <<e.sender, e.room_id>> \notin joinedPairs}

-----------------------------------------------------------------------------
(* The homeserver (external) *)

(* An event the rules of selection name whatever becomes of it.            *)
OldEnough(e) ==
  /\ e.origin_server_ts < Cutoff /\ e.state_key = Null
  /\ e.type \in EVENT_TYPE_ALLOWLIST /\ e.room_id \notin ROOM_ID_EXCLUDELIST

Time == writes + 1
Write == writes < MaxWrites /\ writes' = writes + 1

(* An event is stored, whole or as an outlier, accepted or rejected. *)
PersistEvent(e) ==
  /\ \A d \in events : d.event_id # e.event_id
  /\ \E outlier \in BOOLEAN, reason \in {Null, "auth_error"} :
       events' = events \cup {[e EXCEPT !.outlier = outlier, !.rejection_reason = reason]}
  /\ UNCHANGED <<redactions, users, access_tokens, user_ips, current_state_events,
                 room_memberships, history>>

DeOutlier(e) ==
  /\ e \in events /\ e.outlier
  /\ events' = (events \ {e}) \cup {[e EXCEPT !.outlier = FALSE]}
  /\ UNCHANGED <<redactions, users, access_tokens, user_ips, current_state_events,
                 room_memberships, history>>

(* A redaction by anybody; of events no query returns it would show nothing. *)
Redact(e) ==
  /\ OldEnough(e)
  /\ redactions' = redactions \cup {[event_id |-> <<"redaction", writes>>,
                                     redacts |-> e.event_id]}
  /\ redacted' = redacted \cup {e.event_id}
  /\ UNCHANGED <<events, users, access_tokens, user_ips, current_state_events,
                 room_memberships, membership, last_use>>

SetMembership(u, r, value) ==
  LET id == <<u, r, writes + 1>>
  IN  /\ membership[<<u, r>>] # value
      /\ membership' = [membership EXCEPT ![<<u, r>>] = value]
      /\ room_memberships' = room_memberships \cup
           {[event_id |-> id, room_id |-> r, user_id |-> u, membership |-> value]}
      /\ current_state_events' =
           {c \in current_state_events : c.state_key # u \/ c.room_id # r} \cup
           {[room_id |-> r, type |-> "m.room.member", state_key |-> u, event_id |-> id]}
      /\ UNCHANGED <<events, redactions, users, access_tokens, user_ips, redacted,
                     last_use>>

Active(u) == \E row \in users : row.name = u /\ ~row.deactivated

(* A login; an admin's may be on behalf of another user. *)
Login(u) ==
  /\ Active(u)
  /\ \E until \in {Null, Now, Now + 1}, puppet \in (LocalUsers \ {u}) \cup {Null},
        validated \in {Null, Time} :
       /\ puppet # Null => until = Null /\ validated = Null
       /\ access_tokens' = access_tokens \cup
            {[id |-> writes + 3, user_id |-> u, valid_until_ms |-> until,
              puppets_user_id |-> puppet, last_validated |-> validated]}
  /\ UNCHANGED <<events, redactions, users, user_ips, current_state_events,
                 room_memberships, history>>

(* A request with the token from some address. *)
UseToken(t, ip) ==
  /\ t \in access_tokens
  /\ last_use' = [last_use EXCEPT ![t.id] = Time]
  /\ user_ips' = {i \in user_ips : i.access_token # t.id \/ i.ip # ip} \cup
       {[user_id |-> t.user_id, access_token |-> t.id, ip |-> ip, last_seen |-> Time]}
  /\ UNCHANGED <<events, redactions, users, access_tokens, current_state_events,
                 room_memberships, redacted, membership>>

Logout(t) ==
  /\ access_tokens' = access_tokens \ {t}
  /\ UNCHANGED <<events, redactions, users, user_ips, current_state_events,
                 room_memberships, history>>

(* Deactivation deletes the user's tokens and leaves the memberships to be *)
(* parted later.                                                           *)
Deactivate(u) ==
  /\ Active(u)
  /\ users' = {row \in users : row.name # u} \cup {[name |-> u, deactivated |-> TRUE]}
  /\ access_tokens' = {t \in access_tokens : t.user_id # u}
  /\ UNCHANGED <<events, redactions, user_ips, current_state_events, room_memberships,
                 history>>

HomeserverWrite ==
  \/ \E e \in EventRows : PersistEvent(e) \/ Redact(e)
  \/ \E e \in events : DeOutlier(e)
  \/ \E u \in LocalUsers, r \in Rooms, value \in {"join", "leave", "invite"} :
       SetMembership(u, r, value)
  \/ \E u \in LocalUsers : Login(u) \/ Deactivate(u)
  \/ \E t \in access_tokens, ip \in Addresses : UseToken(t, ip)
  \/ \E t \in access_tokens : Logout(t)

Next ==
  \/ Write /\ HomeserverWrite
  \/ writes = MaxWrites /\ UNCHANGED vars

Spec == Init /\ [][Next]_vars

-----------------------------------------------------------------------------
(* Properties *)

Due == {e \in events : OldEnough(e) /\ ~e.outlier /\ e.rejection_reason = Null
                         /\ e.event_id \notin redacted}

Total(counts) == FoldFunction(+, 0, counts)

(* The candidate query returns every due event once: not one somebody has  *)
(* redacted, also twice or before it arrived, and the three counts of the  *)
(* report each add up to the number of candidates.                         *)
CandidatesAreDue ==
  /\ CandidateRows = Due
  /\ \A column \in {"type", "room_id", "sender"} :
       Total(CountsBy(column)) = Cardinality(CandidateRows)

(* Tokens with which the user's own client can act at the run's now. *)
LiveTokens(user) ==
  {t.id : t \in {t \in access_tokens :
     /\ t.user_id = user /\ t.puppets_user_id = Null
     /\ ~(t.valid_until_ms \in 0..Now)}}

(* From however many addresses its tokens were used, a sender's list has   *)
(* each live token once and no other, the most recently used ones first.   *)
TokensByRecency ==
  \A u \in Senders :
    LET order == SenderTokens(u)
    IN  /\ Range(order) = LiveTokens(u)
        /\ IsInjective(order)
        /\ \A i, j \in DOMAIN order : i < j => last_use[order[i]] >= last_use[order[j]]

Joined(u, r) ==
  <<u, r>> \in LocalUsers \X Rooms /\ membership[<<u, r>>] = "join"

(* The scope of the sender and the membership of the room let a candidate  *)
(* through exactly if the sender is an active local user with a live token *)
(* who is in the room now, whatever rows older memberships left behind.    *)
PreflightMatchesRule ==
  \A e \in CandidateRows :
    (CanRedact(e.sender) /\ e \notin RoomMembershipFailures(CandidateRows))
      <=> /\ Active(e.sender) /\ LiveTokens(e.sender) # {}
          /\ Joined(e.sender, e.room_id)

(* Seen through these queries, the homeserver's transactions are the       *)
(* changes RedactionSweep runs beside.                                     *)
OldEvents == {e.event_id : e \in {e \in EventRows : OldEnough(e)}}
RowOf(id) == CHOOSE e \in EventRows : e.event_id = id
Pairs == {<<e.sender, e.room_id>> : e \in {e \in EventRows : OldEnough(e)}}

ProfileOf(s) ==
  LET profiles == SenderProfiles({s})
  IN  IF s \notin DOMAIN profiles THEN "remote"
      ELSE IF profiles[s].deactivated THEN "deactivated" ELSE "active"

(* Old events that are stored as outliers or not at all. *)
Arriving ==
  {id \in OldEvents \ redacted :
     \A e \in events : e.event_id = id => e.outlier /\ e.rejection_reason = Null}

State == INSTANCE SynapseState WITH
  Events <- OldEvents,
  SenderOf <- [id \in OldEvents |-> RowOf(id).sender],
  RoomOf <- [id \in OldEvents |-> RowOf(id).room_id],
  candidates <- {e.event_id : e \in CandidateRows},
  arriving <- Arriving,
  profile <- [s \in Senders |-> ProfileOf(s)],
  tokens <- {s \in Senders : SenderTokens(s) # <<>>},
  joined <- JoinedRoomMemberships(Pairs)

ImplementsState == State!Spec
===============================================================================
