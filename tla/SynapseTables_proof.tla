------------------------- MODULE SynapseTables_proof -------------------------
(***************************************************************************)
(* TLAPS proofs about SynapseTables, for any events, users, rooms and      *)
(* number of the homeserver's transactions.                                *)
(***************************************************************************)
EXTENDS SynapseTables, TLAPS, FiniteSetTheorems

-----------------------------------------------------------------------------
(* The inductive invariant: what the rows of the tables have to do with    *)
(* each other and with what the homeserver did.                            *)

(* A row of events, and what an update of one of its flags makes of it. *)
EventRow(e, outlier, reason) ==
  [event_id |-> e.event_id, type |-> e.type, room_id |-> e.room_id,
   sender |-> e.sender, origin_server_ts |-> e.origin_server_ts,
   outlier |-> outlier, state_key |-> e.state_key, rejection_reason |-> reason]

(* A stored event is a known one but for its two flags; ids are keys.      *)
EventsInv ==
  /\ IsFiniteSet(events)
  /\ \A d \in events :
       /\ \E e \in EventRows :
            d = EventRow(e, d.outlier, d.rejection_reason)
       /\ d.outlier \in BOOLEAN
  /\ \A d, e \in events : d.event_id = e.event_id => d = e

RedactionsInv ==
  /\ redactions \subseteq [event_id : {"redaction"} \X Nat,
                           redacts : {e.event_id : e \in EventRows}]
  /\ redacted = {r.redacts : r \in redactions}

(* Every local user has one account. *)
UsersInv ==
  /\ users \subseteq [name : LocalUsers, deactivated : BOOLEAN]
  /\ \A u \in LocalUsers : \E row \in users : row.name = u
  /\ \A p, q \in users : p.name = q.name => p = q

(* Token ids are keys and are given out in turn; a deactivated user has no *)
(* token left.                                                             *)
TokensInv ==
  /\ IsFiniteSet(access_tokens)
  /\ access_tokens \subseteq
       [id : 1..(writes + 2), user_id : LocalUsers, valid_until_ms : {Null, Now, Now + 1},
        puppets_user_id : LocalUsers \cup {Null}, last_validated : Nat \cup {Null}]
  /\ \A s, t \in access_tokens : s.id = t.id => s = t
  /\ \A t \in access_tokens : Active(t.user_id)

(* The rows of a token are its owner's, and the latest says when the token *)
(* was last used.                                                          *)
ActivityInv ==
  /\ user_ips \subseteq [user_id : LocalUsers, access_token : 1..(writes + 2),
                         ip : Addresses, last_seen : 1..writes]
  /\ last_use \in [TokenIds -> 0..writes]
  /\ \A n \in TokenIds : n > writes + 2 => last_use[n] = 0
  /\ \A t \in access_tokens : \A i \in user_ips :
       i.access_token = t.id => i.user_id = t.user_id /\ i.last_seen <= last_use[t.id]
  /\ \A t \in access_tokens : last_use[t.id] # 0 =>
       \E i \in user_ips : i.access_token = t.id /\ i.last_seen = last_use[t.id]

(* Each user has one current membership event per room, and of the rows of *)
(* room_memberships only its own says what the membership is now.          *)
MembershipInv ==
  /\ membership \in [LocalUsers \X Rooms -> {"join", "leave", "invite"}]
  /\ \A m \in room_memberships :
       \E u \in LocalUsers, r \in Rooms, n \in 0..writes : m.event_id = <<u, r, n>>
  /\ \A m, n \in room_memberships : m.event_id = n.event_id => m = n
  /\ \A c \in current_state_events :
       /\ c.type = "m.room.member" /\ c.state_key \in LocalUsers /\ c.room_id \in Rooms
       /\ \E m \in room_memberships :
            /\ m.event_id = c.event_id
            /\ m.membership = membership[<<c.state_key, c.room_id>>]
  /\ \A u \in LocalUsers, r \in Rooms :
       \E c \in current_state_events : c.state_key = u /\ c.room_id = r

IInv ==
  /\ writes \in 0..MaxWrites
  /\ EventsInv /\ RedactionsInv /\ UsersInv /\ TokensInv /\ ActivityInv /\ MembershipInv

-----------------------------------------------------------------------------
LEMMA TimesAreNaturals ==
  /\ MaxWrites \in Nat /\ Now \in Nat /\ Now > MaxWrites
  /\ TokenIds = 1..(MaxWrites + 2)
BY BoundAssumption DEF TokenIds

LEMMA InitEstablishes == Init => IInv
<1> SUFFICES ASSUME Init PROVE IInv
  OBVIOUS
<1>1. writes \in 0..MaxWrites
  BY TimesAreNaturals DEF Init
<1>2. EventsInv
  BY EventRowsAssumption, FS_Subset DEF Init, EventsInv, EventRow
<1>3. RedactionsInv
  BY DEF Init, RedactionsInv
<1>4. UsersInv /\ \A u \in LocalUsers : Active(u)
  <2>1. \A u \in LocalUsers : [name |-> u, deactivated |-> FALSE] \in users
    BY DEF Init
  <2>2. \A row \in users : \E u \in LocalUsers : row = [name |-> u, deactivated |-> FALSE]
    BY DEF Init
  <2>3. \A u \in LocalUsers : \E row \in users : row.name = u /\ ~row.deactivated
    BY <2>1
  <2>4. \A p, q \in users : p.name = q.name => p = q
    <3> TAKE p, q \in users
    <3>1. PICK u \in LocalUsers : p = [name |-> u, deactivated |-> FALSE]
      BY <2>2
    <3>2. PICK v \in LocalUsers : q = [name |-> v, deactivated |-> FALSE]
      BY <2>2
    <3>3. p.name = u /\ q.name = v
      BY <3>1, <3>2
    <3> QED
      BY <3>1, <3>2, <3>3, Zenon
  <2>5. users \subseteq [name : LocalUsers, deactivated : BOOLEAN]
    <3>1. ASSUME NEW u \in LocalUsers
          PROVE  [name |-> u, deactivated |-> FALSE] \in [name : LocalUsers, deactivated : BOOLEAN]
      OBVIOUS
    <3> QED
      BY <2>2, <3>1, Zenon
  <2> QED
    BY <2>3, <2>4, <2>5 DEF UsersInv, Active
<1>5. TokensInv
  <2>1. PICK u \in LocalUsers :
          access_tokens = {[id |-> i, user_id |-> u, valid_until_ms |-> Null,
                            puppets_user_id |-> Null, last_validated |-> Null] : i \in 1..2}
    BY DEF Init
  <2>2. IsFiniteSet(access_tokens)
    <3>1. access_tokens =
            {[id |-> 1, user_id |-> u, valid_until_ms |-> Null,
              puppets_user_id |-> Null, last_validated |-> Null]} \cup
            {[id |-> 2, user_id |-> u, valid_until_ms |-> Null,
              puppets_user_id |-> Null, last_validated |-> Null]}
      BY <2>1
    <3> QED
      BY <3>1, FS_Singleton, FS_Union
  <2> QED
    BY <1>4, <2>1, <2>2 DEF Init, TokensInv
<1>6. ActivityInv
  BY <1>5, TimesAreNaturals DEF Init, ActivityInv, TokensInv
<1>7. MembershipInv
  <2> DEFINE Row(u, r) == [event_id |-> <<u, r, 0>>, room_id |-> r, user_id |-> u,
                           membership |-> "join"]
  <2>1. \A m \in room_memberships : \E u \in LocalUsers, r \in Rooms : m = Row(u, r)
    BY DEF Init, MemberEvent
  <2>2. \A u \in LocalUsers, r \in Rooms : Row(u, r) \in room_memberships
    BY DEF Init, MemberEvent
  <2>3. \A c \in current_state_events : \E u \in LocalUsers, r \in Rooms :
          c = [room_id |-> r, type |-> "m.room.member", state_key |-> u,
               event_id |-> <<u, r, 0>>]
    BY DEF Init, MemberEvent
  <2>4. \A u \in LocalUsers, r \in Rooms :
          [room_id |-> r, type |-> "m.room.member", state_key |-> u,
           event_id |-> <<u, r, 0>>] \in current_state_events
    BY DEF Init, MemberEvent
  <2>5. membership \in [LocalUsers \X Rooms -> {"join", "leave", "invite"}]
    BY DEF Init
  <2>6. \A m \in room_memberships :
          \E u \in LocalUsers, r \in Rooms, n \in 0..writes : m.event_id = <<u, r, n>>
    BY <1>1, <2>1, TimesAreNaturals
  <2>7. \A m, n \in room_memberships : m.event_id = n.event_id => m = n
    BY <2>1
  <2>8. ASSUME NEW c \in current_state_events
        PROVE  /\ c.type = "m.room.member" /\ c.state_key \in LocalUsers
               /\ c.room_id \in Rooms
               /\ \E m \in room_memberships :
                    /\ m.event_id = c.event_id
                    /\ m.membership = membership[<<c.state_key, c.room_id>>]
    <3>1. PICK u \in LocalUsers, r \in Rooms :
            c = [room_id |-> r, type |-> "m.room.member", state_key |-> u,
                 event_id |-> <<u, r, 0>>]
      BY <2>3
    <3>2. membership[<<u, r>>] = "join"
      BY DEF Init
    <3> QED
      BY <2>2, <3>1, <3>2
  <2>9. \A u \in LocalUsers, r \in Rooms :
          \E c \in current_state_events : c.state_key = u /\ c.room_id = r
    BY <2>4
  <2> QED
    BY <2>5, <2>6, <2>7, <2>8, <2>9 DEF MembershipInv
<1> QED
  BY <1>1, <1>2, <1>3, <1>4, <1>5, <1>6, <1>7 DEF IInv

-----------------------------------------------------------------------------
(* What a transaction does not write keeps its part of the invariant. *)

LEMMA EventsKept == EventsInv /\ UNCHANGED events => EventsInv'
BY DEF EventsInv

LEMMA RedactionsKept ==
  RedactionsInv /\ UNCHANGED <<redactions, redacted>> => RedactionsInv'
BY DEF RedactionsInv

LEMMA UsersKept == UsersInv /\ UNCHANGED users => UsersInv'
BY DEF UsersInv

LEMMA TokensKept ==
  ASSUME writes \in Nat, writes' = writes + 1, TokensInv,
         UNCHANGED <<access_tokens, users>>
  PROVE  TokensInv'
BY DEF TokensInv, Active

LEMMA ActivityKept ==
  ASSUME writes \in Nat, writes' = writes + 1, ActivityInv,
         UNCHANGED <<access_tokens, user_ips, last_use>>
  PROVE  ActivityInv'
<1>1. 1..(writes + 2) \subseteq 1..(writes' + 2) /\ 1..writes \subseteq 1..writes'
      /\ 0..writes \subseteq 0..writes'
  OBVIOUS
<1>2. /\ user_ips' \subseteq [user_id : LocalUsers, access_token : 1..(writes' + 2),
                              ip : Addresses, last_seen : 1..writes']
      /\ last_use' \in [TokenIds -> 0..writes']
  BY <1>1 DEF ActivityInv
<1>3. \A n \in TokenIds : n > writes' + 2 => last_use'[n] = 0
  BY TimesAreNaturals DEF ActivityInv
<1> QED
  BY <1>2, <1>3 DEF ActivityInv

LEMMA MembershipKept ==
  ASSUME writes \in Nat, writes' = writes + 1, MembershipInv,
         UNCHANGED <<current_state_events, room_memberships, membership>>
  PROVE  MembershipInv'
<1>1. 0..writes \subseteq 0..writes'
  OBVIOUS
<1>2. \A m \in room_memberships :
        \E u \in LocalUsers, r \in Rooms, n \in 0..writes' : m.event_id = <<u, r, n>>
  BY <1>1 DEF MembershipInv
<1> QED
  BY <1>2 DEF MembershipInv

(* A transaction of the homeserver happens in a state of the model. *)
Writing == IInv /\ Write /\ writes \in Nat /\ writes' \in 0..MaxWrites

LEMMA WriteIsBounded == IInv /\ Write => Writing
BY TimesAreNaturals DEF IInv, Write, Writing

-----------------------------------------------------------------------------
(* Events and redactions *)

LEMMA EventRowColumns ==
  ASSUME NEW d, NEW e, NEW o, NEW r, d = EventRow(e, o, r)
  PROVE  /\ d.event_id = e.event_id /\ d.type = e.type /\ d.room_id = e.room_id
         /\ d.sender = e.sender /\ d.origin_server_ts = e.origin_server_ts
         /\ d.state_key = e.state_key /\ d.outlier = o /\ d.rejection_reason = r
BY DEF EventRow

LEMMA EventRowUpdate ==
  ASSUME NEW d, NEW e, NEW f, NEW o, NEW r, f = EventRow(e, o, r), NEW p,
         d = [f EXCEPT !.outlier = p]
  PROVE  d = EventRow(e, p, r)
BY DEF EventRow

LEMMA EventRowUpdates ==
  ASSUME NEW d, NEW e, NEW f, NEW o, NEW r, f = EventRow(e, o, r), NEW p, NEW s,
         d = [f EXCEPT !.outlier = p, !.rejection_reason = s]
  PROVE  d = EventRow(e, p, s)
<1>1. [f EXCEPT !.outlier = p] = EventRow(e, p, r)
  BY DEF EventRow
<1>2. [EventRow(e, p, r) EXCEPT !.rejection_reason = s] = EventRow(e, p, s)
  BY DEF EventRow
<1>3. \A x : [x EXCEPT !.outlier = p, !.rejection_reason = s]
               = [[x EXCEPT !.outlier = p] EXCEPT !.rejection_reason = s]
  OBVIOUS
<1> QED
  BY <1>1, <1>2, <1>3

LEMMA PersistEventPreserves ==
  ASSUME Writing, NEW e \in EventRows, PersistEvent(e)
  PROVE  IInv'
<1> USE DEF Writing
<1> PICK outlier \in BOOLEAN, reason \in {Null, "auth_error"} :
      events' = events \cup {[e EXCEPT !.outlier = outlier, !.rejection_reason = reason]}
  BY DEF PersistEvent
<1>1. PICK d : /\ d = [e EXCEPT !.outlier = outlier, !.rejection_reason = reason]
               /\ events' = events \cup {d}
  OBVIOUS
<1>2. d = EventRow(e, outlier, reason)
  <2>1. e = EventRow(e, e.outlier, e.rejection_reason)
    BY EventRowsAssumption, Zenon DEF EventRow
  <2> QED
    BY <1>1, <2>1, EventRowUpdates
<1>3. d.event_id = e.event_id /\ d.outlier = outlier /\ d.rejection_reason = reason
  BY <1>2, EventRowColumns
<1>4. EventsInv'
  <2>1. IsFiniteSet(events')
    BY <1>1, FS_AddElement DEF IInv, EventsInv
  <2>2. \A c \in events : c.event_id # d.event_id
    BY <1>3 DEF PersistEvent
  <2>3. d.outlier \in BOOLEAN /\ d = EventRow(e, d.outlier, d.rejection_reason)
    BY <1>2, <1>3
  <2> QED
    BY <1>1, <2>1, <2>2, <2>3 DEF IInv, EventsInv
<1> QED
  BY <1>4, RedactionsKept, UsersKept, TokensKept, ActivityKept, MembershipKept
     DEF PersistEvent, IInv, Write, history

LEMMA DeOutlierPreserves ==
  ASSUME Writing, NEW e \in events, DeOutlier(e)
  PROVE  IInv'
<1> USE DEF Writing
<1>1. PICK f \in EventRows : e = EventRow(f, e.outlier, e.rejection_reason)
  BY DEF IInv, EventsInv
<1> PICK no \in BOOLEAN : events' = (events \ {e}) \cup {[e EXCEPT !.outlier = no]}
  BY Zenon DEF DeOutlier
<1>2. PICK d : d = [e EXCEPT !.outlier = no] /\ events' = (events \ {e}) \cup {d}
  OBVIOUS
<1>3. d = EventRow(f, no, e.rejection_reason)
  BY <1>1, <1>2, EventRowUpdate
<1>4. /\ e.event_id = f.event_id
      /\ d.event_id = f.event_id /\ d.outlier = no
      /\ d.rejection_reason = e.rejection_reason
  BY <1>1, <1>3, EventRowColumns
<1>5. EventsInv'
  <2>1. IsFiniteSet(events \ {e}) /\ IsFiniteSet((events \ {e}) \cup {d})
    BY FS_RemoveElement, FS_AddElement DEF IInv, EventsInv
  <2>2. \A c \in events \ {e} : c.event_id # d.event_id
    BY <1>4 DEF IInv, EventsInv
  <2>3. d.outlier \in BOOLEAN /\ d = EventRow(f, d.outlier, d.rejection_reason)
    BY <1>3, <1>4
  <2> QED
    BY <1>2, <2>1, <2>2, <2>3 DEF IInv, EventsInv
<1> QED
  BY <1>5, RedactionsKept, UsersKept, TokensKept, ActivityKept, MembershipKept
     DEF DeOutlier, IInv, Write, history

LEMMA RedactPreserves ==
  ASSUME Writing, NEW e \in EventRows, Redact(e)
  PROVE  IInv'
<1> USE DEF Writing
<1>1. RedactionsInv'
  <2> DEFINE r == [event_id |-> <<"redaction", writes>>, redacts |-> e.event_id]
  <2>1. r \in [event_id : {"redaction"} \X Nat, redacts : {d.event_id : d \in EventRows}]
    OBVIOUS
  <2>2. redactions' = redactions \cup {r} /\ redacted' = redacted \cup {r.redacts}
    BY DEF Redact
  <2> HIDE DEF r
  <2> QED
    BY <2>1, <2>2 DEF IInv, RedactionsInv
<1> QED
  BY <1>1, EventsKept, UsersKept, TokensKept, ActivityKept, MembershipKept
     DEF Redact, IInv, Write

-----------------------------------------------------------------------------
(* Users, tokens and memberships *)

LEMMA SetMembershipPreserves ==
  ASSUME Writing, NEW u \in LocalUsers, NEW r \in Rooms,
         NEW value \in {"join", "leave", "invite"}, SetMembership(u, r, value)
  PROVE  IInv'
<1> USE DEF Writing
<1> DEFINE id == <<u, r, writes + 1>>
           new == [event_id |-> id, room_id |-> r, user_id |-> u, membership |-> value]
           now == [room_id |-> r, type |-> "m.room.member", state_key |-> u, event_id |-> id]
<1>1. /\ membership' = [membership EXCEPT ![<<u, r>>] = value]
      /\ room_memberships' = room_memberships \cup {new}
      /\ current_state_events' =
           {c \in current_state_events : c.state_key # u \/ c.room_id # r} \cup {now}
  BY DEF SetMembership
<1>2. /\ new.event_id = id /\ new.membership = value
      /\ now.event_id = id /\ now.type = "m.room.member"
      /\ now.state_key = u /\ now.room_id = r
  OBVIOUS
<1> HIDE DEF new, now
<1>3. writes' = writes + 1 /\ MembershipInv
  BY DEF IInv, Write
<1>4. membership' \in [LocalUsers \X Rooms -> {"join", "leave", "invite"}]
  BY <1>1, <1>3 DEF MembershipInv
<1>5. membership'[<<u, r>>] = value
      /\ \A v \in LocalUsers, q \in Rooms :
           v # u \/ q # r => membership'[<<v, q>>] = membership[<<v, q>>]
  BY <1>1, <1>3 DEF MembershipInv
<1>6. \A m \in room_memberships' :
        \E v \in LocalUsers, q \in Rooms, n \in 0..writes' : m.event_id = <<v, q, n>>
  <2>1. ASSUME NEW m \in room_memberships
        PROVE  \E v \in LocalUsers, q \in Rooms, n \in 0..writes' : m.event_id = <<v, q, n>>
    <3>1. PICK v \in LocalUsers, q \in Rooms, n \in 0..writes : m.event_id = <<v, q, n>>
      BY <1>3 DEF MembershipInv
    <3>2. n \in 0..writes'
      BY <1>3
    <3> QED
      BY <3>1, <3>2
  <2>2. id = <<u, r, writes'>> /\ writes' \in 0..writes'
    BY <1>3
  <2> QED
    BY <1>1, <1>2, <2>1, <2>2
<1>7. \A m \in room_memberships : m.event_id # id
  <2> SUFFICES ASSUME NEW m \in room_memberships, m.event_id = id PROVE FALSE
    OBVIOUS
  <2>1. PICK v \in LocalUsers, q \in Rooms, n \in 0..writes : m.event_id = <<v, q, n>>
    BY <1>3 DEF MembershipInv
  <2>2. n = writes + 1
    BY <2>1
  <2> QED
    BY <2>2
<1>8. \A m, n \in room_memberships' : m.event_id = n.event_id => m = n
  BY <1>1, <1>2, <1>3, <1>7 DEF MembershipInv
<1>9. ASSUME NEW c \in current_state_events'
      PROVE  /\ c.type = "m.room.member" /\ c.state_key \in LocalUsers
             /\ c.room_id \in Rooms
             /\ \E m \in room_memberships' :
                  /\ m.event_id = c.event_id
                  /\ m.membership = membership'[<<c.state_key, c.room_id>>]
  <2>1. CASE c = now
    BY <1>1, <1>2, <1>5, <2>1
  <2>2. CASE c # now
    <3>1. c \in current_state_events /\ (c.state_key # u \/ c.room_id # r)
      BY <1>1, <2>2
    <3>2. /\ c.type = "m.room.member" /\ c.state_key \in LocalUsers
          /\ c.room_id \in Rooms
      BY <1>3, <3>1 DEF MembershipInv
    <3>3. PICK m \in room_memberships :
             /\ m.event_id = c.event_id
             /\ m.membership = membership[<<c.state_key, c.room_id>>]
      BY <1>3, <3>1 DEF MembershipInv
    <3>4. membership'[<<c.state_key, c.room_id>>] = membership[<<c.state_key, c.room_id>>]
      BY <1>5, <3>1, <3>2
    <3> QED
      BY <1>1, <3>2, <3>3, <3>4
  <2> QED
    BY <2>1, <2>2
<1>10. ASSUME NEW v \in LocalUsers, NEW q \in Rooms
       PROVE  \E c \in current_state_events' : c.state_key = v /\ c.room_id = q
  <2>1. PICK c \in current_state_events : c.state_key = v /\ c.room_id = q
    BY <1>3 DEF MembershipInv
  <2> QED
    BY <1>1, <1>2, <2>1
<1>11. MembershipInv'
  BY <1>4, <1>6, <1>8, <1>9, <1>10 DEF MembershipInv
<1> QED
  BY <1>11, EventsKept, RedactionsKept, UsersKept, TokensKept, ActivityKept
     DEF SetMembership, IInv, Write

LEMMA LoginPreserves ==
  ASSUME Writing, NEW u \in LocalUsers, Login(u)
  PROVE  IInv'
<1> USE DEF Writing
<1>1. PICK until \in {Null, Now, Now + 1}, puppet \in (LocalUsers \ {u}) \cup {Null},
           validated \in {Null, Time} :
        access_tokens' = access_tokens \cup
          {[id |-> writes + 3, user_id |-> u, valid_until_ms |-> until,
            puppets_user_id |-> puppet, last_validated |-> validated]}
  BY DEF Login
<1> DEFINE t == [id |-> writes + 3, user_id |-> u, valid_until_ms |-> until,
                 puppets_user_id |-> puppet, last_validated |-> validated]
<1>2. writes' = writes + 1 /\ TokensInv /\ ActivityInv /\ Active(u) /\ UNCHANGED users
  BY DEF IInv, Write, Login
<1>3. /\ t \in [id : 1..(writes' + 2), user_id : LocalUsers,
                valid_until_ms : {Null, Now, Now + 1},
                puppets_user_id : LocalUsers \cup {Null}, last_validated : Nat \cup {Null}]
      /\ t.id = writes + 3 /\ t.user_id = u
      /\ access_tokens' = access_tokens \cup {t}
  BY <1>1, <1>2 DEF Time
<1> HIDE DEF t
<1>4. TokensInv'
  <2>1. IsFiniteSet(access_tokens')
    BY <1>2, <1>3, FS_AddElement DEF TokensInv
  <2>2. access_tokens' \subseteq
          [id : 1..(writes' + 2), user_id : LocalUsers, valid_until_ms : {Null, Now, Now + 1},
           puppets_user_id : LocalUsers \cup {Null}, last_validated : Nat \cup {Null}]
    BY <1>2, <1>3 DEF TokensInv
  <2>3. \A s \in access_tokens : s.id # t.id
    BY <1>2, <1>3 DEF TokensInv
  <2> QED
    BY <1>1, <1>2, <1>3, <2>1, <2>2, <2>3 DEF TokensInv, Active
<1>5. ActivityInv'
  <2>1. last_use[t.id] = 0
    BY <1>2, <1>3, TimesAreNaturals DEF ActivityInv
  <2>2. \A i \in user_ips : i.access_token # t.id
    BY <1>2, <1>3 DEF ActivityInv
  <2>3. UNCHANGED <<user_ips, last_use>>
    BY DEF Login, history
  <2>4. /\ user_ips' \subseteq [user_id : LocalUsers, access_token : 1..(writes' + 2),
                                ip : Addresses, last_seen : 1..writes']
        /\ last_use' \in [TokenIds -> 0..writes']
        /\ \A n \in TokenIds : n > writes' + 2 => last_use'[n] = 0
    <3>1. 1..(writes + 2) \subseteq 1..(writes' + 2) /\ 1..writes \subseteq 1..writes'
          /\ 0..writes \subseteq 0..writes'
      BY <1>2
    <3> QED
      BY <1>2, <2>3, <3>1, TimesAreNaturals DEF ActivityInv
  <2> QED
    BY <1>2, <1>3, <2>1, <2>2, <2>3, <2>4 DEF ActivityInv
<1> QED
  BY <1>4, <1>5, EventsKept, RedactionsKept, UsersKept, MembershipKept
     DEF Login, IInv, Write, history

LEMMA UseTokenPreserves ==
  ASSUME Writing, NEW t \in access_tokens, NEW ip \in Addresses, UseToken(t, ip)
  PROVE  IInv'
<1> USE DEF Writing
<1> DEFINE new == [user_id |-> t.user_id, access_token |-> t.id, ip |-> ip,
                   last_seen |-> writes + 1]
<1>1. /\ last_use' = [last_use EXCEPT ![t.id] = writes + 1]
      /\ user_ips' = {i \in user_ips : i.access_token # t.id \/ i.ip # ip} \cup {new}
      /\ UNCHANGED access_tokens
  BY DEF UseToken, Time
<1>2. writes' = writes + 1 /\ TokensInv /\ ActivityInv
  BY DEF IInv, Write
<1>3. t.id \in 1..(writes + 2) /\ t.user_id \in LocalUsers /\ t.id \in TokenIds
  BY <1>2, TimesAreNaturals DEF TokensInv, IInv
<1>4. /\ new.user_id = t.user_id /\ new.access_token = t.id
      /\ new.last_seen = writes + 1
      /\ new \in [user_id : LocalUsers, access_token : 1..(writes' + 2),
                  ip : Addresses, last_seen : 1..writes']
  BY <1>2, <1>3
<1> HIDE DEF new
<1>5. /\ 1..(writes + 2) \subseteq 1..(writes' + 2) /\ 1..writes \subseteq 1..writes'
      /\ 0..writes \subseteq 0..writes' /\ writes + 1 \in 0..writes'
  BY <1>2
<1>6. /\ user_ips' \subseteq [user_id : LocalUsers, access_token : 1..(writes' + 2),
                              ip : Addresses, last_seen : 1..writes']
      /\ last_use' \in [TokenIds -> 0..writes']
  BY <1>1, <1>2, <1>4, <1>5 DEF ActivityInv
<1>7. /\ last_use'[t.id] = writes + 1
      /\ \A n \in TokenIds : n # t.id => last_use'[n] = last_use[n]
  BY <1>1, <1>2, <1>3 DEF ActivityInv
<1>8. \A n \in TokenIds : n > writes' + 2 => last_use'[n] = 0
  BY <1>2, <1>3, <1>7, TimesAreNaturals DEF ActivityInv
<1>9. \A i \in user_ips : i.last_seen <= writes + 1
  BY <1>2 DEF ActivityInv
<1>10. ASSUME NEW s \in access_tokens, NEW i \in user_ips', i.access_token = s.id
       PROVE  i.user_id = s.user_id /\ i.last_seen <= last_use'[s.id]
  <2>1. CASE s = t
    BY <1>1, <1>2, <1>3, <1>4, <1>7, <1>9, <1>10, <2>1 DEF ActivityInv
  <2>2. CASE s # t
    <3>1. s.id # t.id /\ s.id \in TokenIds
      BY <1>2, <2>2, TimesAreNaturals DEF TokensInv, IInv
    <3> QED
      BY <1>1, <1>2, <1>4, <1>7, <1>10, <3>1 DEF ActivityInv
  <2> QED
    BY <2>1, <2>2
<1>11. ASSUME NEW s \in access_tokens, last_use'[s.id] # 0
       PROVE  \E i \in user_ips' : i.access_token = s.id /\ i.last_seen = last_use'[s.id]
  <2>1. CASE s = t
    BY <1>1, <1>4, <1>7, <2>1
  <2>2. CASE s # t
    <3>1. s.id # t.id /\ s.id \in TokenIds
      BY <1>2, <2>2, TimesAreNaturals DEF TokensInv, IInv
    <3> QED
      BY <1>1, <1>2, <1>7, <1>11, <3>1 DEF ActivityInv
  <2> QED
    BY <2>1, <2>2
<1>12. ActivityInv'
  BY <1>1, <1>6, <1>8, <1>10, <1>11 DEF ActivityInv
<1> QED
  BY <1>12, EventsKept, RedactionsKept, UsersKept, TokensKept, MembershipKept
     DEF UseToken, IInv, Write

(* Tokens may go at any time. *)
LEMMA FewerTokens ==
  ASSUME Writing, access_tokens' \subseteq access_tokens, UNCHANGED <<user_ips, last_use>>,
         \A t \in access_tokens' : Active(t.user_id)'
  PROVE  TokensInv' /\ ActivityInv'
<1> USE DEF Writing
<1>1. writes' = writes + 1 /\ TokensInv /\ ActivityInv
  BY DEF IInv, Write
<1>2. 1..(writes + 2) \subseteq 1..(writes' + 2) /\ 1..writes \subseteq 1..writes'
      /\ 0..writes \subseteq 0..writes'
  BY <1>1
<1>3. TokensInv'
  <2>1. IsFiniteSet(access_tokens')
    BY <1>1, FS_Subset DEF TokensInv
  <2>2. access_tokens' \subseteq
          [id : 1..(writes' + 2), user_id : LocalUsers, valid_until_ms : {Null, Now, Now + 1},
           puppets_user_id : LocalUsers \cup {Null}, last_validated : Nat \cup {Null}]
    BY <1>1, <1>2 DEF TokensInv
  <2> QED
    BY <1>1, <2>1, <2>2 DEF TokensInv
<1>4. ActivityInv'
  <2>1. /\ user_ips' \subseteq [user_id : LocalUsers, access_token : 1..(writes' + 2),
                                ip : Addresses, last_seen : 1..writes']
        /\ last_use' \in [TokenIds -> 0..writes']
        /\ \A n \in TokenIds : n > writes' + 2 => last_use'[n] = 0
    BY <1>1, <1>2, TimesAreNaturals DEF ActivityInv
  <2> QED
    BY <1>1, <2>1 DEF ActivityInv
<1> QED
  BY <1>3, <1>4

LEMMA LogoutPreserves ==
  ASSUME Writing, NEW t \in access_tokens, Logout(t)
  PROVE  IInv'
<1>1. TokensInv' /\ ActivityInv'
  BY FewerTokens DEF Writing, IInv, TokensInv, Active, Logout, history
<1> QED
  BY <1>1, EventsKept, RedactionsKept, UsersKept, MembershipKept
     DEF Writing, Logout, IInv, Write, history

LEMMA DeactivatePreserves ==
  ASSUME Writing, NEW u \in LocalUsers, Deactivate(u)
  PROVE  IInv'
<1> USE DEF Writing
<1> DEFINE gone == [name |-> u, deactivated |-> TRUE]
<1>1. users' = {row \in users : row.name # u} \cup {gone}
  BY DEF Deactivate
<1>2. gone \in [name : LocalUsers, deactivated : BOOLEAN] /\ gone.name = u
  OBVIOUS
<1> HIDE DEF gone
<1>3. UsersInv'
  BY <1>1, <1>2 DEF IInv, UsersInv
<1>4. \A v \in LocalUsers \ {u} : Active(v) => Active(v)'
  BY <1>1 DEF Active
<1>5. \A t \in access_tokens' : Active(t.user_id)'
  BY <1>4 DEF Deactivate, IInv, TokensInv
<1>6. TokensInv' /\ ActivityInv'
  BY <1>5, FewerTokens DEF Deactivate, history
<1> QED
  BY <1>3, <1>6, EventsKept, RedactionsKept, MembershipKept
     DEF Deactivate, IInv, Write, history

LEMMA NextPreserves == IInv /\ [Next]_vars => IInv'
<1> SUFFICES ASSUME IInv, [Next]_vars PROVE IInv'
  OBVIOUS
<1>1. CASE Write /\ HomeserverWrite
  <2>1. Writing
    BY <1>1, WriteIsBounded
  <2> QED
    BY <1>1, <2>1, PersistEventPreserves, RedactPreserves, DeOutlierPreserves,
       SetMembershipPreserves, LoginPreserves, DeactivatePreserves, UseTokenPreserves,
       LogoutPreserves DEF HomeserverWrite
<1>2. CASE UNCHANGED vars
  BY <1>2 DEF vars, tables, history, IInv, EventsInv, RedactionsInv, UsersInv, TokensInv,
     ActivityInv, MembershipInv, Active
<1> QED
  BY <1>1, <1>2 DEF Next

(* Whatever the homeserver writes, the rows of its tables keep to what its *)
(* keys and its history say of them.                                       *)
THEOREM Inductive == Spec => []IInv
BY InitEstablishes, NextPreserves, PTL DEF Spec

-----------------------------------------------------------------------------
(* The candidate query *)

(* A row without a partner survives a LEFT JOIN with NULL beside it, and   *)
(* only such a row does.                                                   *)
LEMMA LeftJoinIsNull ==
  ASSUME NEW L, NEW R, NEW M \in SUBSET (L \X R), Null \notin R
  PROVE  /\ LeftJoin(L, M) \subseteq L \X (R \cup {Null})
         /\ \A l \in L, r \in R : <<l, r>> \in LeftJoin(L, M) <=> <<l, r>> \in M
         /\ \A l \in L : <<l, Null>> \in LeftJoin(L, M) <=> \A r \in R : <<l, r>> \notin M
BY DEF LeftJoin

LEMMA RedactionRowsAreNotNull == IInv => Null \notin redactions
BY NullAssumption DEF IInv, RedactionsInv

LEMMA CandidatesHaveNoRedaction ==
  ASSUME IInv
  PROVE  CandidateRows = Due
<1> DEFINE M == {p \in events \X redactions : RedactionOf(p[1], p[2])}
           J == LeftJoin(events, M)
           Fits(e) == /\ e.origin_server_ts < Cutoff /\ ~e.outlier
                      /\ e.rejection_reason = Null /\ e.state_key = Null
                      /\ e.type \in EVENT_TYPE_ALLOWLIST
                      /\ e.room_id \notin ROOM_ID_EXCLUDELIST
<1>1. /\ J \subseteq events \X (redactions \cup {Null})
      /\ \A e \in events : <<e, Null>> \in J <=> \A r \in redactions : <<e, r>> \notin M
  <2>1. M \in SUBSET (events \X redactions) /\ Null \notin redactions
    BY RedactionRowsAreNotNull
  <2> QED
    BY <2>1, LeftJoinIsNull
<1>2. \A e \in events, r \in redactions : <<e, r>> \in M <=> r.redacts = e.event_id
  BY DEF RedactionOf
<1>3. \A e \in events : (\A r \in redactions : <<e, r>> \notin M) <=> e.event_id \notin redacted
  <2> HIDE DEF M
  <2> QED
    BY <1>2 DEF IInv, RedactionsInv
<1>4. CandidateRows = {p[1] : p \in {p \in J : Fits(p[1]) /\ p[2] = Null}}
  BY DEF CandidateRows
<1>5. Due = {e \in events : Fits(e) /\ e.event_id \notin redacted}
  BY DEF Due, OldEnough
<1> HIDE DEF M, J, Fits
<1>6. ASSUME NEW e \in CandidateRows PROVE e \in Due
  <2>1. PICK p \in J : Fits(p[1]) /\ p[2] = Null /\ e = p[1]
    BY <1>4
  <2>2. p = <<e, Null>> /\ e \in events
    BY <1>1, <2>1
  <2> QED
    BY <1>1, <1>3, <1>5, <2>1, <2>2
<1>7. ASSUME NEW e \in Due PROVE e \in CandidateRows
  <2>1. e \in events /\ Fits(e) /\ <<e, Null>> \in J
    BY <1>1, <1>3, <1>5
  <2> DEFINE p == <<e, Null>>
  <2>2. p \in J /\ p[1] = e /\ p[2] = Null
    BY <2>1
  <2> HIDE DEF p
  <2> QED
    BY <1>4, <2>1, <2>2
<1> QED
  BY <1>6, <1>7

-----------------------------------------------------------------------------
(* The report's counts *)

LEMMA DisjointUnion ==
  ASSUME NEW S, NEW T, IsFiniteSet(S), IsFiniteSet(T), S \cap T = {}
  PROVE  Cardinality(S \cup T) = Cardinality(S) + Cardinality(T)
<1>1. Cardinality(S) \in Nat /\ Cardinality(T) \in Nat /\ Cardinality({}) = 0
  BY FS_CardinalityType, FS_EmptySet
<1>2. Cardinality(S \cup T) = Cardinality(S) + Cardinality(T) - Cardinality(S \cap T)
  BY FS_Union, Zenon
<1>3. Cardinality(S \cap T) = 0
  BY <1>1
<1> QED
  BY <1>1, <1>2, <1>3

(* A sum over a finite set, taken in whatever order CHOOSE gives, is what  *)
(* any function g says that grows by the term of the element added. The    *)
(* fold is a recursive function; g proves that it exists, and a least set  *)
(* on which the two differ that it is g.                                   *)
AddsUp(g, counts) ==
  /\ g = [s \in SUBSET DOMAIN counts |-> g[s]]
  /\ g[{}] = 0
  /\ \A s \in SUBSET DOMAIN counts : \A x \in s : g[s] = counts[x] + g[s \ {x}]

LEMMA FoldIsSum ==
  ASSUME NEW counts, IsFiniteSet(DOMAIN counts), NEW g, AddsUp(g, counts)
  PROVE  Total(counts) = g[DOMAIN counts]
<1> DEFINE D == DOMAIN counts
           First(s) == CHOOSE x \in s : TRUE
           Sum(h) == [s \in SUBSET D |-> IF s = {} THEN 0
                                         ELSE counts[First(s)] + h[s \ {First(s)}]]
           fold == CHOOSE h : h = Sum(h)
<1>1. Total(counts) = fold[D]
  BY DEF Total, FoldFunction, FoldFunctionOnSet, MapThenFoldSet
<1>2. \A s \in SUBSET D : s # {} => First(s) \in s /\ First(s) \in D /\ s \ {First(s)} \in SUBSET D
  OBVIOUS
<1> HIDE DEF First
<1>3. g = Sum(g)
  <2>1. \A s \in SUBSET D :
          g[s] = IF s = {} THEN 0 ELSE counts[First(s)] + g[s \ {First(s)}]
    BY <1>2 DEF AddsUp
  <2> QED
    BY <2>1 DEF AddsUp
<1>4. fold = Sum(fold)
  <2> HIDE DEF Sum
  <2> QED
    BY <1>3
<1> HIDE DEF fold
<1>5. \A s \in SUBSET D :
        fold[s] = IF s = {} THEN 0 ELSE counts[First(s)] + fold[s \ {First(s)}]
  BY <1>4
<1> DEFINE Bad == {s \in SUBSET D : fold[s] # g[s]}
<1>6. Bad = {}
  <2> SUFFICES ASSUME Bad # {} PROVE FALSE
    OBVIOUS
  <2>1. /\ FiniteSubsetsOf(D) = SUBSET D
        /\ IsWellFoundedOn(StrictSubsetOrdering(D), FiniteSubsetsOf(D))
    BY FS_FiniteSubsetsOfFinite, FS_StrictSubsetOrderingWellFounded
  <2>2. Bad \subseteq FiniteSubsetsOf(D)
    BY <2>1
  <2>3. PICK s \in Bad : \A t \in Bad : ~ (<<t, s>> \in StrictSubsetOrdering(D))
    <3> HIDE DEF Bad
    <3> QED
      BY <2>1, <2>2, WFMin
  <2>4. s # {}
    BY <1>5 DEF AddsUp
  <2>5. <<s \ {First(s)}, s>> \in StrictSubsetOrdering(D)
    BY <1>2, <2>4 DEF StrictSubsetOrdering
  <2>6. g[s] = counts[First(s)] + g[s \ {First(s)}] /\ g[{}] = 0
    BY <1>2, <2>4 DEF AddsUp
  <2>7. fold[s \ {First(s)}] = g[s \ {First(s)}]
    BY <1>2, <2>3, <2>4, <2>5
  <2> QED
    BY <1>2, <1>5, <2>4, <2>6, <2>7
<1> QED
  BY <1>1, <1>6

LEMMA CandidatesAreFinite ==
  IInv => IsFiniteSet(CandidateRows)
BY CandidatesHaveNoRedaction, FS_Subset DEF Due, IInv, EventsInv

LEMMA CountsAddUpToCandidates ==
  ASSUME IInv, NEW column
  PROVE  Total(CountsBy(column)) = Cardinality(CandidateRows)
<1> DEFINE C == CandidateRows
           counts == CountsBy(column)
           D == {e[column] : e \in C}
           In(s) == {e \in C : e[column] \in s}
           g == [s \in SUBSET D |-> Cardinality(In(s))]
<1>1. IsFiniteSet(C)
  BY CandidatesAreFinite
<1>2. IsFiniteSet(D) /\ DOMAIN counts = D
  <2>1. [e \in C |-> e[column]] \in Surjection(C, D)
    BY DEF Surjection
  <2> QED
    BY <1>1, <2>1, FS_Surjection DEF CountsBy
<1>3. \A s \in SUBSET D : IsFiniteSet(In(s)) /\ Cardinality(In(s)) \in Nat
  <2>1. \A s \in SUBSET D : In(s) \in SUBSET C
    OBVIOUS
  <2> QED
    BY <1>1, <2>1, FS_Subset, FS_CardinalityType
<1>4. g[{}] = 0
  <2>1. In({}) = {}
    OBVIOUS
  <2> QED
    BY <2>1, FS_EmptySet
<1>5. ASSUME NEW s \in SUBSET D, NEW x \in s
      PROVE  g[s] = counts[x] + g[s \ {x}]
  <2>1. In(s) = In({x}) \cup In(s \ {x}) /\ In({x}) \cap In(s \ {x}) = {}
    BY <1>5
  <2>2. counts[x] = Cardinality(In({x}))
    <3>1. counts[x] = Cardinality({e \in C : e[column] = x})
      BY DEF CountsBy
    <3>2. {e \in C : e[column] = x} = In({x})
      OBVIOUS
    <3> QED
      BY <3>1, <3>2
  <2>3. IsFiniteSet(In({x})) /\ IsFiniteSet(In(s \ {x}))
    BY <1>3
  <2> HIDE DEF In
  <2>4. Cardinality(In(s)) = Cardinality(In({x})) + Cardinality(In(s \ {x}))
    BY <2>1, <2>3, DisjointUnion
  <2> QED
    BY <2>2, <2>4
<1>6. In(D) = C
  OBVIOUS
<1>7. AddsUp(g, counts)
  <2>1. g = [s \in SUBSET D |-> g[s]]
    OBVIOUS
  <2>2. \A s \in SUBSET D : \A x \in s : g[s] = counts[x] + g[s \ {x}]
    BY <1>5
  <2> HIDE DEF g, D, counts
  <2> QED
    BY <1>2, <1>4, <2>1, <2>2 DEF AddsUp
<1>8. g[D] = Cardinality(C)
  BY <1>6
<1> HIDE DEF g, D, counts
<1>9. Total(counts) = g[D]
  BY <1>2, <1>7, FoldIsSum
<1> QED
  BY <1>8, <1>9 DEF counts

(* The candidate query returns every due event and no other, and each of   *)
(* the report's counts adds up to the number of candidates.                *)
THEOREM CandidatesAreRight == Spec => []CandidatesAreDue
<1>1. IInv => CandidatesAreDue
  BY CandidatesHaveNoRedaction, CountsAddUpToCandidates DEF CandidatesAreDue
<1> QED
  BY <1>1, Inductive, PTL

-----------------------------------------------------------------------------
(* Ranks in a finite linear order *)

LinearOrder(R, P) ==
  /\ \A p \in R : <<p, p>> \notin P
  /\ \A p, q, r \in R : <<p, q>> \in P /\ <<q, r>> \in P => <<p, r>> \in P
  /\ \A p, q \in R : p = q \/ <<p, q>> \in P \/ <<q, p>> \in P

(* How many elements of R come before p, and p. *)
RankIn(R, P, p) == Cardinality({q \in R : <<q, p>> \in P}) + 1

LEMMA RanksFollowTheOrder ==
  ASSUME NEW R, IsFiniteSet(R), NEW P, LinearOrder(R, P)
  PROVE  /\ \A p \in R : RankIn(R, P, p) \in 1..Cardinality(R)
         /\ \A p, q \in R : <<p, q>> \in P => RankIn(R, P, p) < RankIn(R, P, q)
<1> DEFINE Before(p) == {q \in R : <<q, p>> \in P}
<1>1. \A p \in R : /\ IsFiniteSet(Before(p)) /\ Cardinality(Before(p)) \in Nat
                   /\ Cardinality(Before(p)) <= Cardinality(R)
                   /\ Cardinality(Before(p)) = Cardinality(R) => R = Before(p)
  <2>1. \A p \in R : Before(p) \in SUBSET R
    OBVIOUS
  <2> HIDE DEF Before
  <2> QED
    BY <2>1, FS_Subset, FS_CardinalityType
<1>2. \A p \in R : RankIn(R, P, p) = Cardinality(Before(p)) + 1
  BY DEF RankIn
<1>3. Cardinality(R) \in Nat
  BY FS_CardinalityType
<1>4. \A p \in R : RankIn(R, P, p) \in 1..Cardinality(R)
  <2>1. \A p \in R : p \notin Before(p)
    BY DEF LinearOrder
  <2> HIDE DEF Before
  <2> QED
    BY <1>1, <1>2, <1>3, <2>1
<1>5. ASSUME NEW p \in R, NEW q \in R, <<p, q>> \in P
      PROVE  RankIn(R, P, p) < RankIn(R, P, q)
  <2>1. Before(p) \in SUBSET Before(q) /\ p \in Before(q) /\ p \notin Before(p)
    BY <1>5 DEF LinearOrder
  <2> HIDE DEF Before
  <2>2. /\ Cardinality(Before(p)) <= Cardinality(Before(q))
        /\ Cardinality(Before(p)) # Cardinality(Before(q))
    BY <1>1, <2>1, FS_Subset
  <2> QED
    BY <1>1, <1>2, <2>2
<1> QED
  BY <1>4, <1>5

(* Every position up to the size of R is the rank of exactly one element.  *)
LEMMA RanksAreABijection ==
  ASSUME NEW R, IsFiniteSet(R), NEW P, LinearOrder(R, P)
  PROVE  /\ \A p, q \in R : RankIn(R, P, p) = RankIn(R, P, q) => p = q
         /\ \A i \in 1..Cardinality(R) : \E p \in R : RankIn(R, P, p) = i
<1> DEFINE n == Cardinality(R)
           rank == [p \in R |-> RankIn(R, P, p)]
<1>1. /\ \A p \in R : RankIn(R, P, p) \in 1..n
      /\ \A p, q \in R : <<p, q>> \in P => RankIn(R, P, p) < RankIn(R, P, q)
  BY RanksFollowTheOrder
<1>2. n \in Nat
  BY FS_CardinalityType
<1>3. \A p, q \in R : RankIn(R, P, p) = RankIn(R, P, q) => p = q
  <2> SUFFICES ASSUME NEW p \in R, NEW q \in R, RankIn(R, P, p) = RankIn(R, P, q), p # q
               PROVE  FALSE
    OBVIOUS
  <2>1. <<p, q>> \in P \/ <<q, p>> \in P
    BY DEF LinearOrder
  <2>2. RankIn(R, P, p) \in Nat /\ RankIn(R, P, q) \in Nat
    BY <1>1, <1>2
  <2>3. RankIn(R, P, p) < RankIn(R, P, q) \/ RankIn(R, P, q) < RankIn(R, P, p)
    BY <1>1, <2>1
  <2> QED
    BY <2>2, <2>3
<1>4. rank \in Injection(R, 1..n)
  BY <1>1, <1>3 DEF Injection, IsInjective
<1>5. IsFiniteSet(1..n) /\ Cardinality(1..n) = n
  <2>1. IsFiniteSet(1..n) /\ Cardinality(1..n) = IF 1 > n THEN 0 ELSE n - 1 + 1
    BY <1>2, FS_Interval
  <2> QED
    BY <1>2, <2>1
<1>6. rank \in Surjection(R, 1..n)
  <2> HIDE DEF rank
  <2> QED
    BY <1>4, <1>5, FS_Injection
<1>7. \A i \in 1..n : \E p \in R : rank[p] = i
  <2> HIDE DEF rank
  <2> QED
    BY <1>6 DEF Surjection
<1> QED
  BY <1>3, <1>7

-----------------------------------------------------------------------------
(* The tokens of a sender *)

LEMMA MaxIsTheGreatest ==
  ASSUME NEW S \in SUBSET Nat, NEW m \in S, \A y \in S : y <= m
  PROVE  Max(S) = m
<1>1. \A y \in S : m >= y
  OBVIOUS
<1>2. \A x \in S : (\A y \in S : x >= y) => x = m
  OBVIOUS
<1> QED
  BY <1>1, <1>2 DEF Max

LatestOf(t) == [user_id |-> t.user_id, access_token |-> t.id, last_seen |-> last_use[t.id]]

(* Whatever addresses a token was used from, the subquery has one row for  *)
(* it, with the last use, or none if it was never used.                    *)
LEMMA OneRowPerToken ==
  ASSUME IInv, NEW t \in access_tokens
  PROVE  {a \in LatestTokenActivity : ActivityOf(t, a)}
           = IF last_use[t.id] = 0 THEN {} ELSE {LatestOf(t)}
<1>1. TokensInv /\ ActivityInv
  BY DEF IInv
<1> DEFINE Seen(i) == {j.last_seen : j \in {j \in user_ips :
                         j.user_id = i.user_id /\ j.access_token = i.access_token}}
           Row(i) == [user_id |-> i.user_id, access_token |-> i.access_token,
                      last_seen |-> Max(Seen(i))]
<1>2. LatestTokenActivity = {Row(i) : i \in user_ips}
  BY DEF LatestTokenActivity
<1>3. last_use[t.id] \in Nat
  <2>1. t.id \in TokenIds
    BY <1>1, TimesAreNaturals DEF TokensInv, IInv
  <2> QED
    BY <1>1, <2>1 DEF ActivityInv, IInv
<1>4. ASSUME NEW i \in user_ips, i.user_id = t.user_id, i.access_token = t.id
      PROVE  last_use[t.id] # 0 /\ Row(i) = LatestOf(t)
  <2>1. i.last_seen \in 1..writes /\ i.last_seen <= last_use[t.id]
    BY <1>1, <1>4 DEF ActivityInv
  <2>2. last_use[t.id] # 0
    BY <1>3, <2>1 DEF IInv
  <2>3. Seen(i) \in SUBSET Nat
    BY <1>1 DEF ActivityInv, IInv
  <2>4. \A s \in Seen(i) : s <= last_use[t.id]
    BY <1>1, <1>4 DEF ActivityInv
  <2>5. last_use[t.id] \in Seen(i)
    <3>1. PICK j \in user_ips : j.access_token = t.id /\ j.last_seen = last_use[t.id]
      BY <1>1, <2>2 DEF ActivityInv
    <3>2. j.user_id = t.user_id
      BY <1>1, <3>1 DEF ActivityInv
    <3> QED
      BY <1>4, <3>1, <3>2
  <2> HIDE DEF Seen
  <2>6. Max(Seen(i)) = last_use[t.id]
    BY <2>3, <2>4, <2>5, MaxIsTheGreatest
  <2> QED
    BY <1>4, <2>2, <2>6 DEF LatestOf
<1>5. \A i \in user_ips : ActivityOf(t, Row(i)) <=> i.user_id = t.user_id /\ i.access_token = t.id
  BY DEF ActivityOf
<1>6. CASE last_use[t.id] = 0
  <2> HIDE DEF Row
  <2> QED
    BY <1>2, <1>4, <1>5, <1>6
<1>7. CASE last_use[t.id] # 0
  <2>1. PICK i \in user_ips : i.access_token = t.id
    BY <1>1, <1>7 DEF ActivityInv
  <2>2. i.user_id = t.user_id
    BY <1>1, <2>1 DEF ActivityInv
  <2> HIDE DEF Row
  <2>3. LatestOf(t) \in LatestTokenActivity /\ ActivityOf(t, LatestOf(t))
    BY <1>2, <1>4, <1>5, <2>1, <2>2
  <2> QED
    BY <1>2, <1>4, <1>5, <1>7, <2>3
<1> QED
  BY <1>6, <1>7

(* The token rows a user can use, before the join with the activity. *)
UsableTokens(user) ==
  {t \in access_tokens : /\ t.user_id = user /\ t.puppets_user_id = Null
                         /\ t.valid_until_ms = Null \/ t.valid_until_ms > Now}

LEMMA UsableIsLive ==
  ASSUME IInv, NEW user
  PROVE  LiveTokens(user) = {t.id : t \in UsableTokens(user)}
<1>1. \A t \in access_tokens :
        (t.valid_until_ms = Null \/ t.valid_until_ms > Now) <=> ~(t.valid_until_ms \in 0..Now)
  BY NullAssumption, TimesAreNaturals DEF IInv, TokensInv
<1> QED
  BY <1>1 DEF LiveTokens, UsableTokens

(* The join neither drops a token nor returns it twice, and puts the time  *)
(* of its last use beside it.                                              *)
LEMMA JoinKeepsTokens ==
  ASSUME IInv, NEW user
  PROVE  /\ \A p \in UsableTokenRows(user) :
              p[1] \in UsableTokens(user) /\ LastSeen(p) = last_use[p[1].id]
         /\ \A p, q \in UsableTokenRows(user) : p[1] = q[1] => p = q
         /\ \A t \in UsableTokens(user) : \E p \in UsableTokenRows(user) : p[1] = t
<1> DEFINE A == LatestTokenActivity
           M == {p \in access_tokens \X A : ActivityOf(p[1], p[2])}
           J == LeftJoin(access_tokens, M)
           Usable(t) == /\ t.user_id = user /\ t.puppets_user_id = Null
                        /\ t.valid_until_ms = Null \/ t.valid_until_ms > Now
<1>1. UsableTokenRows(user) = {p \in J : Usable(p[1])}
  BY DEF UsableTokenRows
<1>2. UsableTokens(user) = {t \in access_tokens : Usable(t)}
  BY DEF UsableTokens
<1>3. J = M \cup {<<t, Null>> : t \in access_tokens \ {p[1] : p \in M}}
  BY DEF LeftJoin
<1>4. \A t \in access_tokens, a \in A :
        <<t, a>> \in M <=> last_use[t.id] # 0 /\ a = LatestOf(t)
  BY OneRowPerToken
<1>5. \A t \in access_tokens : last_use[t.id] # 0 => LatestOf(t) \in A
  BY OneRowPerToken
<1>6. ASSUME NEW t \in access_tokens
      PROVE  LatestOf(t) # Null /\ LatestOf(t).last_seen = last_use[t.id]
  <2>1. t.user_id \in LocalUsers /\ t.id \in Nat /\ t.id \in TokenIds
    BY TimesAreNaturals DEF IInv, TokensInv
  <2>2. last_use[t.id] \in Nat
    BY <2>1 DEF IInv, ActivityInv
  <2> QED
    BY <2>1, <2>2, NullAssumption DEF LatestOf
<1> DEFINE Beside(t) == IF last_use[t.id] = 0 THEN Null ELSE LatestOf(t)
<1>7. J = {<<t, Beside(t)>> : t \in access_tokens}
  <2>1. \A p \in M : p[1] \in access_tokens /\ p = <<p[1], Beside(p[1])>>
    BY <1>4
  <2>2. \A t \in access_tokens : last_use[t.id] # 0 => <<t, Beside(t)>> \in M
    BY <1>4, <1>5
  <2>3. \A t \in access_tokens : t \in {p[1] : p \in M} <=> last_use[t.id] # 0
    <3>1. ASSUME NEW t \in access_tokens, NEW p \in M, t = p[1]
          PROVE  last_use[t.id] # 0
      BY <1>4, <3>1
    <3>2. ASSUME NEW t \in access_tokens, last_use[t.id] # 0
          PROVE  t \in {p[1] : p \in M}
      <4>1. <<t, Beside(t)>> \in M /\ <<t, Beside(t)>>[1] = t
        BY <2>2, <3>2
      <4> HIDE DEF M, Beside
      <4> QED
        BY <4>1
    <3> QED
      BY <3>1, <3>2
  <2> DEFINE Used == {p[1] : p \in M}
  <2>4. J = M \cup {<<t, Null>> : t \in access_tokens \ Used}
    BY <1>3
  <2>5. \A t \in access_tokens : t \in Used <=> last_use[t.id] # 0
    BY <2>3
  <2> HIDE DEF M, Used, J
  <2> QED
    BY <2>1, <2>2, <2>4, <2>5
<1>8. \A t \in access_tokens : LastSeen(<<t, Beside(t)>>) = last_use[t.id]
  BY <1>6 DEF LastSeen
<1> HIDE DEF J, Beside, Usable
<1>9. \A p \in J : \E t \in access_tokens : p = <<t, Beside(t)>>
  BY <1>7
<1>10. \A t \in access_tokens : <<t, Beside(t)>> \in J
  BY <1>7
<1>11. \A p \in UsableTokenRows(user) :
         p[1] \in UsableTokens(user) /\ LastSeen(p) = last_use[p[1].id]
  BY <1>1, <1>2, <1>8, <1>9
<1>12. \A p, q \in UsableTokenRows(user) : p[1] = q[1] => p = q
  BY <1>1, <1>9
<1>13. ASSUME NEW t \in UsableTokens(user)
       PROVE  \E p \in UsableTokenRows(user) : p[1] = t
  <2>1. t \in access_tokens /\ Usable(t)
    BY <1>2
  <2>2. <<t, Beside(t)>> \in J /\ <<t, Beside(t)>>[1] = t
    BY <1>10, <2>1
  <2> QED
    BY <1>1, <2>1, <2>2
<1> QED
  BY <1>11, <1>12, <1>13

PreferredPairs(R) == {pq \in R \X R : Preferred(pq[1], pq[2])}

(* DESC NULLS LAST on three columns, the last of them a key, never leaves  *)
(* the order of two tokens open.                                           *)
LEMMA PreferenceIsLinear ==
  ASSUME IInv, NEW user
  PROVE  /\ IsFiniteSet(UsableTokenRows(user))
         /\ LinearOrder(UsableTokenRows(user), PreferredPairs(UsableTokenRows(user)))
<1> DEFINE R == UsableTokenRows(user)
           P == PreferredPairs(R)
<1>1. /\ \A p \in R : p[1] \in UsableTokens(user) /\ LastSeen(p) = last_use[p[1].id]
      /\ \A p, q \in R : p[1] = q[1] => p = q
  BY JoinKeepsTokens
<1>2. /\ UsableTokens(user) \in SUBSET access_tokens
      /\ \A s, t \in access_tokens : s.id = t.id => s = t
      /\ IsFiniteSet(access_tokens)
  BY DEF UsableTokens, IInv, TokensInv
<1> HIDE DEF R
<1>3. IsFiniteSet(R)
  <2> DEFINE f == [p \in R |-> p[1]]
  <2>1. f \in Injection(R, access_tokens)
    BY <1>1, <1>2 DEF Injection, IsInjective
  <2> HIDE DEF f
  <2> QED
    BY <1>2, <2>1, FS_Injection
<1>4. ASSUME NEW p \in R
      PROVE  /\ LastSeen(p) \in Nat /\ OrZero(p[1].last_validated) \in Nat
             /\ p[1].id \in Nat
  <2>1. p[1] \in access_tokens
    BY <1>1, <1>2
  <2>2. /\ p[1].id \in Nat /\ p[1].id \in TokenIds
        /\ p[1].last_validated \in Nat \cup {Null}
    BY <2>1, TimesAreNaturals DEF IInv, TokensInv
  <2>3. last_use[p[1].id] \in Nat
    BY <2>2 DEF IInv, ActivityInv
  <2> QED
    BY <1>1, <2>2, <2>3 DEF OrZero
<1>5. \A p, q \in R : p[1].id = q[1].id => p = q
  BY <1>1, <1>2
<1>6. \A p, q \in R : <<p, q>> \in P <=> Preferred(p, q)
  BY DEF PreferredPairs
<1> HIDE DEF P
<1> DEFINE Seen(p) == LastSeen(p)
           Valid(p) == OrZero(p[1].last_validated)
           Id(p) == p[1].id
<1>7. \A p, q \in R : Preferred(p, q) <=>
        \/ Seen(p) > Seen(q)
        \/ Seen(p) = Seen(q) /\ \/ Valid(p) > Valid(q)
                                \/ Valid(p) = Valid(q) /\ Id(p) > Id(q)
  BY DEF Preferred
<1>8. \A p \in R : Seen(p) \in Nat /\ Valid(p) \in Nat /\ Id(p) \in Nat
  BY <1>4
<1>9. \A p, q \in R : Id(p) = Id(q) => p = q
  BY <1>5
<1> HIDE DEF Seen, Valid, Id
<1>10. \A p \in R : <<p, p>> \notin P
  BY <1>6, <1>7, <1>8
<1>11. \A p, q, r \in R : <<p, q>> \in P /\ <<q, r>> \in P => <<p, r>> \in P
  BY <1>6, <1>7, <1>8
<1>12. \A p, q \in R : p = q \/ <<p, q>> \in P \/ <<q, p>> \in P
  <2> SUFFICES ASSUME NEW p \in R, NEW q \in R, p # q
               PROVE  Preferred(p, q) \/ Preferred(q, p)
    BY <1>6
  <2>1. /\ Seen(p) \in Nat /\ Valid(p) \in Nat /\ Id(p) \in Nat
        /\ Seen(q) \in Nat /\ Valid(q) \in Nat /\ Id(q) \in Nat
        /\ Id(p) # Id(q)
    BY <1>8, <1>9
  <2> QED
    BY <1>7, <2>1
<1>13. LinearOrder(R, P)
  BY <1>10, <1>11, <1>12 DEF LinearOrder
<1> QED
  BY <1>3, <1>13 DEF R, P

LEMMA TokensAreTheLiveOnes ==
  ASSUME IInv, NEW user
  PROVE  /\ Range(SenderTokens(user)) = LiveTokens(user)
         /\ IsInjective(SenderTokens(user))
         /\ \A i, j \in DOMAIN SenderTokens(user) : i < j =>
              last_use[SenderTokens(user)[i]] >= last_use[SenderTokens(user)[j]]
<1> DEFINE R == UsableTokenRows(user)
           P == PreferredPairs(R)
           n == Cardinality(R)
           Row(i) == CHOOSE p \in R : RankIn(R, P, p) = i
           order == SenderTokens(user)
<1>1. /\ IsFiniteSet(R) /\ LinearOrder(R, P) /\ n \in Nat
  BY PreferenceIsLinear, FS_CardinalityType
<1>2. /\ \A p \in R : RankIn(R, P, p) \in 1..n
      /\ \A p, q \in R : <<p, q>> \in P => RankIn(R, P, p) < RankIn(R, P, q)
      /\ \A p, q \in R : RankIn(R, P, p) = RankIn(R, P, q) => p = q
      /\ \A i \in 1..n : \E p \in R : RankIn(R, P, p) = i
  <2> HIDE DEF R, P
  <2> QED
    BY <1>1, RanksFollowTheOrder, RanksAreABijection
<1>3. /\ \A i \in 1..n : Row(i) \in R /\ RankIn(R, P, Row(i)) = i
      /\ \A p \in R : Row(RankIn(R, P, p)) = p
  <2> HIDE DEF R, P
  <2>1. \A i \in 1..n : Row(i) \in R /\ RankIn(R, P, Row(i)) = i
    BY <1>2
  <2> QED
    BY <1>2, <2>1
<1>4. order = [i \in 1..n |-> Row(i)[1].id]
  <2> DEFINE Rank(p) == Cardinality({q \in R : Preferred(q, p)}) + 1
             Ranked(i) == CHOOSE p \in R : Rank(p) = i
  <2>1. order = [i \in 1..n |-> Ranked(i)[1].id]
    BY DEF SenderTokens
  <2>2. \A p \in R : Rank(p) = RankIn(R, P, p)
    <3>1. \A p \in R : {q \in R : Preferred(q, p)} = {q \in R : <<q, p>> \in P}
      BY DEF PreferredPairs
    <3> QED
      BY <3>1 DEF RankIn
  <2> HIDE DEF R, P, Rank
  <2>3. \A i \in 1..n : Ranked(i) = Row(i)
    BY <2>2
  <2> HIDE DEF Ranked, Row, order
  <2> QED
    BY <2>1, <2>3
<1>5. /\ \A p \in R : p[1] \in UsableTokens(user) /\ LastSeen(p) = last_use[p[1].id]
      /\ \A p, q \in R : p[1] = q[1] => p = q
      /\ \A t \in UsableTokens(user) : \E p \in R : p[1] = t
  BY JoinKeepsTokens
<1>6. \A p, q \in R : p[1].id = q[1].id => p = q
  BY <1>5 DEF UsableTokens, IInv, TokensInv
<1>7. \A p, q \in R : <<p, q>> \in P <=> Preferred(p, q)
  BY DEF PreferredPairs
<1>8. \A p \in R : last_use[p[1].id] \in Nat
  <2>1. \A t \in access_tokens : t.id \in TokenIds
    BY TimesAreNaturals DEF IInv, TokensInv
  <2> QED
    BY <1>5, <2>1 DEF UsableTokens, IInv, ActivityInv
<1>9. LiveTokens(user) = {t.id : t \in UsableTokens(user)}
  BY UsableIsLive
<1> HIDE DEF R, P, n, Row, order
<1>10. DOMAIN order = 1..n /\ \A i \in 1..n : order[i] = Row(i)[1].id
  BY <1>4
<1>11. Range(order) = LiveTokens(user)
  <2>1. ASSUME NEW i \in 1..n PROVE order[i] \in LiveTokens(user)
    BY <1>3, <1>5, <1>9, <1>10
  <2>2. ASSUME NEW k \in LiveTokens(user) PROVE \E i \in 1..n : order[i] = k
    <3>1. PICK p \in R : p[1].id = k
      BY <1>5, <1>9
    <3> QED
      BY <1>2, <1>3, <1>10, <3>1
  <2> QED
    BY <1>10, <2>1, <2>2 DEF Range
<1>12. IsInjective(order)
  BY <1>3, <1>6, <1>10 DEF IsInjective
<1>13. ASSUME NEW i \in 1..n, NEW j \in 1..n, i < j
       PROVE  last_use[order[i]] >= last_use[order[j]]
  <2> DEFINE p == Row(i)
             q == Row(j)
  <2>1. p \in R /\ q \in R /\ RankIn(R, P, p) = i /\ RankIn(R, P, q) = j
    BY <1>3
  <2> HIDE DEF p, q
  <2>2. ~Preferred(q, p)
    <3>1. <<q, p>> \in P => j < i
      BY <1>2, <2>1
    <3>2. i \in Int /\ j \in Int
      BY <1>1
    <3> QED
      BY <1>7, <1>13, <2>1, <3>1, <3>2
  <2>3. ~(LastSeen(q) > LastSeen(p))
    BY <2>2 DEF Preferred
  <2>4. last_use[p[1].id] >= last_use[q[1].id]
    BY <1>5, <1>8, <2>1, <2>3
  <2> QED
    BY <1>10, <2>4 DEF p, q
<1> QED
  BY <1>10, <1>11, <1>12, <1>13 DEF order

(* A sender's tokens are tried each once, the live ones and no other, in   *)
(* the order of their last use.                                            *)
THEOREM TokenOrderIsRight == Spec => []TokensByRecency
<1>1. IInv => TokensByRecency
  BY TokensAreTheLiveOnes DEF TokensByRecency
<1> QED
  BY <1>1, Inductive, PTL

-----------------------------------------------------------------------------
(* What the scope and membership checks see *)

LEMMA NoTokensIsNoLiveToken ==
  ASSUME IInv, NEW user
  PROVE  SenderTokens(user) = <<>> <=> LiveTokens(user) = {}
<1> DEFINE order == SenderTokens(user)
           n == Cardinality(UsableTokenRows(user))
<1>1. n \in Nat
  BY PreferenceIsLinear, FS_CardinalityType
<1>2. order = [i \in 1..n |-> order[i]]
  <2> DEFINE id(i) == (CHOOSE p \in UsableTokenRows(user) :
                         Cardinality({q \in UsableTokenRows(user) : Preferred(q, p)}) + 1 = i)[1].id
  <2>1. order = [i \in 1..n |-> id(i)]
    BY DEF SenderTokens
  <2> HIDE DEF order, n, id
  <2> QED
    BY <2>1
<1>3. Range(order) = LiveTokens(user)
  BY TokensAreTheLiveOnes
<1> HIDE DEF order, n
<1>4. DOMAIN order = 1..n
  BY <1>2
<1>5. ASSUME order = <<>> PROVE LiveTokens(user) = {}
  BY <1>3, <1>5 DEF Range
<1>6. ASSUME LiveTokens(user) = {} PROVE order = <<>>
  <2>1. n = 0
    <3>1. \A i \in 1..n : order[i] \in Range(order)
      BY <1>4 DEF Range
    <3>2. 1 \notin 1..n
      BY <1>3, <1>6, <3>1
    <3> QED
      BY <1>1, <3>2
  <2> QED
    BY <1>2, <2>1
<1> QED
  BY <1>5, <1>6 DEF order

(* The profile query returns the account, and no account is not active.    *)
LEMMA ProfileIsTheAccount ==
  ASSUME IInv, NEW s
  PROVE  /\ s \in DOMAIN SenderProfiles({s}) <=> s \in LocalUsers
         /\ s \in LocalUsers =>
              (SenderProfiles({s})[s].deactivated <=> ~Active(s))
         /\ Active(s) => s \in LocalUsers
<1>1. UsersInv
  BY DEF IInv
<1> DEFINE Gone(n) == \E u \in users : u.name = n /\ u.deactivated
<1>2. SenderProfiles({s}) =
        [n \in {u.name : u \in users} \cap {s} |-> [deactivated |-> Gone(n)]]
  BY DEF SenderProfiles
<1>3. {u.name : u \in users} = LocalUsers
  BY <1>1 DEF UsersInv
<1>4. s \in LocalUsers => (Gone(s) <=> ~Active(s))
  BY <1>1 DEF UsersInv, Active
<1>5. Active(s) => s \in LocalUsers
  BY <1>1 DEF UsersInv, Active
<1> HIDE DEF Gone
<1>6. s \in LocalUsers => (SenderProfiles({s})[s].deactivated <=> Gone(s))
  BY <1>2, <1>3
<1> QED
  BY <1>2, <1>3, <1>4, <1>5, <1>6

LEMMA ScopeIsActiveWithToken ==
  ASSUME IInv, NEW s
  PROVE  CanRedact(s) <=> Active(s) /\ LiveTokens(s) # {}
<1> DEFINE known == s \in DOMAIN SenderProfiles({s})
           gone == SenderProfiles({s})[s].deactivated
<1>1. FailureReason(s) =
        CASE ~known -> "remote_user_unsupported"
          [] known /\ gone -> "local_user_deactivated"
          [] OTHER -> IF SenderTokens(s) = <<>> THEN "no_valid_access_token" ELSE Null
  BY DEF FailureReason
<1>2. /\ known <=> s \in LocalUsers
      /\ s \in LocalUsers => (gone <=> ~Active(s))
      /\ Active(s) => s \in LocalUsers
  BY ProfileIsTheAccount
<1>3. /\ Null # "remote_user_unsupported" /\ Null # "local_user_deactivated"
      /\ Null # "no_valid_access_token"
  BY NullAssumption
<1>4. SenderTokens(s) = <<>> <=> LiveTokens(s) = {}
  BY NoTokensIsNoLiveToken
<1> HIDE DEF known, gone
<1>5. CASE ~known
  BY <1>1, <1>2, <1>3, <1>5 DEF CanRedact
<1>6. CASE known /\ gone
  BY <1>1, <1>2, <1>3, <1>6 DEF CanRedact
<1>7. CASE known /\ ~gone
  BY <1>1, <1>2, <1>3, <1>4, <1>7 DEF CanRedact
<1> QED
  BY <1>5, <1>6, <1>7

(* Of all the rows a user has left in room_memberships, the query joins    *)
(* the one that counts now.                                                *)
LEMMA JoinedIsTheMembership ==
  ASSUME IInv, NEW pairs
  PROVE  /\ JoinedRoomMemberships(pairs) \subseteq pairs
         /\ \A u, r : <<u, r>> \in JoinedRoomMemberships(pairs)
                        <=> <<u, r>> \in pairs /\ Joined(u, r)
<1>1. MembershipInv
  BY DEF IInv
<1> DEFINE C == {c \in current_state_events :
                   /\ c.type = "m.room.member"
                   /\ \E m \in room_memberships : MembershipOf(c, m) /\ m.membership = "join"}
<1>2. JoinedRoomMemberships(pairs) = {<<c.state_key, c.room_id>> : c \in C} \cap pairs
  BY DEF JoinedRoomMemberships
<1>3. \A c \in current_state_events :
        c \in C <=> membership[<<c.state_key, c.room_id>>] = "join"
  BY <1>1 DEF MembershipInv, MembershipOf
<1>4. \A c \in C : c \in current_state_events
  OBVIOUS
<1> HIDE DEF C
<1>5. ASSUME NEW u, NEW r
      PROVE  <<u, r>> \in {<<c.state_key, c.room_id>> : c \in C} <=> Joined(u, r)
  <2>1. ASSUME NEW c \in C, <<u, r>> = <<c.state_key, c.room_id>>
        PROVE  Joined(u, r)
    <3>1. u = c.state_key /\ r = c.room_id /\ u \in LocalUsers /\ r \in Rooms
      BY <1>1, <1>4, <2>1 DEF MembershipInv
    <3> QED
      BY <1>3, <1>4, <3>1 DEF Joined
  <2>2. ASSUME Joined(u, r)
        PROVE  \E c \in C : <<u, r>> = <<c.state_key, c.room_id>>
    <3>1. u \in LocalUsers /\ r \in Rooms /\ membership[<<u, r>>] = "join"
      BY <2>2 DEF Joined
    <3>2. PICK c \in current_state_events : c.state_key = u /\ c.room_id = r
      BY <1>1, <3>1 DEF MembershipInv
    <3> QED
      BY <1>3, <3>1, <3>2
  <2> QED
    BY <2>1, <2>2
<1> QED
  BY <1>2, <1>5

(* Scope and membership checks let a candidate through exactly if its      *)
(* sender is an active local user with a live token who is in the room.    *)
THEOREM PreflightIsRight == Spec => []PreflightMatchesRule
<1>1. IInv => PreflightMatchesRule
  <2> SUFFICES ASSUME IInv, NEW e \in CandidateRows
               PROVE  (CanRedact(e.sender) /\ e \notin RoomMembershipFailures(CandidateRows))
                        <=> /\ Active(e.sender) /\ LiveTokens(e.sender) # {}
                            /\ Joined(e.sender, e.room_id)
    BY DEF PreflightMatchesRule
  <2> DEFINE pairs == {<<d.sender, d.room_id>> : d \in CandidateRows}
  <2>1. <<e.sender, e.room_id>> \in pairs
    OBVIOUS
  <2>2. e \notin RoomMembershipFailures(CandidateRows)
          <=> <<e.sender, e.room_id>> \in JoinedRoomMemberships(pairs)
    BY DEF RoomMembershipFailures
  <2> HIDE DEF pairs
  <2> QED
    BY <2>1, <2>2, ScopeIsActiveWithToken, JoinedIsTheMembership
<1> QED
  BY <1>1, Inductive, PTL

-----------------------------------------------------------------------------
(* SynapseTables implements SynapseState: what the queries see, told from  *)
(* the history instead of the tables.                                      *)

Candidates == {e.event_id : e \in CandidateRows}
Profiles == [s \in Senders |-> ProfileOf(s)]
WithToken == {s \in Senders : SenderTokens(s) # <<>>}
JoinedPairs == JoinedRoomMemberships(Pairs)

Account(s) ==
  IF s \notin LocalUsers THEN "remote" ELSE IF Active(s) THEN "active" ELSE "deactivated"

Wanted == OldEvents \ redacted

SeenEvents ==
  /\ Candidates =
       {id \in Wanted : \E d \in events :
          d.event_id = id /\ ~d.outlier /\ d.rejection_reason = Null}
  /\ Arriving =
       {id \in Wanted : \A d \in events :
          d.event_id = id => d.outlier /\ d.rejection_reason = Null}

SeenUsers ==
  /\ Profiles = [s \in Senders |-> Account(s)]
  /\ WithToken = {s \in Senders : LiveTokens(s) # {}}
  /\ JoinedPairs \subseteq Pairs
  /\ \A u, r : <<u, r>> \in JoinedPairs <=> <<u, r>> \in Pairs /\ Joined(u, r)

LEMMA OldEventsAreKnown ==
  ASSUME NEW e \in EventRows
  PROVE  e.event_id \in OldEvents <=> OldEnough(e)
BY EventRowsAssumption DEF OldEvents

LEMMA QueriesSeeTheEvents == IInv => SeenEvents
<1> SUFFICES ASSUME IInv PROVE SeenEvents
  OBVIOUS
<1>1. CandidateRows = Due
  BY CandidatesHaveNoRedaction
<1>2. ASSUME NEW d \in events
      PROVE  d.event_id \in OldEvents <=> OldEnough(d)
  <2>1. PICK e \in EventRows : d = EventRow(e, d.outlier, d.rejection_reason)
    BY DEF IInv, EventsInv
  <2>2. /\ d.event_id = e.event_id /\ d.type = e.type /\ d.room_id = e.room_id
        /\ d.origin_server_ts = e.origin_server_ts /\ d.state_key = e.state_key
    BY <2>1, EventRowColumns
  <2>3. OldEnough(d) <=> OldEnough(e)
    BY <2>2 DEF OldEnough
  <2> QED
    BY <2>2, <2>3, OldEventsAreKnown
<1>3. \A d \in events :
        d \in Due <=> d.event_id \in Wanted /\ ~d.outlier /\ d.rejection_reason = Null
  BY <1>2 DEF Due, Wanted
<1>4. Due \subseteq events
  BY DEF Due
<1> QED
  BY <1>1, <1>3, <1>4 DEF SeenEvents, Candidates, Arriving, Wanted

LEMMA QueriesSeeTheUsers == IInv => SeenUsers
<1> SUFFICES ASSUME IInv PROVE SeenUsers
  OBVIOUS
<1>1. \A s : ProfileOf(s) = Account(s)
  <2> SUFFICES ASSUME NEW s PROVE ProfileOf(s) = Account(s)
    OBVIOUS
  <2> DEFINE profiles == SenderProfiles({s})
  <2>1. ProfileOf(s) = IF s \notin DOMAIN profiles THEN "remote"
                       ELSE IF profiles[s].deactivated THEN "deactivated" ELSE "active"
    BY DEF ProfileOf
  <2>2. /\ s \in DOMAIN profiles <=> s \in LocalUsers
        /\ s \in LocalUsers => (profiles[s].deactivated <=> ~Active(s))
    BY ProfileIsTheAccount
  <2> QED
    BY <2>1, <2>2 DEF Account
<1>2. \A s : SenderTokens(s) # <<>> <=> LiveTokens(s) # {}
  BY NoTokensIsNoLiveToken
<1>3. /\ JoinedPairs \subseteq Pairs
      /\ \A u, r : <<u, r>> \in JoinedPairs <=> <<u, r>> \in Pairs /\ Joined(u, r)
  BY JoinedIsTheMembership DEF JoinedPairs
<1>4. Profiles = [s \in Senders |-> Account(s)]
  BY <1>1 DEF Profiles
<1>5. WithToken = {s \in Senders : LiveTokens(s) # {}}
  BY <1>2 DEF WithToken
<1> QED
  BY <1>3, <1>4, <1>5 DEF SeenUsers

LEMMA PairsAreMemberships == State!Memberships = Pairs
<1>1. ASSUME NEW e \in EventRows PROVE RowOf(e.event_id) = e
  BY EventRowsAssumption DEF RowOf
<1>2. ASSUME NEW id \in OldEvents
      PROVE  /\ RowOf(id) \in EventRows /\ OldEnough(RowOf(id)) /\ RowOf(id).event_id = id
             /\ [j \in OldEvents |-> RowOf(j).sender][id] = RowOf(id).sender
             /\ [j \in OldEvents |-> RowOf(j).room_id][id] = RowOf(id).room_id
  BY <1>1 DEF OldEvents
<1>3. State!Memberships = {<<RowOf(id).sender, RowOf(id).room_id>> : id \in OldEvents}
  BY <1>2 DEF State!Memberships
<1> QED
  BY <1>1, <1>2, <1>3 DEF Pairs, OldEvents

LEMMA StateStarts == SeenEvents /\ SeenUsers => State!Init
<1> SUFFICES ASSUME SeenEvents, SeenUsers PROVE State!Init
  OBVIOUS
<1>1. Candidates \subseteq OldEvents /\ Arriving \subseteq OldEvents \ Candidates
  BY DEF SeenEvents, Wanted
<1>2. Profiles \in [Senders -> {"remote", "active", "deactivated"}]
  BY DEF SeenUsers, Account
<1> QED
  BY <1>1, <1>2, PairsAreMemberships
     DEF State!Init, SeenUsers, Candidates, Profiles, WithToken, JoinedPairs

-----------------------------------------------------------------------------
(* What becomes of one event, one sender's tokens or one membership is a   *)
(* step of the abstract state, or nothing it sees.                         *)

EventsSeen == UNCHANGED <<Candidates, Arriving>>
UsersSeen == UNCHANGED <<Profiles, WithToken, JoinedPairs>>

LEMMA Stutters == EventsSeen /\ UsersSeen => UNCHANGED State!vars
BY DEF EventsSeen, UsersSeen, State!vars, Candidates, Profiles, WithToken, JoinedPairs

LEMMA EventsStay ==
  ASSUME SeenEvents, SeenEvents', UNCHANGED <<events, redacted>>
  PROVE  EventsSeen
<1>1. Wanted' = Wanted
  BY DEF Wanted
<1> QED
  BY <1>1 DEF SeenEvents, EventsSeen

LEMMA UsersStay ==
  ASSUME SeenUsers, SeenUsers', UNCHANGED <<users, access_tokens, membership>>
  PROVE  UsersSeen
<1>1. \A s : Account(s)' = Account(s) /\ LiveTokens(s)' = LiveTokens(s)
  BY DEF Account, Active, LiveTokens
<1>2. \A u, r : Joined(u, r)' <=> Joined(u, r)
  BY DEF Joined
<1>3. JoinedPairs' = JoinedPairs
  <2>1. ASSUME NEW p \in Pairs PROVE p \in JoinedPairs' <=> p \in JoinedPairs
    <3>1. PICK u, r : p = <<u, r>>
      BY DEF Pairs
    <3> QED
      BY <1>2, <3>1 DEF SeenUsers
  <2> QED
    BY <2>1 DEF SeenUsers
<1> QED
  BY <1>1, <1>3 DEF SeenUsers, UsersSeen

(* An event arrives, or is redacted or rejected, once. *)
LEMMA StepOfEvent ==
  ASSUME SeenEvents, UsersSeen, NEW id,
         Candidates' \ {id} = Candidates \ {id}, Arriving' \ {id} = Arriving \ {id},
         id \in Candidates' => id \in Candidates \cup Arriving,
         id \in Arriving' => id \in Arriving /\ id \notin Candidates'
  PROVE  [State!Next]_State!vars
<1>1. Candidates \cap Arriving = {} /\ Candidates \cup Arriving \subseteq OldEvents
  BY DEF SeenEvents, Wanted
<1>2. ASSUME id \in Arriving, id \in Candidates', id \notin Arriving' PROVE State!Arrive(id)
  <2>1. Candidates' = Candidates \cup {id} /\ Arriving' = Arriving \ {id}
    BY <1>2
  <2> QED
    BY <1>2, <2>1
       DEF UsersSeen, State!Arrive, Candidates, Profiles, WithToken, JoinedPairs
<1>3. ASSUME id \in Candidates \cup Arriving, id \notin Candidates' \cup Arriving'
      PROVE  State!Redact(id)
  <2>1. Candidates' = Candidates \ {id} /\ Arriving' = Arriving \ {id}
    BY <1>3
  <2> QED
    BY <1>3, <2>1
       DEF UsersSeen, State!Redact, Candidates, Profiles, WithToken, JoinedPairs
<1>4. \/ EventsSeen
      \/ id \in Arriving /\ id \in Candidates' /\ id \notin Arriving'
      \/ id \in Candidates \cup Arriving /\ id \notin Candidates' \cup Arriving'
  <2>1. (id \in Candidates' <=> id \in Candidates) /\ (id \in Arriving' <=> id \in Arriving)
          => EventsSeen
    BY DEF EventsSeen
  <2> QED
    BY <1>1, <2>1
<1>5. State!Arrive(id) \/ State!Redact(id) => id \in OldEvents
  BY <1>1 DEF State!Arrive, State!Redact, Candidates
<1> QED
  BY <1>2, <1>3, <1>4, <1>5, Stutters DEF State!Next

(* A sender's first token appears, or the last goes. *)
LEMMA StepOfToken ==
  ASSUME SeenUsers, SeenUsers', EventsSeen, NEW u \in LocalUsers, Active(u),
         UNCHANGED <<users, membership>>,
         \A s : s # u => LiveTokens(s)' = LiveTokens(s)
  PROVE  [State!Next]_State!vars
<1>1. u \in Senders
  BY UsersAssumption
<1>2. Profiles' = Profiles
  <2>1. \A s : Account(s)' = Account(s)
    BY DEF Account, Active
  <2> QED
    BY <2>1 DEF SeenUsers
<1>3. JoinedPairs' = JoinedPairs
  <2>1. ASSUME NEW p \in Pairs PROVE p \in JoinedPairs' <=> p \in JoinedPairs
    <3>1. PICK v, r : p = <<v, r>>
      BY DEF Pairs
    <3> QED
      BY <3>1 DEF SeenUsers, Joined
  <2> QED
    BY <2>1 DEF SeenUsers
<1>4. \A s \in Senders : s # u => (s \in WithToken' <=> s \in WithToken)
  BY DEF SeenUsers
<1>5. WithToken \subseteq Senders /\ WithToken' \subseteq Senders
  BY DEF WithToken
<1>6. Profiles[u] = "active"
  BY <1>1 DEF SeenUsers, Account
<1>7. CASE u \in WithToken <=> u \in WithToken'
  <2>1. WithToken' = WithToken
    BY <1>4, <1>5, <1>7
  <2> QED
    BY <1>2, <1>3, <2>1, Stutters DEF UsersSeen
<1>8. CASE ~(u \in WithToken <=> u \in WithToken')
  <2>1. WithToken' = IF u \in WithToken THEN WithToken \ {u} ELSE WithToken \cup {u}
    BY <1>1, <1>4, <1>5, <1>8
  <2>2. State!ChangeToken(u)
    BY <1>2, <1>3, <1>6, <2>1
       DEF EventsSeen, State!ChangeToken, Candidates, Profiles, WithToken, JoinedPairs
  <2> QED
    BY <1>1, <2>2 DEF State!Next
<1> QED
  BY <1>7, <1>8

-----------------------------------------------------------------------------
(* Every transaction of the homeserver is a step of the abstract state. *)

Seeing == SeenEvents /\ SeenEvents' /\ SeenUsers /\ SeenUsers'

LEMMA PersistEventIsAStep ==
  ASSUME Seeing, NEW e \in EventRows, PersistEvent(e)
  PROVE  [State!Next]_State!vars
<1> DEFINE id == e.event_id
<1> PICK outlier \in BOOLEAN, reason \in {Null, "auth_error"} :
      events' = events \cup {[e EXCEPT !.outlier = outlier, !.rejection_reason = reason]}
  BY DEF PersistEvent
<1>1. PICK d : /\ d = [e EXCEPT !.outlier = outlier, !.rejection_reason = reason]
               /\ events' = events \cup {d}
  OBVIOUS
<1>2. d = EventRow(e, outlier, reason)
  <2>1. e = EventRow(e, e.outlier, e.rejection_reason)
    BY EventRowsAssumption, Zenon DEF EventRow
  <2> QED
    BY <1>1, <2>1, EventRowUpdates
<1>3. d.event_id = id /\ d.outlier = outlier /\ d.rejection_reason = reason
  BY <1>2, EventRowColumns
<1> HIDE DEF id
<1>4. Wanted' = Wanted
  BY DEF PersistEvent, history, Wanted
<1>5. \A c \in events : c.event_id # id
  BY DEF PersistEvent, id
<1>6. Candidates' \ {id} = Candidates \ {id} /\ Arriving' \ {id} = Arriving \ {id}
  <2>1. \A c \in events' : c.event_id # id <=> c \in events
    BY <1>1, <1>3, <1>5
  <2> QED
    BY <1>1, <1>4, <2>1 DEF Seeing, SeenEvents
<1>7. id \in Candidates' => id \in Arriving
  BY <1>4, <1>5 DEF Seeing, SeenEvents
<1>8. id \in Arriving' => id \in Arriving /\ id \notin Candidates'
  BY <1>4, <1>5 DEF Seeing, SeenEvents
<1>9. UsersSeen
  BY UsersStay DEF PersistEvent, Seeing, history
<1> QED
  BY <1>6, <1>7, <1>8, <1>9, StepOfEvent DEF Seeing

LEMMA DeOutlierIsAStep ==
  ASSUME IInv, Seeing, NEW e \in events, DeOutlier(e)
  PROVE  [State!Next]_State!vars
<1> DEFINE id == e.event_id
<1>1. PICK f \in EventRows : e = EventRow(f, e.outlier, e.rejection_reason)
  BY DEF IInv, EventsInv
<1> PICK no \in BOOLEAN : events' = (events \ {e}) \cup {[e EXCEPT !.outlier = no]}
  BY Zenon DEF DeOutlier
<1>2. PICK d : d = [e EXCEPT !.outlier = no] /\ events' = (events \ {e}) \cup {d}
  OBVIOUS
<1>3. d = EventRow(f, no, e.rejection_reason)
  BY <1>1, <1>2, EventRowUpdate
<1>4. d.event_id = id /\ d.outlier = no /\ d.rejection_reason = e.rejection_reason
  BY <1>1, <1>3, EventRowColumns
<1> HIDE DEF id
<1>5. Wanted' = Wanted
  BY DEF DeOutlier, history, Wanted
<1>6. \A c \in events : c.event_id = id <=> c = e
  BY DEF IInv, EventsInv, id
<1>7. Candidates' \ {id} = Candidates \ {id} /\ Arriving' \ {id} = Arriving \ {id}
  BY <1>2, <1>4, <1>5, <1>6 DEF Seeing, SeenEvents
<1>8. e.outlier
  BY DEF DeOutlier
<1>9. /\ id \in Arriving <=> id \in Wanted /\ e.rejection_reason = Null
      /\ id \in Candidates' <=> id \in Wanted /\ ~no /\ e.rejection_reason = Null
      /\ id \in Arriving' <=> id \in Wanted /\ no /\ e.rejection_reason = Null
  <2>1. id \in Arriving <=> id \in Wanted /\ e.rejection_reason = Null
    BY <1>6, <1>8 DEF Seeing, SeenEvents
  <2>2. d \in events' /\ \A c \in events' : c.event_id = id <=> c = d
    BY <1>2, <1>4, <1>6
  <2>3. /\ id \in Candidates' <=> id \in Wanted /\ ~d.outlier /\ d.rejection_reason = Null
        /\ id \in Arriving' <=> id \in Wanted /\ d.outlier /\ d.rejection_reason = Null
    BY <1>5, <2>2 DEF Seeing, SeenEvents
  <2> QED
    BY <1>4, <2>1, <2>3
<1>10. UsersSeen
  BY UsersStay DEF DeOutlier, Seeing, history
<1> QED
  BY <1>7, <1>9, <1>10, StepOfEvent DEF Seeing

LEMMA RedactIsAStep ==
  ASSUME Seeing, NEW e \in EventRows, Redact(e)
  PROVE  [State!Next]_State!vars
<1> DEFINE id == e.event_id
<1>1. Wanted' = Wanted \ {id} /\ UNCHANGED events
  BY DEF Redact, Wanted
<1> HIDE DEF id
<1>2. Candidates' = Candidates \ {id} /\ Arriving' = Arriving \ {id}
  BY <1>1 DEF Seeing, SeenEvents
<1>3. UsersSeen
  BY UsersStay DEF Redact, Seeing
<1>4. Candidates' \ {id} = Candidates \ {id} /\ Arriving' \ {id} = Arriving \ {id}
  BY <1>2
<1>5. id \notin Candidates' /\ id \notin Arriving'
  BY <1>2
<1> QED
  BY <1>3, <1>4, <1>5, StepOfEvent DEF Seeing

LEMMA LoginIsAStep ==
  ASSUME Seeing, NEW u \in LocalUsers, Login(u)
  PROVE  [State!Next]_State!vars
<1>1. PICK t : t.user_id = u /\ access_tokens' = access_tokens \cup {t}
  <2>1. PICK until \in {Null, Now, Now + 1}, puppet \in (LocalUsers \ {u}) \cup {Null},
             validated \in {Null, Time} :
          access_tokens' = access_tokens \cup
            {[id |-> writes + 3, user_id |-> u, valid_until_ms |-> until,
              puppets_user_id |-> puppet, last_validated |-> validated]}
    BY DEF Login
  <2> QED
    BY <2>1
<1>2. \A s : s # u => LiveTokens(s)' = LiveTokens(s)
  BY <1>1 DEF LiveTokens
<1>3. EventsSeen
  BY EventsStay DEF Login, Seeing, history
<1> QED
  BY <1>2, <1>3, StepOfToken DEF Login, Seeing, history

LEMMA LogoutIsAStep ==
  ASSUME IInv, Seeing, NEW t \in access_tokens, Logout(t)
  PROVE  [State!Next]_State!vars
<1>1. t.user_id \in LocalUsers /\ Active(t.user_id)
  BY DEF IInv, TokensInv
<1>2. \A s : s # t.user_id => LiveTokens(s)' = LiveTokens(s)
  BY DEF Logout, LiveTokens
<1>3. EventsSeen
  BY EventsStay DEF Logout, Seeing, history
<1> QED
  BY <1>1, <1>2, <1>3, StepOfToken DEF Logout, Seeing, history

LEMMA UseTokenIsAStep ==
  ASSUME Seeing, NEW t, NEW ip, UseToken(t, ip)
  PROVE  [State!Next]_State!vars
BY EventsStay, UsersStay, Stutters DEF UseToken, Seeing

LEMMA DeactivateIsAStep ==
  ASSUME IInv, Seeing, NEW u \in LocalUsers, Deactivate(u)
  PROVE  [State!Next]_State!vars
<1>1. u \in Senders /\ Active(u)
  BY UsersAssumption DEF Deactivate
<1>2. PICK yes \in BOOLEAN :
        yes /\ users' = {row \in users : row.name # u} \cup {[name |-> u, deactivated |-> yes]}
  BY Zenon DEF Deactivate
<1>3. /\ ~Active(u)'
      /\ \A s : s # u => (Active(s)' <=> Active(s))
  BY <1>2 DEF Active
<1>4. \A s : s # u => Account(s)' = Account(s)
  BY <1>3 DEF Account
<1>5. Account(u) = "active" /\ Account(u)' = "deactivated"
  BY <1>1, <1>3 DEF Account
<1>6. Profiles[u] = "active" /\ Profiles' = [Profiles EXCEPT ![u] = "deactivated"]
  BY <1>1, <1>4, <1>5 DEF Seeing, SeenUsers
<1>7. LiveTokens(u)' = {} /\ \A s : s # u => LiveTokens(s)' = LiveTokens(s)
  BY DEF Deactivate, LiveTokens
<1>8. WithToken' = WithToken \ {u}
  BY <1>7 DEF Seeing, SeenUsers
<1>9. JoinedPairs' = JoinedPairs
  <2>1. ASSUME NEW p \in Pairs PROVE p \in JoinedPairs' <=> p \in JoinedPairs
    <3>1. PICK v, r : p = <<v, r>>
      BY DEF Pairs
    <3> QED
      BY <3>1 DEF Seeing, SeenUsers, Joined, Deactivate, history
  <2> QED
    BY <2>1 DEF Seeing, SeenUsers
<1>10. EventsSeen
  BY EventsStay DEF Deactivate, Seeing, history
<1>11. State!Deactivate(u)
  BY <1>6, <1>8, <1>9, <1>10
     DEF EventsSeen, State!Deactivate, Candidates, Profiles, WithToken, JoinedPairs
<1> QED
  BY <1>1, <1>11 DEF State!Next

LEMMA SetMembershipIsAStep ==
  ASSUME IInv, Seeing, NEW u \in LocalUsers, NEW r \in Rooms, NEW value,
         SetMembership(u, r, value)
  PROVE  [State!Next]_State!vars
<1> DEFINE m == <<u, r>>
<1>1. \A v, q : <<v, q>> # m => (Joined(v, q)' <=> Joined(v, q))
  <2>1. \A x \in LocalUsers \X Rooms : x # m => membership'[x] = membership[x]
    BY DEF SetMembership, IInv, MembershipInv
  <2> QED
    BY <2>1 DEF Joined
<1>2. \A p \in Pairs : p # m => (p \in JoinedPairs' <=> p \in JoinedPairs)
  <2> SUFFICES ASSUME NEW p \in Pairs, p # m PROVE p \in JoinedPairs' <=> p \in JoinedPairs
    OBVIOUS
  <2>1. PICK v, q : p = <<v, q>>
    BY DEF Pairs
  <2> QED
    BY <1>1, <2>1 DEF Seeing, SeenUsers
<1> HIDE DEF m
<1>3. JoinedPairs \subseteq Pairs /\ JoinedPairs' \subseteq Pairs
  BY DEF Seeing, SeenUsers
<1>4. Profiles' = Profiles /\ WithToken' = WithToken
  <2>1. \A s : Account(s)' = Account(s) /\ LiveTokens(s)' = LiveTokens(s)
    BY DEF SetMembership, Account, Active, LiveTokens
  <2> QED
    BY <2>1 DEF Seeing, SeenUsers
<1>5. EventsSeen
  BY EventsStay DEF SetMembership, Seeing
<1>6. CASE m \in JoinedPairs <=> m \in JoinedPairs'
  <2>1. JoinedPairs' = JoinedPairs
    BY <1>2, <1>3, <1>6
  <2> QED
    BY <1>4, <1>5, <2>1, Stutters DEF UsersSeen
<1>7. CASE ~(m \in JoinedPairs <=> m \in JoinedPairs')
  <2>1. JoinedPairs' = IF m \in JoinedPairs THEN JoinedPairs \ {m} ELSE JoinedPairs \cup {m}
    BY <1>2, <1>3, <1>7
  <2>2. State!ChangeMembership(m)
    BY <1>4, <1>5, <2>1
       DEF EventsSeen, State!ChangeMembership, Candidates, Profiles, WithToken, JoinedPairs
  <2>3. m \in State!Memberships
    BY <1>3, <1>7, PairsAreMemberships
  <2> QED
    BY <2>2, <2>3 DEF State!Next
<1> QED
  BY <1>6, <1>7

LEMMA NextIsAStep ==
  IInv /\ SeenEvents /\ SeenEvents' /\ SeenUsers /\ SeenUsers' /\ [Next]_vars
    => [State!Next]_State!vars
<1> SUFFICES ASSUME IInv, Seeing, [Next]_vars PROVE [State!Next]_State!vars
  BY DEF Seeing
<1>1. CASE UNCHANGED vars
  BY <1>1, EventsStay, UsersStay, Stutters DEF Seeing, vars, tables, history
<1>2. CASE HomeserverWrite
  BY <1>2, PersistEventIsAStep, RedactIsAStep, DeOutlierIsAStep, SetMembershipIsAStep,
     LoginIsAStep, DeactivateIsAStep, UseTokenIsAStep, LogoutIsAStep DEF HomeserverWrite
<1> QED
  BY <1>1, <1>2 DEF Next

(* Whatever rows the homeserver writes, its transactions are, seen through *)
(* the redactor's queries, the changes of SynapseState: the sweep proved   *)
(* beside that state runs beside these tables.                             *)
THEOREM TablesImplementState == Spec => ImplementsState
<1>1. Init => State!Init
  BY InitEstablishes, QueriesSeeTheEvents, QueriesSeeTheUsers, StateStarts
<1>2. IInv => SeenEvents /\ SeenUsers
  BY QueriesSeeTheEvents, QueriesSeeTheUsers
<1> QED
  BY <1>1, <1>2, Inductive, NextIsAStep, PTL DEF Spec, ImplementsState, State!Spec
===============================================================================
