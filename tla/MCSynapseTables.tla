---------------------------- MODULE MCSynapseTables ----------------------------
(* SynapseTables on two local users and a remote one. Events 1 and 2 are of  *)
(* a and old, in one room; 2 is not stored at first. 3 is of the remote user *)
(* x; 4 and 5 are too young and in an excluded room, 6 is a state event.     *)
EXTENDS SynapseTables

CONSTANTS a, b, x

Event(id, type, room, sender, ts, key) ==
  [event_id |-> <<"event", id>>, type |-> type, room_id |-> room, origin_server_ts |-> ts,
   sender |-> sender, outlier |-> FALSE, state_key |-> key, rejection_reason |-> Null]

MCEventRows ==
  {Event(1, "m.room.message", "room", a, 1, Null),
   Event(2, "m.room.encrypted", "room", a, 1, Null),
   Event(3, "m.room.message", "room", x, 1, Null),
   Event(4, "m.room.message", "room", b, 5, Null),
   Event(5, "m.room.message", "closed", b, 1, Null),
   Event(6, "m.room.message", "room", a, 1, "")}
MCPersisted == {e \in MCEventRows : e.event_id[2] # 2}
MCLocalUsers == {a, b}
MCSenders == {a, b, x}
MCRooms == {"room"}
MCAllowlist == {"m.room.message", "m.room.encrypted"}
MCExcludelist == {"closed"}
================================================================================
