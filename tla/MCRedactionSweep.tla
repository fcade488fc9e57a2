-------------------------- MODULE MCRedactionSweep --------------------------
(* RedactionSweep on four events of three senders. Events 1, 2 and 3 have   *)
(* the same timestamp and a page holds two, so a page border falls between  *)
(* equal timestamps; 4 may arrive during the run and is the only event of   *)
(* its sender, who is remote. Initially a and b may redact everything; or b *)
(* has no token and a has left the hall.                                    *)
EXTENDS RedactionSweep

CONSTANTS a, b, x

MCEvents == 1..4
MCSenders == {a, b, x}
MCRooms == {"room", "hall"}
MCSenderOf == (1 :> a @@ 2 :> b @@ 3 :> a @@ 4 :> x)
MCRoomOf == [e \in MCEvents |-> IF e = 3 THEN "hall" ELSE "room"]
MCTsOf == [e \in MCEvents |-> IF e <= 3 THEN 1 ELSE 2]
MCInitialCandidates == 1..3
MCInitialProfile == [s \in MCSenders |-> IF s = x THEN "remote" ELSE "active"]
MCStayed == {<<a, "room">>, <<b, "room">>, <<x, "room">>}
MCInitialRights == {<<{a, b}, MCStayed \cup {<<a, "hall">>}>>, <<{a}, MCStayed>>}
=============================================================================
