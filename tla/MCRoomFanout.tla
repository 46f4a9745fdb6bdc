---------------------------- MODULE MCRoomFanout ----------------------------
(* RoomFanout on a small instance: an owner and one more user, two requests *)
(* and one connection, which either of the two may open in turn.            *)
EXTENDS RoomFanout, TLC

============================================================================
