--------------------------- MODULE MCRoomManager ---------------------------
(* Small instance of RoomManager: every membership relation of three rooms  *)
(* and three sessions is reached.                                           *)
EXTENDS RoomManager
=============================================================================
