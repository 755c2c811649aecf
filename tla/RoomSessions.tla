---------------------------- MODULE RoomSessions ------------------------------
(***************************************************************************)
(* What RelaySession and PeerDecode share: the sessions a receiver gets    *)
(* media from, and time.                                                   *)
(***************************************************************************)
EXTENDS Ages

CONSTANT Sender  \* sessions of the other clients of the room
=============================================================================
