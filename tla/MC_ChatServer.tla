--------------------------- MODULE MC_ChatServer ---------------------------
(***************************************************************************)
(* Instances of ChatServer for TLC.                                        *)
(***************************************************************************)
EXTENDS ChatServer, TLC

CONSTANTS s1, s2, s3, alice, bob, sys, east, west, r1, r2

Id(v, r, u, o) == [server |-> v, room |-> r, user |-> u, observer |-> o]

\* Participants of one room on one server.
OneRoom == {Id(east, r1, alice, FALSE), Id(east, r1, bob, FALSE)}

\* Besides, observers and the reserved user, and the same users in another
\* room and on another server.
AllKinds == OneRoom \cup
    {Id(east, r1, alice, TRUE), Id(east, r1, sys, FALSE),
     Id(east, r2, alice, FALSE),
     Id(west, r1, alice, FALSE), Id(west, r1, bob, FALSE)}

Symmetry == Permutations(Session)
=============================================================================
