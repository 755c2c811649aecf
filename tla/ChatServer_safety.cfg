SPECIFICATION Spec
CONSTANTS
    s1 = s1
    s2 = s2
    s3 = s3
    alice = alice
    bob = bob
    sys = sys
    east = east
    west = west
    r1 = r1
    r2 = r2
    Session = {s1, s2, s3}
    Server = {east, west}
    Room = {r1, r2}
    User = {alice, bob, sys}
    SYSTEM_USER_ID = sys
    NoSession = NoSession
    JoinMayOvertake = TRUE
    Identity <- AllKinds
SYMMETRY Symmetry
CHECK_DEADLOCK FALSE
INVARIANTS
    RoomsSound
    AnnouncementsSound
    ObserverInvisible
PROPERTIES
    NewcomerIsTold
    ImplementsPresence
