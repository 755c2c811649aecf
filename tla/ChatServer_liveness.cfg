SPECIFICATION FairSpec
CONSTANTS
    s1 = s1
    s2 = s2
    s3 = s3
    alice = alice
    bob = bob
    sys = sys
    east = east
    west = west
    r1 = r1
    r2 = r2
    Session = {s1, s2, s3}
    Server = {east}
    Room = {r1}
    User = {alice, bob, sys}
    SYSTEM_USER_ID = sys
    NoSession = NoSession
    JoinMayOvertake = TRUE
    Identity <- OneRoom
CHECK_DEADLOCK FALSE
PROPERTIES
    DepartureResolves
    LoneDepartureIsAnnounced
