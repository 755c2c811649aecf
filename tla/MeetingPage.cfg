CONSTANTS
    User = {h, a}
    Host = {h}
    Leaver = {a}
    MaxMeetings = 1
    Request <- PageRequests
    Offered = {"reject", "open"}
    NoUser = NoUser
    NoRequest = NoRequest
    MayFail = FALSE
    MayLose = TRUE
SPECIFICATION PageFairSpec
INVARIANTS
    PageTypeOK
PROPERTIES
    DecisionReachesPage
    HostSeesWaiting
\* A user whose page shows an error need do nothing more.
CHECK_DEADLOCK FALSE
