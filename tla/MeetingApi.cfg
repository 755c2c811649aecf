CONSTANTS
    User = {u1, u2}
    MaxMeetings = 2
    Request = {r1, r2}
    Offered = {"join", "status", "leave", "waiting", "admit", "reject",
               "admit_all", "open", "close", "delete"}
    NoUser = NoUser
    NoRequest = NoRequest
    MayFail = TRUE
    MayLose = FALSE
SPECIFICATION Spec
SYMMETRY Symmetry
VIEW View
INVARIANTS
    MeetingsSound
    NobodyWaitsOutside
    ActiveHasHost
PROPERTIES
    DecisionsAreFinal
\* Every row may be used up.
CHECK_DEADLOCK FALSE
