----------------------------- MODULE MeetingApi -----------------------------
(***************************************************************************)
(* Meetings, participants and the waiting room of one room name:           *)
(* meeting-api/src/routes/{meetings,participants,waiting_room}.rs and the  *)
(* queries of meeting-api/src/db/.                                         *)
(*                                                                         *)
(* A request is a process.  It keeps what its handler keeps in local       *)
(* variables and takes one step per SQL statement or NATS publication, so  *)
(* that requests interleave at every await.  A statement outside a         *)
(* transaction is atomic.  The two transactions (join_attendee and         *)
(* update_waiting_room_enabled) begin by locking the meeting's row and     *)
(* take effect when they commit; statements that update the row wait for   *)
(* the lock, plain SELECTs do not.  A handler may be cut off at any await  *)
(* (database error, crash, client gone); an open transaction rolls back.   *)
(*                                                                         *)
(* Left out: names and timestamps (set_host_display_name with them),       *)
(* passwords (stored, never asked for), and requests that only read, apart *)
(* from the two the user interface polls.                                  *)
(***************************************************************************)
EXTENDS Naturals

CONSTANTS
    User,         \* user ids
    MaxMeetings,  \* bound: rows of the meetings table
    Request,      \* bound: requests in flight at the same time
    Offered,      \* bound: the operations clients ask for
    NoUser,       \* creator of a row that does not exist
    NoRequest,    \* nobody holds the row lock
    MayFail,      \* TRUE: handlers may be cut off
    MayLose       \* TRUE: a published event may not reach a listener

Meeting   == 1..MaxMeetings
NoMeeting == 0

ASSUME MeetingApiAssumption ==
    /\ MaxMeetings \in Nat
    /\ Offered \subseteq {"join", "status", "leave", "waiting", "admit",
                          "admit_all", "reject", "end", "delete", "open",
                          "close"}
    /\ NoUser \notin User
    /\ NoRequest \notin Request
    /\ MayFail \in BOOLEAN
    /\ MayLose \in BOOLEAN

VARIABLES
    meetings,      \* rows of the table meetings
    participants,  \* rows of meeting_participants: [Meeting -> [User -> row]]
    lock,          \* the transaction that holds the lock of a meeting's row
    request,       \* the requests in flight
    listening,     \* <<user, event>>: connected to a relay for this event
    inbox,         \* events on their way to the listener
    cut            \* meetings a host's request was cut off halfway through

dbVars == <<meetings, participants, lock>>
vars   == <<dbVars, request, listening, inbox, cut>>

Status == {"none", "waiting", "admitted", "rejected", "left"}
Ops    == {"join", "status", "leave", "waiting", "admit", "admit_all",
           "reject", "end", "delete", "open", "close"}
Event  == {"MEETING_ACTIVATED", "PARTICIPANT_ADMITTED",
           "PARTICIPANT_REJECTED", "WAITING_ROOM_UPDATED"}
Reply  == Status \cup {"", "ok", "host", "waiting_for_meeting", "ended",
                       "error", "not_found"}
Pc     == {"idle", "lookup", "create", "activate", "publish_activated",
           "upsert_host", "join_begin", "join_commit", "publish_waiting",
           "get_status", "leave", "count_admitted", "end_meeting",
           "require_host", "decide", "publish_decision", "soft_delete",
           "update_begin", "update_commit", "done"}

NoRow   == [state |-> "none", creator_id |-> NoUser,
            waiting_room_enabled |-> FALSE, deleted |-> FALSE]
Row(u, wr) == [state |-> "idle", creator_id |-> u,
               waiting_room_enabled |-> wr, deleted |-> FALSE]
NoParticipant == [status |-> "none", is_host |-> FALSE]
Idle    == [op |-> "status", user |-> NoUser, target |-> {}, pc |-> "idle",
            m |-> NoMeeting, seen |-> FALSE, reply |-> ""]

\* get_by_room_id: the row that is not deleted; the partial unique index
\* allows one.
Live == {m \in Meeting : meetings[m].state # "none" /\ ~meetings[m].deleted}

Unused == {m \in Meeting : meetings[m].state = "none"}

StatusOf(m, u) == participants[m][u].status

In(m, status) == {u \in User : StatusOf(m, u) = status}

IsHost(r) == meetings[request[r].m].creator_id = request[r].user

At(r, pc) == request[r].pc = pc

Goto(r, pc) == request' = [request EXCEPT ![r].pc = pc]

\* The response.  "host" is "admitted" with is_host set; joins and status
\* requests answered with one of the two carry a room token.
Answer(r, reply) ==
    request' = [request EXCEPT ![r] =
        [Idle EXCEPT !.op = request[r].op, !.user = request[r].user,
                     !.pc = "done", !.reply = reply]]

SetStatus(m, us, status) ==
    participants' = [participants EXCEPT ![m] =
        [u \in User |-> IF u \in us THEN [@[u] EXCEPT !.status = status]
                                    ELSE @[u]]]

\* publish: everyone of `us' who listens, if nothing is lost.
Publish(event, us) ==
    LET reached == {l \in listening : l[1] \in us /\ l[2] = event}
    IN \E got \in IF MayLose THEN SUBSET reached ELSE {reached} :
           inbox' = inbox \cup got

Unlocked(m) == lock[m] = NoRequest

-----------------------------------------------------------------------------
Init ==
    /\ meetings = [m \in Meeting |-> NoRow]
    /\ participants = [m \in Meeting |-> [u \in User |-> NoParticipant]]
    /\ lock = [m \in Meeting |-> NoRequest]
    /\ request = [r \in Request |-> Idle]
    /\ listening = {}
    /\ inbox = {}
    /\ cut = {}

\* A client sends a request.  "open" and "close" are PATCH requests that
\* disable and enable the waiting room; they start with a transaction.
Submit(r, u, op, target) ==
    /\ request[r].pc \in {"idle", "done"}
    /\ request' = [request EXCEPT ![r] =
           [Idle EXCEPT !.op = op, !.user = u, !.target = target,
                !.pc = IF op \in {"open", "close"} THEN "update_begin"
                                                   ELSE "lookup"]]
    /\ UNCHANGED <<dbVars, listening, inbox, cut>>

\* create_with_options: the INSERT.
Insert(m, u, wr) == meetings' = [meetings EXCEPT ![m] = Row(u, wr)]

\* create_meeting: one statement; a second live row is refused (409).
CreateMeeting(u, wr) ==
    /\ Live = {}
    /\ \E m \in Unused :
        /\ \A n \in Unused : m <= n
        /\ Insert(m, u, wr)
    /\ UNCHANGED <<participants, lock, request, listening, inbox, cut>>

-----------------------------------------------------------------------------
(* The first statement of every other handler: read the meeting's row.     *)

\* What the handler does after it has read row m: the next statement, or
\* its answer.
AfterLookup(q, m) ==
    LET row  == meetings[m]
        host == row.creator_id = q.user
    IN CASE q.op = "join" /\ host ->
                IF row.state = "active" THEN "upsert_host" ELSE "activate"
         [] q.op = "join" /\ ~host ->
                IF row.state = "active" THEN "join_begin"
                                        ELSE "waiting_for_meeting"
         [] q.op = "status" ->
                IF row.state = "ended" THEN "error" ELSE "get_status"
         [] q.op = "leave" -> "leave"
         [] q.op \in {"waiting", "admit", "admit_all", "reject"} ->
                "require_host"
         [] q.op = "end" ->
                IF ~host THEN "error"
                ELSE IF row.state = "ended" THEN "ended" ELSE "end_meeting"
         [] q.op = "delete" -> IF host THEN "soft_delete" ELSE "error"

LookupFails(r) ==
    /\ At(r, "lookup")
    /\ Live = {}
    /\ IF request[r].op = "join" THEN Goto(r, "create")
                                ELSE Answer(r, "not_found")
    /\ UNCHANGED <<dbVars, listening, inbox, cut>>

Lookup(r) ==
    /\ At(r, "lookup")
    /\ \E m \in Live :
        LET next == AfterLookup(request[r], m)
        IN IF next \in Pc
           THEN request' = [request EXCEPT ![r].m = m, ![r].pc = next]
           ELSE Answer(r, next)
    /\ UNCHANGED <<dbVars, listening, inbox, cut>>

-----------------------------------------------------------------------------
(* join_meeting                                                            *)

\* Mutant: the index does not make room names unique.
Create_NoIndex(r) ==
    /\ At(r, "create")
    /\ \E m \in Unused :
        /\ Insert(m, request[r].user, TRUE)
        /\ request' = [request EXCEPT ![r].m = m, ![r].pc = "activate"]
    /\ UNCHANGED <<participants, lock, listening, inbox, cut>>

\* db_meetings::create for a room without a meeting.  If another request
\* was faster the unique index refuses the row and the join fails (as it
\* does here when the bound on rows is reached).
Create(r) ==
    /\ At(r, "create")
    /\ IF Live = {} /\ Unused # {}
       THEN \E m \in Unused :
              /\ \A n \in Unused : m <= n
              /\ Insert(m, request[r].user, TRUE)
              /\ request' = [request EXCEPT ![r].m = m, ![r].pc = "activate"]
       ELSE Answer(r, "error") /\ UNCHANGED meetings
    /\ UNCHANGED <<participants, lock, listening, inbox, cut>>

Activate(r) ==
    LET m == request[r].m IN
    /\ At(r, "activate")
    /\ Unlocked(m)
    /\ meetings' = [meetings EXCEPT ![m].state = "active"]
    /\ Goto(r, "publish_activated")
    /\ UNCHANGED <<participants, lock, listening, inbox, cut>>

PublishActivated(r) ==
    /\ At(r, "publish_activated")
    /\ Publish("MEETING_ACTIVATED", User)
    /\ Goto(r, "upsert_host")
    /\ UNCHANGED <<dbVars, listening, cut>>

UpsertHost(r) ==
    /\ At(r, "upsert_host")
    /\ participants' = [participants EXCEPT ![request[r].m][request[r].user] =
                            [status |-> "admitted", is_host |-> TRUE]]
    /\ Answer(r, "host")
    /\ UNCHANGED <<meetings, lock, listening, inbox, cut>>

\* Mutant: the setting is read without FOR UPDATE.
JoinBegin_NoLock(r) ==
    LET m == request[r].m IN
    /\ At(r, "join_begin")
    /\ request' = [request EXCEPT ![r].pc = "join_commit",
                      ![r].seen = meetings[m].waiting_room_enabled]
    /\ UNCHANGED <<dbVars, listening, inbox, cut>>

\* join_attendee: SELECT waiting_room_enabled ... FOR UPDATE.
JoinBegin(r) ==
    LET m == request[r].m IN
    /\ At(r, "join_begin")
    /\ Unlocked(m)
    /\ lock' = [lock EXCEPT ![m] = r]
    /\ request' = [request EXCEPT ![r].pc = "join_commit",
                      ![r].seen = meetings[m].waiting_room_enabled]
    /\ UNCHANGED <<meetings, participants, listening, inbox, cut>>

\* join_attendee: INSERT ... ON CONFLICT DO UPDATE, and COMMIT.
JoinCommit(r) ==
    LET m == request[r].m IN
    /\ At(r, "join_commit")
    /\ lock' = [lock EXCEPT ![m] = NoRequest]
    /\ IF request[r].seen
       THEN /\ SetStatus(m, {request[r].user}, "waiting")
            /\ Goto(r, "publish_waiting")
       ELSE /\ SetStatus(m, {request[r].user}, "admitted")
            /\ Answer(r, "admitted")
    /\ UNCHANGED <<meetings, listening, inbox, cut>>

PublishWaiting(r) ==
    /\ At(r, "publish_waiting")
    /\ Publish("WAITING_ROOM_UPDATED", User)
    /\ Answer(r, "waiting")
    /\ UNCHANGED <<dbVars, listening, cut>>

-----------------------------------------------------------------------------
(* get_my_status, leave_meeting, end_meeting_handler, delete_meeting       *)

GetStatus(r) ==
    LET status == StatusOf(request[r].m, request[r].user) IN
    /\ At(r, "get_status")
    /\ Answer(r, IF status = "none" THEN "error" ELSE status)
    /\ UNCHANGED <<dbVars, listening, inbox, cut>>

\* Mutant: the host's departure does not end the meeting.
Leave_HostToo(r) ==
    LET m == request[r].m IN
    /\ At(r, "leave")
    /\ IF StatusOf(m, request[r].user) \in {"admitted", "waiting"}
       THEN /\ SetStatus(m, {request[r].user}, "left")
            /\ Goto(r, "count_admitted")
       ELSE Answer(r, "error") /\ UNCHANGED participants
    /\ UNCHANGED <<meetings, lock, listening, inbox, cut>>

\* db_participants::leave; then the host ends the meeting, others count.
Leave(r) ==
    LET m == request[r].m IN
    /\ At(r, "leave")
    /\ IF StatusOf(m, request[r].user) \in {"admitted", "waiting"}
       THEN /\ SetStatus(m, {request[r].user}, "left")
            /\ Goto(r, IF IsHost(r) THEN "end_meeting" ELSE "count_admitted")
       ELSE Answer(r, "error") /\ UNCHANGED participants
    /\ UNCHANGED <<meetings, lock, listening, inbox, cut>>

CountAdmitted(r) ==
    /\ At(r, "count_admitted")
    /\ IF In(request[r].m, "admitted") = {} THEN Goto(r, "end_meeting")
                                            ELSE Answer(r, "left")
    /\ UNCHANGED <<dbVars, listening, inbox, cut>>

EndMeeting(r) ==
    LET m == request[r].m IN
    /\ At(r, "end_meeting")
    /\ Unlocked(m)
    /\ meetings' = [meetings EXCEPT ![m].state = "ended"]
    /\ Answer(r, IF request[r].op = "leave" THEN "left" ELSE "ended")
    /\ UNCHANGED <<participants, lock, listening, inbox, cut>>

\* soft_delete names the room and the creator, not the row that was read.
SoftDelete(r) ==
    LET mine == {m \in Live : meetings[m].creator_id = request[r].user} IN
    /\ At(r, "soft_delete")
    /\ \A m \in mine : Unlocked(m)
    /\ meetings' = [m \in Meeting |->
           IF m \in mine THEN [meetings[m] EXCEPT !.deleted = TRUE]
                         ELSE meetings[m]]
    /\ Answer(r, "ok")
    /\ UNCHANGED <<participants, lock, listening, inbox, cut>>

-----------------------------------------------------------------------------
(* get_waiting_room, admit_participant, admit_all, reject_participant      *)

RequireHost(r) ==
    LET row == participants[request[r].m][request[r].user] IN
    /\ At(r, "require_host")
    /\ IF row.status = "admitted" /\ row.is_host THEN Goto(r, "decide")
                                                 ELSE Answer(r, "error")
    /\ UNCHANGED <<dbVars, listening, inbox, cut>>

\* get_waiting: the list is the answer.
GetWaiting(r) ==
    /\ At(r, "decide")
    /\ request[r].op = "waiting"
    /\ request' = [request EXCEPT ![r] =
           [Idle EXCEPT !.op = "waiting", !.user = request[r].user,
                        !.pc = "done", !.reply = "ok",
                        !.target = In(request[r].m, "waiting")]]
    /\ UNCHANGED <<dbVars, listening, inbox, cut>>

\* Mutant: UPDATE ... AND status <> 'admitted'.
Decided_Any(q) ==
    {u \in User : /\ q.op = "admit_all" \/ u \in q.target
                  /\ StatusOf(q.m, u) \notin {"none", "admitted"}}

\* The rows a decision updates: WHERE ... AND status = 'waiting'.
Decided(q) ==
    IF q.op = "admit_all" THEN In(q.m, "waiting")
                          ELSE q.target \cap In(q.m, "waiting")

\* admit, admit_all and reject: one UPDATE; its rows are remembered for
\* the notification.
Decide(r) ==
    LET q  == request[r]
        us == Decided(q)
    IN
    /\ At(r, "decide")
    /\ q.op \in {"admit", "admit_all", "reject"}
    /\ SetStatus(q.m, us, IF q.op = "reject" THEN "rejected" ELSE "admitted")
    /\ IF us = {} /\ q.op # "admit_all"
       THEN Answer(r, "error")
       ELSE request' = [request EXCEPT ![r].target = us,
                                       ![r].pc = "publish_decision"]
    /\ UNCHANGED <<meetings, lock, listening, inbox, cut>>

PublishDecision(r) ==
    /\ At(r, "publish_decision")
    /\ Publish(IF request[r].op = "reject" THEN "PARTICIPANT_REJECTED"
                                           ELSE "PARTICIPANT_ADMITTED",
               request[r].target)
    /\ Answer(r, "ok")
    /\ UNCHANGED <<dbVars, listening, cut>>

-----------------------------------------------------------------------------
(* update_meeting: update_waiting_room_enabled                             *)

UpdateBegin(r) ==
    LET mine == {m \in Live : meetings[m].creator_id = request[r].user} IN
    /\ At(r, "update_begin")
    /\ \A m \in mine : Unlocked(m)
    /\ IF mine = {} THEN Answer(r, "error") /\ UNCHANGED lock
       ELSE \E m \in mine :
              /\ lock' = [lock EXCEPT ![m] = r]
              /\ request' = [request EXCEPT ![r].m = m,
                                            ![r].pc = "update_commit"]
    /\ UNCHANGED <<meetings, participants, listening, inbox, cut>>

\* Disabling the waiting room admits everybody in it; nobody is notified.
UpdateCommit(r) ==
    LET q == request[r] IN
    /\ At(r, "update_commit")
    /\ lock' = [lock EXCEPT ![q.m] = NoRequest]
    /\ meetings' = [meetings EXCEPT ![q.m].waiting_room_enabled =
                        (q.op = "close")]
    /\ IF q.op = "open" THEN SetStatus(q.m, In(q.m, "waiting"), "admitted")
                        ELSE UNCHANGED participants
    /\ Answer(r, "ok")
    /\ UNCHANGED <<listening, inbox, cut>>

-----------------------------------------------------------------------------
\* The statements of a host's request that belong together: activating the
\* meeting and entering it, leaving it and ending it.
Halfway(r, m) ==
    /\ request[r].m = m
    /\ request[r].user = meetings[m].creator_id
    /\ request[r].pc \in {"publish_activated", "upsert_host", "end_meeting"}

\* A handler is cut off at an await; its transaction is rolled back.
CutOff(r) ==
    LET m == request[r].m IN
    /\ MayFail
    /\ request[r].pc \notin {"idle", "done"}
    /\ lock' = [n \in Meeting |-> IF lock[n] = r THEN NoRequest ELSE lock[n]]
    /\ cut' = IF m \in Meeting /\ Halfway(r, m) THEN cut \cup {m} ELSE cut
    /\ Answer(r, "error")
    /\ UNCHANGED <<meetings, participants, listening, inbox>>

Step(r) ==
    \/ LookupFails(r) \/ Lookup(r)
    \/ Create(r) \/ Activate(r) \/ PublishActivated(r) \/ UpsertHost(r)
    \/ JoinBegin(r) \/ JoinCommit(r) \/ PublishWaiting(r)
    \/ GetStatus(r) \/ Leave(r) \/ CountAdmitted(r) \/ EndMeeting(r)
    \/ SoftDelete(r)
    \/ RequireHost(r) \/ GetWaiting(r) \/ Decide(r) \/ PublishDecision(r)
    \/ UpdateBegin(r) \/ UpdateCommit(r)

\* Any user may send any request at any time.
Next ==
    \/ \E u \in User, wr \in BOOLEAN : CreateMeeting(u, wr)
    \/ \E r \in Request, u \in User :
        \/ \E op \in Offered \ {"admit", "reject"} : Submit(r, u, op, {})
        \/ \E op \in Offered \cap {"admit", "reject"}, t \in User :
               Submit(r, u, op, {t})
    \/ \E r \in Request : Step(r) \/ CutOff(r)

Spec == Init /\ [][Next]_vars

-----------------------------------------------------------------------------
\* Rows and requests have their types.
TypeOK ==
    /\ meetings \in [Meeting -> [state: {"none", "idle", "active", "ended"},
                                 creator_id: User \cup {NoUser},
                                 waiting_room_enabled: BOOLEAN,
                                 deleted: BOOLEAN]]
    /\ participants \in [Meeting -> [User -> [status: Status,
                                              is_host: BOOLEAN]]]
    /\ lock \in [Meeting -> Request \cup {NoRequest}]
    /\ request \in [Request -> [op: Ops, user: User \cup {NoUser},
                                target: SUBSET User, pc: Pc,
                                m: Meeting \cup {NoMeeting},
                                seen: BOOLEAN, reply: Reply]]
    /\ listening \subseteq User \X Event
    /\ inbox \subseteq User \X Event
    /\ cut \subseteq Meeting

\* Two users who open a room at the same time do not get a meeting each: at
\* most one row of the room is live (join_meeting creates what it did not
\* find, long after it looked).
OneLiveMeeting == \A m, n \in Live : m = n

\* The rows stay sound however the statements of two requests interleave, and
\* the room has one live meeting at most (the unique index behind
\* create_with_options).
MeetingsSound ==
    /\ TypeOK
    /\ OneLiveMeeting

\* Nobody waits where there is no waiting room: an attendee whose join saw
\* the waiting room enabled is admitted by the request that disables it.
NobodyWaitsOutside ==
    \A m \in Live :
        ~meetings[m].waiting_room_enabled => In(m, "waiting") = {}

\* An active meeting has its host in it, whatever the host's requests (from
\* several tabs) and the attendees' departures do to each other, unless one
\* of the host's requests is between, or was cut off between, its two
\* statements.
ActiveHasHost ==
    \A m \in Live :
        meetings[m].state = "active" =>
            \/ StatusOf(m, meetings[m].creator_id) = "admitted"
            \/ \E r \in Request : Halfway(r, m)
            \/ m \in cut

\* Who was rejected or has left comes back by a join of his own only; no
\* decision of the host, taken on an old list, brings him in or overrides an
\* earlier one.
DecisionsAreFinal ==
    [][\A m \in Meeting, u \in User :
        StatusOf(m, u) \in {"rejected", "left"}
            /\ StatusOf(m, u)' # StatusOf(m, u) =>
                \E r \in Request : /\ request[r].user = u
                                   /\ request[r].op = "join"
                                   /\ request[r].m = m
                                   /\ request'[r] # request[r]]_vars
=============================================================================
