---------------------------- MODULE MeetingPage ----------------------------
(***************************************************************************)
(* The meeting page of the browser client on top of MeetingApi:            *)
(* dioxus-ui/src/pages/meeting.rs, components/waiting_room.rs,             *)
(* components/host_controls.rs, and the pre-join screen and the hang-up    *)
(* button of components/attendants.rs.                                     *)
(*                                                                         *)
(* Every user has one page.  While it waits it listens through observer    *)
(* connections to a relay: one of the page (MEETING_ACTIVATED), and in the *)
(* waiting room one of the WaitingRoom component (PARTICIPANT_ADMITTED and *)
(* _REJECTED), which also polls its status.  A published event reaches who *)
(* is connected at that moment.  An admitted page shows a pre-join screen  *)
(* until its user goes on; only then is it connected to the call.  From    *)
(* then on the host's page fetches the list of those who wait when         *)
(* WAITING_ROOM_UPDATED arrives and on a timer.                            *)
(*                                                                         *)
(* A page has two requests at most in flight: <<u, "page">> for what the   *)
(* user or MEETING_ACTIVATED started, <<u, "poll">> for status and list; a *)
(* callback that needs one in use waits for it.                            *)
(***************************************************************************)
EXTENDS MeetingApi, FiniteSets

CONSTANTS
    Host,     \* bound: who creates meetings and uses an owner's menu
    Leaver    \* bound: who leaves the page again

VARIABLES
    page,           \* meeting_status
    is_owner,       \* Admitted { is_host, .. }
    call,           \* "prejoin" screen, "joined" or "hung_up"
    observer,       \* the page's observer connection
    room_observer,  \* the WaitingRoom's observer connection
    waiting_list    \* HostControls' `waiting'

pageVars == <<page, is_owner, call, observer, room_observer,
              waiting_list>>
allVars  == <<vars, pageVars>>

PageReq(u) == <<u, "page">>
PollReq(u) == <<u, "poll">>

ASSUME PageAssumption ==
    /\ Host \subseteq User
    /\ Leaver \subseteq User
    /\ Request = User \X {"page", "poll"}

PageStatus == {"closed", "joining", "waiting_for_meeting", "waiting",
               "admitted", "rejected", "error"}

Free(r) == At(r, "idle")

Answered(r, op) == At(r, "done") /\ request[r].op = op

Release(r) == request' = [request EXCEPT ![r] = Idle]

\* What a user's page listens to with these observer connections and, once
\* it has joined, that of the call.
Hears(u, o, ro, joined) ==
    {<<u, e>> : e \in {e \in Event :
        CASE e = "MEETING_ACTIVATED"    -> o = "on"
          [] e = "WAITING_ROOM_UPDATED" -> joined
          [] OTHER                      -> ro = "on"}}

\* The page listens to this and no longer to the rest: what the closed
\* connections had still to deliver is lost.
Listen(u, hears) ==
    /\ listening' = {l \in listening : l[1] # u} \cup hears
    /\ inbox' = {l \in inbox : l[1] # u \/ l \in hears}

\* The page changes to status p, with these observer connections.  One that
\* is not admitted (any more) has no call and no HostControls.
Show(u, p, o, ro) ==
    LET c == IF p = "admitted" THEN call[u] ELSE "prejoin"
    IN /\ page' = [page EXCEPT ![u] = p]
       /\ observer' = [observer EXCEPT ![u] = o]
       /\ room_observer' = [room_observer EXCEPT ![u] = ro]
       /\ call' = [call EXCEPT ![u] = c]
       /\ waiting_list' =
              [waiting_list EXCEPT ![u] = IF c = "joined" THEN @ ELSE {}]
       /\ Listen(u, Hears(u, o, ro, c = "joined"))

\* The token of the observer connection is set: a connection in use stays.
Observe(state) == IF state = "off" THEN "connecting" ELSE state

PageInit ==
    /\ Init
    /\ page = [u \in User |-> "closed"]
    /\ is_owner = [u \in User |-> FALSE]
    /\ call = [u \in User |-> "prejoin"]
    /\ observer = [u \in User |-> "off"]
    /\ room_observer = [u \in User |-> "off"]
    /\ waiting_list = [u \in User |-> {}]

-----------------------------------------------------------------------------
(* Joining                                                                 *)

\* The page opens and joins (auto-join).  Others than the hosts come when
\* there is a meeting.
Open(u) ==
    /\ page[u] = "closed"
    /\ u \in Host \/ Live # {}
    /\ Free(PageReq(u)) /\ Free(PollReq(u))
    /\ Submit(PageReq(u), u, "join", {})
    /\ page' = [page EXCEPT ![u] = "joining"]
    /\ UNCHANGED <<is_owner, call, observer, room_observer,
                   waiting_list>>

Enter(u, owner) ==
    /\ Show(u, "admitted", "off", "off")
    /\ is_owner' = [is_owner EXCEPT ![u] = owner]

ShowStatus(u, p, o, ro) == Show(u, p, o, ro) /\ UNCHANGED is_owner

\* Mutant: the page takes the answer for its status.
JoinAnswered_Raw(u) ==
    LET r == PageReq(u) IN
    /\ page[u] = "joining"
    /\ Answered(r, "join")
    /\ ShowStatus(u, request[r].reply, "off", "off")
    /\ Release(r)
    /\ UNCHANGED <<dbVars, cut>>

\* on_join_meeting: the answer to the page's join.
JoinAnswered(u) ==
    LET r == PageReq(u) IN
    /\ page[u] = "joining"
    /\ Answered(r, "join")
    /\ CASE request[r].reply \in {"admitted", "host"} ->
                Enter(u, request[r].reply = "host")
         [] request[r].reply = "waiting_for_meeting" ->
                ShowStatus(u, "waiting_for_meeting", "connecting", "off")
         [] request[r].reply = "waiting" ->
                ShowStatus(u, "waiting", "connecting", "connecting")
         [] OTHER -> ShowStatus(u, "error", "off", "off")
    /\ Release(r)
    /\ UNCHANGED <<dbVars, cut>>

\* on_meeting_activated: the observer token is cleared, which closes the
\* page's observer connection, and the page joins again.
MeetingActivated(u) ==
    LET r == PageReq(u) IN
    /\ <<u, "MEETING_ACTIVATED">> \in inbox
    /\ Free(r)
    /\ ShowStatus(u, page[u], "off", room_observer[u])
    /\ request' = [request EXCEPT ![r] =
           [Idle EXCEPT !.op = "join", !.user = u, !.pc = "lookup"]]
    /\ UNCHANGED <<dbVars, cut>>

\* The answer to that join, whatever the page shows by now.
RejoinAnswered(u) ==
    LET r == PageReq(u) IN
    /\ page[u] \notin {"closed", "joining"}
    /\ Answered(r, "join")
    /\ CASE request[r].reply \in {"admitted", "host"} ->
                Enter(u, request[r].reply = "host")
         [] request[r].reply = "waiting" ->
                ShowStatus(u, "waiting", "connecting",
                           Observe(room_observer[u]))
         [] OTHER -> ShowStatus(u, "error", "off", "off")
    /\ Release(r)
    /\ UNCHANGED <<dbVars, cut>>

-----------------------------------------------------------------------------
(* The waiting room                                                        *)

\* The page's observer is connected and subscribed.
ObserverConnected(u) ==
    /\ observer[u] = "connecting"
    /\ ShowStatus(u, page[u], "on", room_observer[u])
    /\ UNCHANGED <<dbVars, request, cut>>

\* on_connected of the WaitingRoom's observer: one poll at once.
RoomObserverConnected(u) ==
    LET r == PollReq(u) IN
    /\ room_observer[u] = "connecting"
    /\ Free(r)
    /\ ShowStatus(u, page[u], observer[u], "on")
    /\ request' = [request EXCEPT ![r] =
           [Idle EXCEPT !.op = "status", !.user = u, !.pc = "lookup"]]
    /\ UNCHANGED <<dbVars, cut>>

\* Mutant: only the push brings an attendee in.
Poll_Never(u) == FALSE /\ UNCHANGED allVars

\* The first poll on mount and the poll of every POLL_INTERVAL_MS.
Poll(u) ==
    /\ page[u] = "waiting"
    /\ Free(PollReq(u))
    /\ Submit(PollReq(u), u, "status", {})
    /\ UNCHANGED pageVars

\* on_participant_admitted fetches the room token with a status request,
\* on_participant_rejected shows the rejection.
DecisionPush(u, event) ==
    LET r == PollReq(u) IN
    /\ <<u, event>> \in inbox
    /\ event \in {"PARTICIPANT_ADMITTED", "PARTICIPANT_REJECTED"}
    /\ IF event = "PARTICIPANT_ADMITTED"
       THEN /\ Free(r)
            /\ inbox' = inbox \ {<<u, event>>}
            /\ request' = [request EXCEPT ![r] =
                   [Idle EXCEPT !.op = "status", !.user = u, !.pc = "lookup"]]
            /\ UNCHANGED <<listening, pageVars>>
       ELSE ShowStatus(u, "rejected", "off", "off") /\ UNCHANGED request
    /\ UNCHANGED <<dbVars, cut>>

\* The answer to a status request: on_admitted and on_rejected belong to
\* the page and are called whatever it shows.  (After an admission push a
\* rejection is an error message first, and on_rejected by the next poll.)
StatusAnswered(u) ==
    LET r == PollReq(u) IN
    /\ page[u] # "closed"
    /\ Answered(r, "status")
    /\ CASE request[r].reply = "admitted" -> Enter(u, FALSE)
         [] request[r].reply = "rejected" ->
                ShowStatus(u, "rejected", "off", "off")
         [] OTHER -> UNCHANGED <<pageVars, listening, inbox>>
    /\ Release(r)
    /\ UNCHANGED <<dbVars, cut>>

-----------------------------------------------------------------------------
(* The pre-join screen and the host's controls                             *)

\* meeting_joined.
Joined(u) == call[u] = "joined"

\* The pre-join screen is left for the call, whose connection is opened:
\* the user clicked and granted the devices, or confirmed the warning that
\* there are none.  Who came from the waiting room is asked for the devices
\* without a click, everybody when the window gets the focus.  Once the
\* call was connected (hung_up) the devices do not bring it back.
JoinCall(u) ==
    /\ page[u] = "admitted" /\ call[u] = "prejoin"
    /\ call' = [call EXCEPT ![u] = "joined"]
    /\ Listen(u, Hears(u, observer[u], room_observer[u], TRUE))
    /\ UNCHANGED <<dbVars, request, cut, page, is_owner, observer,
                   room_observer, waiting_list>>

\* Mutant: the list is only fetched after a decision.
FetchWaiting_Never(u) == FALSE /\ UNCHANGED allVars

\* HostControls is mounted with the call: the list is fetched then, every
\* POLL_INTERVAL_MS, and when WAITING_ROOM_UPDATED arrives.
FetchWaiting(u) ==
    /\ Joined(u) /\ is_owner[u]
    /\ Free(PollReq(u))
    /\ request' = [request EXCEPT ![PollReq(u)] =
           [Idle EXCEPT !.op = "waiting", !.user = u, !.pc = "lookup"]]
    /\ inbox' = inbox \ {<<u, "WAITING_ROOM_UPDATED">>}
    /\ UNCHANGED <<dbVars, listening, cut, pageVars>>

WaitingAnswered(u) ==
    LET r == PollReq(u) IN
    /\ Joined(u)
    /\ Answered(r, "waiting")
    /\ waiting_list' = [waiting_list EXCEPT ![u] =
           CASE request[r].reply = "ok"        -> request[r].target
             [] request[r].reply = "not_found" -> {}
             [] OTHER                          -> @]
    /\ Release(r)
    /\ UNCHANGED <<dbVars, listening, inbox, cut, page, is_owner,
                   call, observer, room_observer>>

\* Admit, Reject, and for more than one Admit all: taken off the list at
\* once.
ClickDecision(u, op, us) ==
    /\ Joined(u) /\ is_owner[u]
    /\ IF op = "admit_all" THEN us = waiting_list[u] /\ Cardinality(us) > 1
                           ELSE Cardinality(us) = 1
    /\ Free(PageReq(u))
    /\ Submit(PageReq(u), u, op, IF op = "admit_all" THEN {} ELSE us)
    /\ waiting_list' = [waiting_list EXCEPT ![u] = @ \ us]
    /\ UNCHANGED <<page, is_owner, call, observer, room_observer>>

\* The answer: the list is fetched again.
DecisionAnswered(u) ==
    LET r == PageReq(u) IN
    /\ Joined(u)
    /\ At(r, "done") /\ request[r].op \in {"admit", "admit_all", "reject"}
    /\ Free(PollReq(u))
    /\ request' = [request EXCEPT ![r] = Idle, ![PollReq(u)] =
           [Idle EXCEPT !.op = "waiting", !.user = u, !.pc = "lookup"]]
    /\ UNCHANGED <<dbVars, listening, inbox, cut, pageVars>>

\* The meeting settings and the list of meetings.
HostMenu(u, op) ==
    /\ u \in Host
    /\ Free(PageReq(u))
    /\ op \in Offered \cap {"open", "close", "end", "delete"}
    /\ \E m \in Live : meetings[m].creator_id = u
    /\ Submit(PageReq(u), u, op, {})
    /\ UNCHANGED pageVars

MenuAnswered(u) ==
    LET r == PageReq(u) IN
    /\ At(r, "done") /\ request[r].op \in {"open", "close", "end", "delete"}
    /\ Release(r)
    /\ UNCHANGED <<dbVars, listening, inbox, cut, pageVars>>

-----------------------------------------------------------------------------
(* Leaving                                                                 *)

\* "Leave waiting room".
ClickLeave(u) ==
    /\ u \in Leaver
    /\ page[u] = "waiting"
    /\ Free(PageReq(u))
    /\ Submit(PageReq(u), u, "leave", {})
    /\ UNCHANGED pageVars

\* The hang-up button: the call is disconnected and the pre-join screen
\* shown until the answer is there.
HangUp(u) ==
    LET r == PageReq(u) IN
    /\ u \in Leaver
    /\ Joined(u)
    /\ Free(r)
    /\ request' = [request EXCEPT ![r] =
           [Idle EXCEPT !.op = "leave", !.user = u, !.pc = "lookup"]]
    /\ call' = [call EXCEPT ![u] = "hung_up"]
    /\ waiting_list' = [waiting_list EXCEPT ![u] = {}]
    /\ Listen(u, Hears(u, observer[u], room_observer[u], FALSE))
    /\ UNCHANGED <<dbVars, cut, page, is_owner, observer, room_observer>>

Close(u) ==
    /\ Show(u, "closed", "off", "off")
    /\ is_owner' = [is_owner EXCEPT ![u] = FALSE]

\* Whatever the answer, the browser goes to the home page.
LeaveAnswered(u) ==
    /\ Answered(PageReq(u), "leave")
    /\ Release(PageReq(u))
    /\ Close(u)
    /\ UNCHANGED <<dbVars, cut>>

\* The other ways out: the buttons of the pages that do not leave the
\* meeting, and closing the tab.
GoAway(u) ==
    /\ u \in Leaver
    /\ page[u] # "closed"
    /\ Close(u)
    /\ UNCHANGED <<dbVars, request, cut>>

\* An answer nobody reads any more: the page is gone, or HostControls is.
Unread(u, r) ==
    /\ At(r, "done")
    /\ \/ /\ page[u] = "closed"
          /\ request[r].op \notin {"leave", "open", "close", "end", "delete"}
       \/ /\ ~Joined(u)
          /\ request[r].op \in {"waiting", "admit", "admit_all", "reject"}
    /\ Release(r)
    /\ UNCHANGED <<dbVars, listening, inbox, cut, pageVars>>

-----------------------------------------------------------------------------
ServerStep(r) == (Step(r) \/ CutOff(r)) /\ UNCHANGED pageVars

CreateByHost(u) ==
    /\ u \in Host
    /\ CreateMeeting(u, TRUE)
    /\ UNCHANGED pageVars

Handler(u) ==
    \/ JoinAnswered(u) \/ RejoinAnswered(u) \/ StatusAnswered(u)
    \/ WaitingAnswered(u) \/ DecisionAnswered(u) \/ MenuAnswered(u)
    \/ LeaveAnswered(u)
    \/ Unread(u, PageReq(u)) \/ Unread(u, PollReq(u))

PageNext ==
    \/ \E r \in Request : ServerStep(r)
    \/ \E u \in User :
        \/ CreateByHost(u) \/ Open(u) \/ Handler(u)
        \/ MeetingActivated(u) \/ \E event \in Event : DecisionPush(u, event)
        \/ ObserverConnected(u) \/ RoomObserverConnected(u)
        \/ Poll(u) \/ JoinCall(u) \/ FetchWaiting(u)
        \/ \E op \in Offered \cap {"admit", "reject", "admit_all"} :
               \E us \in SUBSET waiting_list[u] : ClickDecision(u, op, us)
        \/ \E op \in {"open", "close", "end", "delete"} : HostMenu(u, op)
        \/ ClickLeave(u) \/ HangUp(u) \/ GoAway(u)

PageSpec == PageInit /\ [][PageNext]_allVars

\* The server executes what it has started (the database grants a row's
\* lock to those who wait for it in their order, hence SF), answers are
\* handled, timers tick.  Users need do nothing, not even leave the pre-join
\* screen, and the connections need neither come up nor deliver.
PageFairSpec ==
    /\ PageSpec
    /\ \A u \in User :
        /\ SF_allVars(Step(PageReq(u)) /\ UNCHANGED pageVars)
        /\ WF_allVars(Step(PollReq(u)) /\ UNCHANGED pageVars)
        /\ WF_allVars(Handler(u))
        /\ WF_allVars(Poll(u) \/ FetchWaiting(u))

-----------------------------------------------------------------------------
\* The pages, over the rows and requests of MeetingApi, have their types: an
\* answer the page does not know never becomes its status.
PageTypeOK ==
    /\ TypeOK
    /\ page \in [User -> PageStatus]
    /\ is_owner \in [User -> BOOLEAN]
    /\ call \in [User -> {"prejoin", "joined", "hung_up"}]
    /\ observer \in [User -> {"off", "connecting", "on"}]
    /\ room_observer \in [User -> {"off", "connecting", "on"}]
    /\ waiting_list \in [User -> SUBSET User]

Active(m) == m \in Live /\ meetings[m].state = "active"

\* Whoever has been admitted gets in, and who has been rejected is told,
\* though the push may be lost and disabling the waiting room sends none:
\* unless the status changes again or the meeting ends.
DecisionReachesPage ==
    \A u \in User \ Host :
        LET unaware == /\ page[u] = "waiting"
                       /\ \E m \in Meeting :
                           Active(m) /\ StatusOf(m, u) \in {"admitted",
                                                            "rejected"}
        IN unaware ~> ~unaware

\* A host who has left the pre-join screen for the call gets to see who
\* waits, those too who came before and whose WAITING_ROOM_UPDATED nobody
\* was connected to hear (HostControls' fetch on mount and its timer).
HostSeesWaiting ==
    \A h \in Host, u \in User \ Host :
        LET unseen == /\ Joined(h) /\ is_owner[h]
                      /\ u \notin waiting_list[h]
                      /\ \E m \in Meeting :
                          /\ Active(m)
                          /\ participants[m][h] = [status |-> "admitted",
                                                   is_host |-> TRUE]
                          /\ StatusOf(m, u) = "waiting"
        IN unseen ~> ~unseen

=============================================================================
