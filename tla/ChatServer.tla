----------------------------- MODULE ChatServer -----------------------------
(***************************************************************************)
(* Room membership, connection activation and deferred departures of the   *)
(* relay server: actix-api/src/actors/chat_server.rs, driven by the        *)
(* session actors of actix-api/src/actors/transports/.                     *)
(*                                                                         *)
(* A session is one transport connection of one user.  Its actor sends the *)
(* ChatServer actor, in this order, Connect, JoinRoom, at most one         *)
(* ActivateConnection, any number of ClientMessages and one Disconnect;    *)
(* `phase' is how far the server has got through them.  The actor waits    *)
(* for the answers to Connect and JoinRoom before it does anything else,   *)
(* stopping included.  Messages of different sessions interleave freely.   *)
(* Every process (Server) has a ChatServer of its own; they share only     *)
(* NATS, so the maps below are those of all servers together, told apart   *)
(* by the server a session is on.                                          *)
(***************************************************************************)
EXTENDS Naturals

CONSTANTS
    Session,         \* session ids; each is used by one connection only
    Server,          \* relay processes, each with its own ChatServer actor
    Room,            \* room names
    User,            \* user ids
    SYSTEM_USER_ID,  \* the reserved user id that may not join
    NoSession,       \* stands for an absent entry of a map
    Identity,        \* the (server, room, user, observer) a session may have
    JoinMayOvertake  \* TRUE: JoinRoom may be handled before Connect

ASSUME IdentityAssumption ==
    Identity \subseteq
        [server: Server, room: Room, user: User, observer: BOOLEAN]

ASSUME NoSessionAssumption == NoSession \notin Session

ASSUME OvertakeAssumption == JoinMayOvertake \in BOOLEAN

VARIABLES
    who,                      \* the identity a session connected with
    phase,                    \* messages of the session handled so far
    sessions,                 \* sessions with a registered recipient
    connection_states,        \* "None" (no entry), "Testing" or "Active"
    active_subs,              \* sessions with a running subscription task
    room_members,             \* sessions listed in the room they are in
    pending_departures,       \* deferred departure of each (server,room,user)
    suppress_join_broadcast,  \* sessions that must not be announced
    timer,                    \* notify_later of a session's departure
    existing,                 \* members a joiner was told of, directly
    reconnected,              \* the old session a joiner took over from
    meeting_started,          \* joins that broadcast MEETING_STARTED
    activated,                \* sessions that have been Active
    joined,                   \* sessions broadcast as PARTICIPANT_JOINED
    left,                     \* sessions broadcast as PARTICIPANT_LEFT
    published                 \* sessions that published media to the room

serverVars == <<sessions, connection_states, active_subs, room_members,
                pending_departures, suppress_join_broadcast, timer>>
eventVars  == <<existing, reconnected, meeting_started, activated, joined,
                left, published>>
vars == <<who, phase, serverVars, eventVars>>

Phase == {"idle", "connected", "joined", "activated", "refused", "ended"}

Key == Server \X Room \X User

PendingDepartureState ==
    [old_session: Session \cup {NoSession}, was_active: BOOLEAN]

NoPending == [old_session |-> NoSession, was_active |-> FALSE]

KeyOf(s) == <<who[s].server, who[s].room, who[s].user>>

Observer(s) == who[s].observer

SamePlace(s, t) == who[s].server = who[t].server /\ who[s].room = who[t].room

\* A participant's connection is up: it has joined and not disconnected.
Present(s) == phase[s] \in {"joined", "activated"} /\ ~Observer(s)

-----------------------------------------------------------------------------
Init ==
    /\ who \in [Session -> Identity]
    /\ phase = [s \in Session |-> "idle"]
    /\ sessions = {}
    /\ connection_states = [s \in Session |-> "None"]
    /\ active_subs = {}
    /\ room_members = {}
    /\ pending_departures = [k \in Key |-> NoPending]
    /\ suppress_join_broadcast = {}
    /\ timer = [s \in Session |-> "none"]
    /\ existing = [s \in Session |-> {}]
    /\ reconnected = [s \in Session |-> NoSession]
    /\ meeting_started = {}
    /\ activated = {}
    /\ joined = {}
    /\ left = {}
    /\ published = {}

-----------------------------------------------------------------------------
(* Handlers of the ChatServer actor.                                       *)

\* Handler<Connect>: the session's recipient is stored, in state Testing.
Connect(s) ==
    /\ phase[s] = "idle"
    /\ phase' = [phase EXCEPT ![s] = "connected"]
    /\ sessions' = sessions \cup {s}
    /\ connection_states' = [connection_states EXCEPT ![s] = "Testing"]
    /\ UNCHANGED <<who, active_subs, room_members, pending_departures,
                   suppress_join_broadcast, timer, eventVars>>

\* ctx.cancel_future(spawn_handle).  It stops a timer that has not elapsed;
\* one that has already notified the actor is beyond recall.
CancelTimer(t) ==
    [s \in Session |-> IF s = t /\ timer[s] = "armed" THEN "none"
                                                      ELSE timer[s]]

\* Mutant: every session of the user is taken off the list.
StaleMembers_AllOfUser(s) == {t \in Session : KeyOf(t) = KeyOf(s)}

\* The room_members entries JoinRoom discards: the session whose departure
\* was pending for the same user.
StaleMembers(s) == {pending_departures[KeyOf(s)].old_session}

\* Mutant: reconnections go unnoticed.
IsReconnection_Never(s) == FALSE

\* The user has a departure pending.
IsReconnection(s) ==
    pending_departures[KeyOf(s)].old_session # NoSession

\* Reconnection: the departure is dropped, its timer cancelled, and the new
\* session marked, as an observer is, not to be announced.
TakeOver(s) ==
    LET old == pending_departures[KeyOf(s)].old_session IN
    /\ pending_departures' = [pending_departures EXCEPT ![KeyOf(s)] = NoPending]
    /\ timer' = CancelTimer(old)
    /\ reconnected' = [reconnected EXCEPT ![s] = old]
    /\ suppress_join_broadcast' =
          IF IsReconnection(s) \/ Observer(s)
          THEN suppress_join_broadcast \cup {s}
          ELSE suppress_join_broadcast

\* Handler<JoinRoom>, rejected: the reserved user id is turned away before
\* anything changes.
JoinReservedUser(s) ==
    /\ phase[s] = "connected"
    /\ who[s].user = SYSTEM_USER_ID
    /\ phase' = [phase EXCEPT ![s] = "refused"]
    /\ UNCHANGED <<who, serverVars, eventVars>>

\* Handler<JoinRoom>, "Session not found": the join overtook Connect.  (The
\* actor waits on both requests at once; at a full mailbox neither is queued
\* when it is made, and nothing in the code fixes which is retried first.)
\* The error is returned after the pending departure has been dropped.
JoinUnknownSession(s) ==
    /\ JoinMayOvertake
    /\ phase[s] = "idle"
    /\ who[s].user # SYSTEM_USER_ID
    /\ s \notin active_subs
    /\ s \notin sessions
    /\ TakeOver(s)
    /\ room_members' = room_members \ StaleMembers(s)
    /\ phase' = [phase EXCEPT ![s] = "refused"]
    /\ UNCHANGED <<who, sessions, connection_states, active_subs, existing,
                   meeting_started, activated, joined, left, published>>

\* Mutant: only Active members are told to a joiner.
ExistingMembers_OnlyActive(s) ==
    {t \in room_members \ StaleMembers(s) :
        SamePlace(s, t) /\ connection_states[t] = "Active"}

\* The members of the room listed when s joins it.
ExistingMembers(s) ==
    {t \in room_members \ StaleMembers(s) : SamePlace(s, t)}

\* Mutant: observers are listed too.
MemberEntry_All(s) == {s}

\* The room_members entry of a joiner: only participants have one.
MemberEntry(s) == IF Observer(s) THEN {} ELSE {s}

\* Handler<JoinRoom>, accepted: a participant is listed and told of the
\* members already listed, of which there are none if it is the first; an
\* observer is only subscribed.
JoinRoom(s) ==
    /\ phase[s] = "connected"
    /\ who[s].user # SYSTEM_USER_ID
    /\ s \notin active_subs
    /\ s \in sessions
    /\ TakeOver(s)
    /\ room_members' = (room_members \ StaleMembers(s)) \cup MemberEntry(s)
    /\ existing' = [existing EXCEPT ![s] =
                       IF Observer(s) THEN {} ELSE ExistingMembers(s)]
    /\ meeting_started' = IF ExistingMembers(s) = {} /\ ~Observer(s)
                          THEN meeting_started \cup {s}
                          ELSE meeting_started
    /\ active_subs' = active_subs \cup {s}
    /\ phase' = [phase EXCEPT ![s] = "joined"]
    /\ UNCHANGED <<who, sessions, connection_states, activated, joined, left,
                   published>>

\* Handler<ActivateConnection>, sent on the first packet that is not an RTT
\* probe.  A missing state counts as Testing.  PARTICIPANT_JOINED is
\* published unless it is suppressed or the session is not listed.
ActivateConnection(s) ==
    /\ phase[s] = "joined"
    /\ phase' = [phase EXCEPT ![s] = "activated"]
    /\ connection_states' = [connection_states EXCEPT ![s] = "Active"]
    /\ activated' = activated \cup {s}
    /\ suppress_join_broadcast' = suppress_join_broadcast \ {s}
    /\ joined' = IF /\ connection_states[s] # "Active"
                    /\ s \notin suppress_join_broadcast
                    /\ s \in room_members
                 THEN joined \cup {s}
                 ELSE joined
    /\ UNCHANGED <<who, sessions, active_subs, room_members,
                   pending_departures, timer, existing, reconnected,
                   meeting_started, left, published>>

\* Handler<ClientMessage>: media is relayed for Active sessions only.  The
\* session actor forwards no media of an observer, and forwards nothing
\* before it has sent ActivateConnection.
ClientMessage(s) ==
    /\ phase[s] = "activated"
    /\ ~Observer(s)
    /\ published' = IF connection_states[s] = "Active"
                    THEN published \cup {s} ELSE published
    /\ UNCHANGED <<who, phase, serverVars, existing, reconnected,
                   meeting_started, activated, joined, left>>

\* leave_rooms: the session is unsubscribed and unlisted; PARTICIPANT_LEFT
\* is published unless it is an observer or known not to be Active.
\* (SessionManager::end_session always answers MeetingContinues.)
LeaveRooms(s, observer, states) ==
    /\ active_subs' = active_subs \ {s}
    /\ room_members' = room_members \ {s}
    /\ left' = IF observer \/ states[s] = "Testing"
               THEN left ELSE left \cup {s}

\* The session-level entries Disconnect removes at once.
DropSession(s) ==
    /\ sessions' = sessions \ {s}
    /\ connection_states' = [connection_states EXCEPT ![s] = "None"]
    /\ suppress_join_broadcast' = suppress_join_broadcast \ {s}
    /\ phase' = [phase EXCEPT ![s] = "ended"]

\* Handler<Disconnect> of an observer: no grace period.
DisconnectObserver(s) ==
    /\ phase[s] \in {"joined", "activated", "refused"}
    /\ Observer(s)
    /\ DropSession(s)
    /\ LeaveRooms(s, TRUE, connection_states')
    /\ UNCHANGED <<who, pending_departures, timer, existing, reconnected,
                   meeting_started, activated, joined, published>>

\* Mutant: the state is looked up after it was removed.
WasActive_Lost(s) == FALSE

\* Whether the session was Active before its state is removed.
WasActive(s) == connection_states[s] = "Active"

\* Mutant: no new timer is set while an older one is running.
DeferTimer_Reused(s) ==
    IF IsReconnection(s) THEN timer ELSE [timer EXCEPT ![s] = "armed"]

\* The timer of a departure already pending is cancelled, a new one set.
DeferTimer(s) ==
    [CancelTimer(pending_departures[KeyOf(s)].old_session)
        EXCEPT ![s] = "armed"]

\* Handler<Disconnect> of a participant: unsubscribed at once, but it stays
\* listed; its departure is deferred and replaces any departure pending for
\* the same user.
Disconnect(s) ==
    /\ phase[s] \in {"joined", "activated", "refused"}
    /\ ~Observer(s)
    /\ DropSession(s)
    /\ active_subs' = active_subs \ {s}
    /\ timer' = DeferTimer(s)
    /\ pending_departures' = [pending_departures EXCEPT ![KeyOf(s)] =
          [old_session |-> s, was_active |-> WasActive(s)]]
    /\ UNCHANGED <<who, room_members, eventVars>>

\* RECONNECT_GRACE_PERIOD has elapsed: ExecutePendingDeparture is queued.
GracePeriodElapses(s) ==
    /\ timer[s] = "armed"
    /\ timer' = [timer EXCEPT ![s] = "fired"]
    /\ UNCHANGED <<who, phase, sessions, connection_states, active_subs,
                   room_members, pending_departures, suppress_join_broadcast,
                   eventVars>>

\* Handler<ExecutePendingDeparture> acts only if the departure stored for
\* the user is still this session's: it may have been cancelled by a
\* reconnection or replaced by a newer disconnect.
StillPending(s) == pending_departures[KeyOf(s)].old_session = s

\* Handler<ExecutePendingDeparture>.
ExecutePendingDeparture(s) ==
    /\ timer[s] = "fired"
    /\ timer' = [timer EXCEPT ![s] = "none"]
    /\ IF StillPending(s)
       THEN /\ pending_departures' =
                  [pending_departures EXCEPT ![KeyOf(s)] = NoPending]
            /\ IF pending_departures[KeyOf(s)].was_active
               THEN LeaveRooms(s, FALSE, connection_states)
               ELSE /\ room_members' = room_members \ {s}
                    /\ UNCHANGED <<active_subs, left>>
       ELSE UNCHANGED <<pending_departures, active_subs, room_members, left>>
    /\ UNCHANGED <<who, phase, sessions, connection_states,
                   suppress_join_broadcast, existing, reconnected,
                   meeting_started, activated, joined, published>>

Next ==
    \E s \in Session :
        \/ Connect(s)
        \/ JoinReservedUser(s)
        \/ JoinUnknownSession(s)
        \/ JoinRoom(s)
        \/ ActivateConnection(s)
        \/ ClientMessage(s)
        \/ DisconnectObserver(s)
        \/ Disconnect(s)
        \/ GracePeriodElapses(s)
        \/ ExecutePendingDeparture(s)

Spec == Init /\ [][Next]_vars

\* A timer that is set elapses, and the actor gets to every message queued to
\* itself.  Nothing obliges a client to connect, send or disconnect.
Fairness ==
    \A s \in Session : /\ WF_vars(GracePeriodElapses(s))
                       /\ WF_vars(ExecutePendingDeparture(s))

FairSpec == Spec /\ Fairness

-----------------------------------------------------------------------------
(* Invariants.                                                             *)

\* Every variable has its type: the maps of chat_server.rs:71-90 hold
\* sessions, keys and states, the history the events published so far.
TypeOK ==
    /\ who \in [Session -> Identity]
    /\ phase \in [Session -> Phase]
    /\ sessions \subseteq Session
    /\ connection_states \in [Session -> {"None", "Testing", "Active"}]
    /\ active_subs \subseteq Session
    /\ room_members \subseteq Session
    /\ pending_departures \in [Key -> PendingDepartureState]
    /\ suppress_join_broadcast \subseteq Session
    /\ timer \in [Session -> {"none", "armed", "fired"}]
    /\ existing \in [Session -> SUBSET Session]
    /\ reconnected \in [Session -> Session \cup {NoSession}]
    /\ meeting_started \subseteq Session
    /\ activated \subseteq Session
    /\ joined \subseteq Session
    /\ left \subseteq Session
    /\ published \subseteq Session

\* Whatever reconnections and departures of other sessions go on, every
\* participant that is up is on its room's member list, so that later joiners
\* are told of it and MEETING_STARTED is not broadcast over its head
\* (JoinRoom and ExecutePendingDeparture prune the list).
RosterComplete ==
    \A s \in Session : Present(s) => s \in room_members

\* A reconnection is silent, whichever way the grace-period timer races it:
\* the session that took over is never announced as joined, and the session it
\* took over from is never announced as left and never listed again
\* (pending_departures: "cancelled silently", JoinRoom against a timer that
\* has already notified the actor).
ReconnectionIsSilent ==
    \A s \in Session :
        reconnected[s] # NoSession =>
            /\ s \notin joined
            /\ reconnected[s] \notin left
            /\ reconnected[s] \notin room_members

\* PARTICIPANT_LEFT is only ever about a participant that was Active, has
\* disconnected, is off the member list and was not taken over from: no
\* ghost leave for the losing connection of an election (Disconnect,
\* ExecutePendingDeparture and leave_rooms together).
LeftIsFinal ==
    \A s \in left :
        /\ s \in activated
        /\ phase[s] = "ended"
        /\ s \notin room_members
        /\ \A t \in Session : reconnected[t] # s

\* An observer (waiting room) leaves no trace in the meeting, although it
\* joins, may activate and disconnects through the same handlers: it is never
\* listed, announced, told to others or waited for, and relays no media.
ObserverInvisible ==
    \A s \in Session :
        Observer(s) =>
            /\ s \notin room_members \cup joined \cup left \cup published
            /\ s \notin meeting_started
            /\ \A t \in Session : s \notin existing[t]
            /\ \A k \in Key : pending_departures[k].old_session # s

\* A deferred departure always has the one timer that will end it, and a
\* timer that has not elapsed always has its departure: the two maps of the
\* grace period (pending_departures and the actor's futures) never part, or
\* a departure would be stuck or executed for somebody else.
PendingHasTimer ==
    /\ \A k \in Key :
          LET s == pending_departures[k].old_session IN
          s # NoSession => /\ KeyOf(s) = k
                           /\ phase[s] = "ended"
                           /\ timer[s] # "none"
    /\ \A s \in Session :
          timer[s] = "armed" => pending_departures[KeyOf(s)].old_session = s

\* Nobody takes part unheard: a participant that is Active was announced to
\* the room, or took over from a departure of the same user
\* (ActivateConnection announces what JoinRoom deferred, suppression is only
\* for reconnections).
ActiveIsAnnounced ==
    \A s \in Session :
        phase[s] = "activated" /\ ~Observer(s) =>
            \/ s \in joined
            \/ /\ reconnected[s] # NoSession
               /\ who[reconnected[s]].room = who[s].room
               /\ who[reconnected[s]].user = who[s].user

\* What a peer is told is consistent over the whole life of its sessions: a
\* reconnection is silent, a departure final, a participant never unheard
\* (the publications of ActivateConnection and ExecutePendingDeparture).
AnnouncementsSound ==
    /\ ReconnectionIsSilent
    /\ LeftIsFinal
    /\ ActiveIsAnnounced

\* The actor's maps fit together through every race of joins, disconnects
\* and grace periods: nobody who is up is missing from room_members, and
\* pending_departures and the timers never part.
RoomsSound ==
    /\ TypeOK
    /\ RosterComplete
    /\ PendingHasTimer

-----------------------------------------------------------------------------
(* Action properties.                                                      *)

\* A participant that joins is told of every participant already up in the
\* room on its server, even while departures and reconnections of others are
\* in flight (existing_members in JoinRoom).
NewcomerIsTold ==
    [][\A s, t \in Session :
          /\ phase[s] = "connected" /\ phase'[s] = "joined" /\ ~Observer(s)
          /\ Present(t) /\ SamePlace(s, t)
          => t \in existing'[s] /\ s \notin meeting_started']_vars

-----------------------------------------------------------------------------
(* What the server promises: see Presence.                                 *)

\* The stage a session has got to, as the other participants may know it.
StageOf(s) ==
    CASE phase[s] = "activated" -> "in"
      [] phase[s] = "ended" ->
            IF pending_departures[KeyOf(s)].old_session # s THEN "over"
            ELSE IF s \in activated THEN "away" ELSE "failed"
      [] OTHER -> IF reconnected[s] = NoSession THEN "out" ELSE "back"

Promise == INSTANCE Presence WITH stage <- [s \in Session |-> StageOf(s)]

\* The server implements Presence: whatever messages, timers and connections
\* race, PARTICIPANT_JOINED and PARTICIPANT_LEFT are published just when a
\* session enters that does not take over from another, and when a session
\* that was in the meeting has been waited for in vain.
ImplementsPresence == Promise!PresenceSpec

-----------------------------------------------------------------------------
(* Liveness.                                                               *)

\* No departure stays pending for ever: it is executed, replaced by a newer
\* one or cancelled by a reconnection (notify_later of Disconnect).
DepartureResolves ==
    \A s \in Session : StillPending(s) ~> ~StillPending(s)

\* A participant that was Active and whose user opened no other session on
\* that server is eventually announced as left once it disconnects.
LoneDepartureIsAnnounced ==
    \A s \in Session :
        /\ s \in activated /\ phase[s] = "ended" /\ ~Observer(s)
        ~> \/ s \in left
           \/ \E t \in Session \ {s} : KeyOf(t) = KeyOf(s) /\ phase[t] # "idle"

-----------------------------------------------------------------------------
(* What comments of chat_server.rs say and the code does not do.           *)

\* "Observers and non-active sessions bypass the grace period"
\* (Disconnect): no departure of a session that was not Active is deferred.
OnlyActiveIsDeferred ==
    \A k \in Key : pending_departures[k].old_session # NoSession
                      => pending_departures[k].was_active

\* "Keep room_members intact for now -- they will be cleaned up either on
\* reconnection or when the grace period expires" (Disconnect): a listed
\* session is up or its departure is pending.
RosterIsCleanedUp ==
    \A s \in room_members : Present(s) \/ StillPending(s)

\* "the user never left from peers' perspective" (suppress_join_broadcast):
\* a participant that activated as a reconnection belongs to a user some
\* session of whom peers were told about.
SuppressedWasAnnounced ==
    \A s \in Session :
        phase[s] = "activated" /\ reconnected[s] # NoSession =>
            \E t \in Session : /\ KeyOf(t) = KeyOf(s)
                               /\ t \in joined

\* "only the elected (activated) connection announces itself" (JoinRoom): a
\* joiner is told of no session of another user that has not been Active.
OnlyActivatedIsTold ==
    \A s, t \in Session :
        t \in existing[s] /\ who[s].user # who[t].user => t \in activated

\* "the new joiner learns about all participants already in the room"
\* (JoinRoom), whatever server they are connected to.
NewcomerIsToldAll ==
    [][\A s, t \in Session :
          /\ phase[s] = "connected" /\ phase'[s] = "joined" /\ ~Observer(s)
          /\ Present(t) /\ who[s].room = who[t].room
          => t \in existing'[s]]_vars

\* "If the user has not reconnected by the time this message is handled, the
\* actual leave_rooms() + PARTICIPANT_LEFT flow executes"
\* (ExecutePendingDeparture): once all sessions of a user are over and
\* nothing is pending, the departure of an announced user was published.
DepartureIsAnnounced ==
    \A k \in Key :
        LET own == {s \in Session : KeyOf(s) = k} IN
        /\ \A s \in own : phase[s] = "ended" /\ timer[s] = "none"
        /\ own \cap joined # {}
        => own \cap left # {}
=============================================================================
