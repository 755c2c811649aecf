-------------------------- MODULE ChatServerProofs --------------------------
(***************************************************************************)
(* Proofs about ChatServer, for any number of sessions, servers, rooms and *)
(* users: type correctness and the safety invariants, from one inductive   *)
(* invariant, and the refinement of Presence.                              *)
(***************************************************************************)
EXTENDS ChatServer, TLAPS

-----------------------------------------------------------------------------
(* Type correctness.                                                       *)

\* The key a session's departure is stored under is a key of the map.
LEMMA KeyOfType ==
    ASSUME TypeOK, NEW s \in Session
    PROVE  KeyOf(s) \in Key
BY IdentityAssumption DEF TypeOK, KeyOf, Key

\* An absent entry of pending_departures has the entry's type.
LEMMA NoPendingType == NoPending \in PendingDepartureState
BY DEF NoPending, PendingDepartureState

\* Cancelling a timer leaves a timer map.
LEMMA CancelTimerType ==
    ASSUME TypeOK, NEW t
    PROVE  CancelTimer(t) \in [Session -> {"none", "armed", "fired"}]
BY DEF TypeOK, CancelTimer

\* Taking over from a pending departure keeps the types of what it assigns.
LEMMA TakeOverType ==
    ASSUME TypeOK, NEW s \in Session, TakeOver(s)
    PROVE  /\ pending_departures' \in [Key -> PendingDepartureState]
           /\ timer' \in [Session -> {"none", "armed", "fired"}]
           /\ reconnected' \in [Session -> Session \cup {NoSession}]
           /\ suppress_join_broadcast' \subseteq Session
<1> DEFINE old == pending_departures[KeyOf(s)].old_session
<1>1. old \in Session \cup {NoSession}
  BY KeyOfType DEF TypeOK, PendingDepartureState
<1>2. pending_departures' \in [Key -> PendingDepartureState]
  BY NoPendingType, KeyOfType DEF TakeOver, TypeOK
<1>3. timer' \in [Session -> {"none", "armed", "fired"}]
  BY CancelTimerType DEF TakeOver
<1>4. reconnected' \in [Session -> Session \cup {NoSession}]
  BY <1>1 DEF TakeOver, TypeOK
<1>5. suppress_join_broadcast' \subseteq Session
  BY DEF TakeOver, TypeOK
<1> QED BY <1>2, <1>3, <1>4, <1>5

\* No step of the server breaks the types.
LEMMA TypeStep == TypeOK /\ [Next]_vars => TypeOK'
<1> SUFFICES ASSUME TypeOK, [Next]_vars PROVE TypeOK'
  OBVIOUS
<1>1. CASE UNCHANGED vars
  BY <1>1 DEF vars, serverVars, eventVars, TypeOK
<1>2. ASSUME NEW s \in Session, Connect(s) PROVE TypeOK'
  BY <1>2 DEF Connect, TypeOK, Phase, eventVars
<1>3. ASSUME NEW s \in Session, JoinReservedUser(s) PROVE TypeOK'
  BY <1>3 DEF JoinReservedUser, TypeOK, Phase, serverVars, eventVars
<1>4. ASSUME NEW s \in Session, JoinUnknownSession(s) PROVE TypeOK'
  <2>1. phase' \in [Session -> Phase] /\ room_members' \subseteq Session
    BY <1>4 DEF JoinUnknownSession, TypeOK, Phase
  <2> QED BY <1>4, <2>1, TakeOverType DEF JoinUnknownSession, TypeOK
<1>5. ASSUME NEW s \in Session, JoinRoom(s) PROVE TypeOK'
  <2>1. phase' \in [Session -> Phase]
    BY <1>5 DEF JoinRoom, TypeOK, Phase
  <2>2. room_members' \subseteq Session
    BY <1>5 DEF JoinRoom, TypeOK, MemberEntry
  <2>3. existing' \in [Session -> SUBSET Session]
    BY <1>5 DEF JoinRoom, TypeOK, ExistingMembers
  <2>4. active_subs' \subseteq Session /\ meeting_started' \subseteq Session
    BY <1>5 DEF JoinRoom, TypeOK
  <2> QED BY <1>5, <2>1, <2>2, <2>3, <2>4, TakeOverType
          DEF JoinRoom, TypeOK
<1>6. ASSUME NEW s \in Session, ActivateConnection(s) PROVE TypeOK'
  BY <1>6 DEF ActivateConnection, TypeOK, Phase
<1>7. ASSUME NEW s \in Session, ClientMessage(s) PROVE TypeOK'
  BY <1>7 DEF ClientMessage, TypeOK, serverVars
<1>8. ASSUME NEW s \in Session, DisconnectObserver(s) PROVE TypeOK'
  BY <1>8 DEF DisconnectObserver, DropSession, LeaveRooms, TypeOK, Phase
<1>9. ASSUME NEW s \in Session, Disconnect(s) PROVE TypeOK'
  <2>1. pending_departures' \in [Key -> PendingDepartureState]
    BY <1>9, KeyOfType
    DEF Disconnect, TypeOK, PendingDepartureState, WasActive
  <2>2. timer' \in [Session -> {"none", "armed", "fired"}]
    BY <1>9, CancelTimerType DEF Disconnect, DeferTimer
  <2> QED BY <1>9, <2>1, <2>2
          DEF Disconnect, DropSession, TypeOK, Phase, eventVars
<1>10. ASSUME NEW s \in Session, GracePeriodElapses(s) PROVE TypeOK'
  BY <1>10 DEF GracePeriodElapses, TypeOK, eventVars
<1>11. ASSUME NEW s \in Session, ExecutePendingDeparture(s) PROVE TypeOK'
  <2>1. pending_departures' \in [Key -> PendingDepartureState]
    BY <1>11, KeyOfType, NoPendingType DEF ExecutePendingDeparture, TypeOK
  <2>2. /\ active_subs' \subseteq Session
        /\ room_members' \subseteq Session
        /\ left' \subseteq Session
    BY <1>11 DEF ExecutePendingDeparture, LeaveRooms, TypeOK
  <2> QED BY <1>11, <2>1, <2>2 DEF ExecutePendingDeparture, TypeOK
<1> QED
  BY <1>1, <1>2, <1>3, <1>4, <1>5, <1>6, <1>7, <1>8, <1>9, <1>10, <1>11
  DEF Next

\* Every variable always has its type: no handler of the ChatServer stores
\* anything but sessions, keys and states in its maps.
THEOREM TypeCorrect == Spec => []TypeOK
<1>1. Init => TypeOK
  BY DEF Init, TypeOK, Phase, PendingDepartureState, NoPending
<1>2. TypeOK /\ [Next]_vars => TypeOK'
  BY TypeStep
<1> QED BY <1>1, <1>2, PTL DEF Spec

-----------------------------------------------------------------------------
(* The inductive invariant.                                                *)

\* What a session's phase says about it.
Lifecycle ==
    \A s \in Session :
        /\ phase[s] \in {"idle", "connected"} =>
              /\ s \notin room_members
              /\ s \notin suppress_join_broadcast
              /\ s \notin meeting_started
              /\ reconnected[s] = NoSession
        /\ phase[s] \in {"idle", "connected", "joined"} =>
              /\ connection_states[s] # "Active"
              /\ s \notin joined
        /\ phase[s] # "ended" => s \notin left
        /\ connection_states[s] = "Active" => s \in activated

\* A pending departure is of a participant that is gone, has a timer, was
\* not announced as left and was not taken over from.
PendingSound ==
    \A k \in Key : \A s \in Session :
        pending_departures[k].old_session = s =>
            /\ KeyOf(s) = k
            /\ phase[s] = "ended"
            /\ timer[s] # "none"
            /\ ~Observer(s)
            /\ s \notin left
            /\ pending_departures[k].was_active => s \in activated
            /\ \A t \in Session : reconnected[t] # s

\* A timer that has not elapsed belongs to the pending departure.
TimerSound ==
    \A s \in Session :
        timer[s] = "armed" => pending_departures[KeyOf(s)].old_session = s

\* A session that was taken over from is gone without a trace, and the one
\* that took over is of the same user and is kept from being announced.
TakeOverSound ==
    \A s, o \in Session :
        reconnected[s] = o =>
            /\ phase[o] = "ended"
            /\ o \notin room_members
            /\ o \notin left
            /\ KeyOf(o) = KeyOf(s)
            /\ s \notin joined
            /\ phase[s] = "joined" => s \in suppress_join_broadcast

\* Of the participants only those that took over are kept from being
\* announced.
SuppressSound ==
    \A s \in Session :
        s \in suppress_join_broadcast /\ ~Observer(s) =>
            reconnected[s] # NoSession

IndInv ==
    /\ TypeOK
    /\ Lifecycle
    /\ PendingSound
    /\ TimerSound
    /\ TakeOverSound
    /\ SuppressSound
    /\ RosterComplete
    /\ LeftIsFinal
    /\ ObserverInvisible
    /\ ActiveIsAnnounced

\* Initially everything is empty.
LEMMA IndInvInit == Init => IndInv
<1> SUFFICES ASSUME Init PROVE IndInv
  OBVIOUS
<1>1. TypeOK
  BY DEF Init, TypeOK, Phase, PendingDepartureState, NoPending
<1> QED
  BY <1>1, NoSessionAssumption
  DEF Init, IndInv, Lifecycle, PendingSound, TimerSound, TakeOverSound,
      SuppressSound, RosterComplete, Present, LeftIsFinal, ObserverInvisible,
      ActiveIsAnnounced, NoPending

\* Handler<Connect> preserves the invariant.
LEMMA ConnectInv ==
    ASSUME IndInv, TypeOK', NEW s \in Session, Connect(s)
    PROVE  IndInv'
<1> USE DEF IndInv, Connect, eventVars
<1>1. Lifecycle'
  BY NoSessionAssumption DEF TypeOK, Lifecycle
<1>2. PendingSound'
  BY NoSessionAssumption DEF TypeOK, PendingSound, KeyOf, Observer
<1>3. TimerSound'
  BY NoSessionAssumption DEF TypeOK, TimerSound, KeyOf
<1>4. TakeOverSound'
  BY NoSessionAssumption DEF TypeOK, TakeOverSound, KeyOf
<1>5. SuppressSound'
  BY NoSessionAssumption DEF TypeOK, SuppressSound, Observer
<1>6. RosterComplete'
  BY NoSessionAssumption DEF TypeOK, RosterComplete, Present, Observer
<1>7. LeftIsFinal'
  BY NoSessionAssumption DEF TypeOK, LeftIsFinal
<1>8. ObserverInvisible'
  BY NoSessionAssumption DEF TypeOK, ObserverInvisible, Observer
<1>9. ActiveIsAnnounced'
  BY NoSessionAssumption DEF TypeOK, ActiveIsAnnounced, Observer
<1> QED BY <1>1, <1>2, <1>3, <1>4, <1>5, <1>6, <1>7, <1>8, <1>9

\* A join of the reserved user, rejected, preserves the invariant.
LEMMA JoinReservedUserInv ==
    ASSUME IndInv, TypeOK', NEW s \in Session, JoinReservedUser(s)
    PROVE  IndInv'
<1> USE DEF IndInv, JoinReservedUser, serverVars, eventVars
<1>1. Lifecycle'
  BY NoSessionAssumption DEF TypeOK, Lifecycle
<1>2. PendingSound'
  BY NoSessionAssumption DEF TypeOK, PendingSound, KeyOf, Observer
<1>3. TimerSound'
  BY NoSessionAssumption DEF TypeOK, TimerSound, KeyOf
<1>4. TakeOverSound'
  BY NoSessionAssumption DEF TypeOK, TakeOverSound, KeyOf
<1>5. SuppressSound'
  BY NoSessionAssumption DEF TypeOK, SuppressSound, Observer
<1>6. RosterComplete'
  BY NoSessionAssumption DEF TypeOK, RosterComplete, Present, Observer
<1>7. LeftIsFinal'
  BY NoSessionAssumption DEF TypeOK, LeftIsFinal
<1>8. ObserverInvisible'
  BY NoSessionAssumption DEF TypeOK, ObserverInvisible, Observer
<1>9. ActiveIsAnnounced'
  BY NoSessionAssumption DEF TypeOK, ActiveIsAnnounced, Observer
<1> QED BY <1>1, <1>2, <1>3, <1>4, <1>5, <1>6, <1>7, <1>8, <1>9

\* Handler<ActivateConnection> preserves the invariant.
LEMMA ActivateConnectionInv ==
    ASSUME IndInv, TypeOK', NEW s \in Session, ActivateConnection(s)
    PROVE  IndInv'
<1> USE DEF IndInv, ActivateConnection
<1>1. Lifecycle'
  BY NoSessionAssumption DEF TypeOK, Lifecycle
<1>2. PendingSound'
  BY NoSessionAssumption DEF TypeOK, PendingSound, KeyOf, Observer
<1>3. TimerSound'
  BY NoSessionAssumption DEF TypeOK, TimerSound, KeyOf
<1>4. TakeOverSound'
  BY NoSessionAssumption DEF TypeOK, TakeOverSound, KeyOf
<1>5. SuppressSound'
  BY NoSessionAssumption DEF TypeOK, SuppressSound, Observer
<1>6. RosterComplete'
  BY NoSessionAssumption DEF TypeOK, RosterComplete, Present, Observer
<1>7. LeftIsFinal'
  BY NoSessionAssumption DEF TypeOK, LeftIsFinal
<1>8. ObserverInvisible'
  BY NoSessionAssumption DEF TypeOK, ObserverInvisible, Observer
<1>9. ActiveIsAnnounced'
  BY NoSessionAssumption
  DEF TypeOK, ActiveIsAnnounced, Observer, Lifecycle, RosterComplete,
      Present, SuppressSound, TakeOverSound, KeyOf
<1> QED BY <1>1, <1>2, <1>3, <1>4, <1>5, <1>6, <1>7, <1>8, <1>9

\* Handler<ClientMessage> preserves the invariant.
LEMMA ClientMessageInv ==
    ASSUME IndInv, TypeOK', NEW s \in Session, ClientMessage(s)
    PROVE  IndInv'
<1> USE DEF IndInv, ClientMessage, serverVars
<1>1. Lifecycle'
  BY NoSessionAssumption DEF TypeOK, Lifecycle
<1>2. PendingSound'
  BY NoSessionAssumption DEF TypeOK, PendingSound, KeyOf, Observer
<1>3. TimerSound'
  BY NoSessionAssumption DEF TypeOK, TimerSound, KeyOf
<1>4. TakeOverSound'
  BY NoSessionAssumption DEF TypeOK, TakeOverSound, KeyOf
<1>5. SuppressSound'
  BY NoSessionAssumption DEF TypeOK, SuppressSound, Observer
<1>6. RosterComplete'
  BY NoSessionAssumption DEF TypeOK, RosterComplete, Present, Observer
<1>7. LeftIsFinal'
  BY NoSessionAssumption DEF TypeOK, LeftIsFinal
<1>8. ObserverInvisible'
  BY NoSessionAssumption DEF TypeOK, ObserverInvisible, Observer
<1>9. ActiveIsAnnounced'
  BY NoSessionAssumption DEF TypeOK, ActiveIsAnnounced, Observer
<1> QED BY <1>1, <1>2, <1>3, <1>4, <1>5, <1>6, <1>7, <1>8, <1>9

\* Handler<Disconnect> of an observer preserves the invariant.
LEMMA DisconnectObserverInv ==
    ASSUME IndInv, TypeOK', NEW s \in Session, DisconnectObserver(s)
    PROVE  IndInv'
<1> USE DEF IndInv, DisconnectObserver, DropSession, LeaveRooms
<1>1. Lifecycle'
  BY NoSessionAssumption DEF TypeOK, Lifecycle
<1>2. PendingSound'
  BY NoSessionAssumption DEF TypeOK, PendingSound, KeyOf, Observer
<1>3. TimerSound'
  BY NoSessionAssumption DEF TypeOK, TimerSound, KeyOf
<1>4. TakeOverSound'
  BY NoSessionAssumption DEF TypeOK, TakeOverSound, KeyOf
<1>5. SuppressSound'
  BY NoSessionAssumption DEF TypeOK, SuppressSound, Observer
<1>6. RosterComplete'
  BY NoSessionAssumption DEF TypeOK, RosterComplete, Present, Observer
<1>7. LeftIsFinal'
  BY NoSessionAssumption DEF TypeOK, LeftIsFinal
<1>8. ObserverInvisible'
  BY NoSessionAssumption DEF TypeOK, ObserverInvisible, Observer
<1>9. ActiveIsAnnounced'
  BY NoSessionAssumption DEF TypeOK, ActiveIsAnnounced, Observer
<1> QED BY <1>1, <1>2, <1>3, <1>4, <1>5, <1>6, <1>7, <1>8, <1>9

\* An elapsing grace period preserves the invariant.
LEMMA GracePeriodElapsesInv ==
    ASSUME IndInv, TypeOK', NEW s \in Session, GracePeriodElapses(s)
    PROVE  IndInv'
<1> USE DEF IndInv, GracePeriodElapses, eventVars
<1>1. Lifecycle'
  BY NoSessionAssumption DEF TypeOK, Lifecycle
<1>2. PendingSound'
  BY NoSessionAssumption DEF TypeOK, PendingSound, KeyOf, Observer
<1>3. TimerSound'
  BY NoSessionAssumption DEF TypeOK, TimerSound, KeyOf
<1>4. TakeOverSound'
  BY NoSessionAssumption DEF TypeOK, TakeOverSound, KeyOf
<1>5. SuppressSound'
  BY NoSessionAssumption DEF TypeOK, SuppressSound, Observer
<1>6. RosterComplete'
  BY NoSessionAssumption DEF TypeOK, RosterComplete, Present, Observer
<1>7. LeftIsFinal'
  BY NoSessionAssumption DEF TypeOK, LeftIsFinal
<1>8. ObserverInvisible'
  BY NoSessionAssumption DEF TypeOK, ObserverInvisible, Observer
<1>9. ActiveIsAnnounced'
  BY NoSessionAssumption DEF TypeOK, ActiveIsAnnounced, Observer
<1> QED BY <1>1, <1>2, <1>3, <1>4, <1>5, <1>6, <1>7, <1>8, <1>9

\* The session whose departure is pending for the user of s, if any.
OldSession(s) == pending_departures[KeyOf(s)].old_session

\* What a pending departure found by s says about the session it is of.
LEMMA OldSessionFacts ==
    ASSUME IndInv, NEW s \in Session
    PROVE  /\ OldSession(s) \in Session \cup {NoSession}
           /\ OldSession(s) # NoSession =>
                 /\ KeyOf(OldSession(s)) = KeyOf(s)
                 /\ phase[OldSession(s)] = "ended"
                 /\ OldSession(s) \notin left
                 /\ ~Observer(OldSession(s))
<1>1. KeyOf(s) \in Key
  BY KeyOfType DEF IndInv
<1>2. OldSession(s) \in Session \cup {NoSession}
  BY <1>1 DEF IndInv, TypeOK, PendingDepartureState, OldSession
<1> QED BY <1>1, <1>2 DEF IndInv, PendingSound, OldSession

\* Taking over, entry by entry.
LEMMA TakeOverEffect ==
    ASSUME TypeOK, NEW s \in Session, TakeOver(s)
    PROVE  /\ \A k \in Key : pending_departures'[k] =
                 IF k = KeyOf(s) THEN NoPending ELSE pending_departures[k]
           /\ \A t \in Session : timer'[t] =
                 IF t = OldSession(s) /\ timer[t] = "armed"
                 THEN "none" ELSE timer[t]
           /\ \A t \in Session : reconnected'[t] =
                 IF t = s THEN OldSession(s) ELSE reconnected[t]
           /\ suppress_join_broadcast' =
                 IF OldSession(s) # NoSession \/ Observer(s)
                 THEN suppress_join_broadcast \cup {s}
                 ELSE suppress_join_broadcast
BY DEF TypeOK, TakeOver, CancelTimer, IsReconnection, OldSession

\* The conjuncts about departures and reconnections survive a session that
\* takes over, whether it then joins or is refused: both leave its phase
\* short of "ended" and keep who, left and joined.
LEMMA TakeOverInv ==
    ASSUME IndInv, TypeOK', NEW s \in Session, TakeOver(s),
           phase[s] \in {"idle", "connected"},
           NEW p \in {"joined", "refused"},
           phase' = [phase EXCEPT ![s] = p],
           room_members' \subseteq
               (room_members \ StaleMembers(s)) \cup {s},
           UNCHANGED <<who, left, joined, activated>>
    PROVE  /\ PendingSound'
           /\ TimerSound'
           /\ TakeOverSound'
           /\ SuppressSound'
<1> DEFINE old == OldSession(s)
<1>1. /\ old \in Session \cup {NoSession}
      /\ old # NoSession => /\ KeyOf(old) = KeyOf(s)
                            /\ phase[old] = "ended"
                            /\ old \notin left
  BY OldSessionFacts
<1>2. /\ \A k \in Key : pending_departures'[k] =
            IF k = KeyOf(s) THEN NoPending ELSE pending_departures[k]
      /\ \A t \in Session : timer'[t] =
            IF t = old /\ timer[t] = "armed" THEN "none" ELSE timer[t]
      /\ \A t \in Session : reconnected'[t] =
            IF t = s THEN old ELSE reconnected[t]
      /\ suppress_join_broadcast' =
            IF old # NoSession \/ Observer(s)
            THEN suppress_join_broadcast \cup {s}
            ELSE suppress_join_broadcast
  BY TakeOverEffect DEF IndInv
<1>3. \A t \in Session : /\ KeyOf(t)' = KeyOf(t)
                         /\ Observer(t)' = Observer(t)
                         /\ KeyOf(t) \in Key
  BY KeyOfType DEF IndInv, KeyOf, Observer
<1>4. \A t \in Session : phase'[t] = IF t = s THEN p ELSE phase[t]
  BY DEF IndInv, TypeOK
<1>5. NoPending.old_session = NoSession
  BY DEF NoPending
<1> HIDE DEF old
<1>6. PendingSound'
  <2> SUFFICES ASSUME NEW k \in Key, NEW u \in Session,
                      pending_departures'[k].old_session = u
               PROVE  /\ KeyOf(u)' = k
                      /\ phase'[u] = "ended"
                      /\ timer'[u] # "none"
                      /\ ~Observer(u)'
                      /\ u \notin left'
                      /\ pending_departures'[k].was_active => u \in activated'
                      /\ \A t \in Session : reconnected'[t] # u
    BY DEF PendingSound
  <2>1. k # KeyOf(s) /\ pending_departures'[k] = pending_departures[k]
    BY <1>2, <1>5, NoSessionAssumption
  <2>2. /\ KeyOf(u) = k
        /\ phase[u] = "ended"
        /\ timer[u] # "none"
        /\ ~Observer(u)
        /\ u \notin left
        /\ pending_departures[k].was_active => u \in activated
        /\ \A t \in Session : reconnected[t] # u
    BY <2>1 DEF IndInv, PendingSound
  <2>3. u # old /\ u # s
    BY <1>1, <2>1, <2>2, NoSessionAssumption
  <2> QED BY <1>2, <1>3, <1>4, <2>1, <2>2, <2>3
<1>7. TimerSound'
  <2> SUFFICES ASSUME NEW u \in Session, timer'[u] = "armed"
               PROVE  pending_departures'[KeyOf(u)'].old_session = u
    BY DEF TimerSound
  <2>1. timer[u] = "armed" /\ u # old
    BY <1>2
  <2>2. pending_departures[KeyOf(u)].old_session = u
    BY <2>1 DEF IndInv, TimerSound
  <2>3. KeyOf(u) # KeyOf(s)
    BY <2>1, <2>2 DEF OldSession, old
  <2> QED BY <1>2, <1>3, <2>2, <2>3
<1>8. TakeOverSound'
  <2> SUFFICES ASSUME NEW u \in Session, NEW o \in Session,
                      reconnected'[u] = o
               PROVE  /\ phase'[o] = "ended"
                      /\ o \notin room_members'
                      /\ o \notin left'
                      /\ KeyOf(o)' = KeyOf(u)'
                      /\ u \notin joined'
                      /\ phase'[u] = "joined" =>
                            u \in suppress_join_broadcast'
    BY DEF TakeOverSound
  <2>1. CASE u = s
    <3>1. o = old /\ o # NoSession /\ o # s
      BY <1>1, <1>2, <2>1, NoSessionAssumption
    <3>2. o \notin room_members'
      BY <3>1 DEF StaleMembers, OldSession, old
    <3>3. s \notin joined
      BY DEF IndInv, Lifecycle
    <3> QED BY <1>1, <1>2, <1>3, <1>4, <2>1, <3>1, <3>2, <3>3
  <2>2. CASE u # s
    <3>1. reconnected[u] = o
      BY <1>2, <2>2
    <3>2. /\ phase[o] = "ended"
          /\ o \notin room_members
          /\ o \notin left
          /\ KeyOf(o) = KeyOf(u)
          /\ u \notin joined
          /\ phase[u] = "joined" => u \in suppress_join_broadcast
      BY <3>1 DEF IndInv, TakeOverSound
    <3> QED BY <1>2, <1>3, <1>4, <2>2, <3>2
  <2> QED BY <2>1, <2>2
<1>9. SuppressSound'
  <2> SUFFICES ASSUME NEW u \in Session, u \in suppress_join_broadcast',
                      ~Observer(u)'
               PROVE  reconnected'[u] # NoSession
    BY DEF SuppressSound
  <2> QED BY <1>2, <1>3 DEF IndInv, SuppressSound, Lifecycle
<1> QED BY <1>6, <1>7, <1>8, <1>9

\* A join of an unknown session, rejected, preserves the invariant.
LEMMA JoinUnknownSessionInv ==
    ASSUME IndInv, TypeOK', NEW s \in Session, JoinUnknownSession(s)
    PROVE  IndInv'
<1>1. PendingSound' /\ TimerSound' /\ TakeOverSound' /\ SuppressSound'
  <2>1. /\ TakeOver(s)
        /\ phase[s] \in {"idle", "connected"}
        /\ phase' = [phase EXCEPT ![s] = "refused"]
        /\ room_members' \subseteq
              (room_members \ StaleMembers(s)) \cup {s}
        /\ UNCHANGED <<who, left, joined, activated>>
    BY DEF JoinUnknownSession
  <2> QED BY <2>1, TakeOverInv
<1>2. /\ OldSession(s) \in Session \cup {NoSession}
      /\ OldSession(s) # NoSession => phase[OldSession(s)] = "ended"
      /\ StaleMembers(s) = {OldSession(s)}
  BY OldSessionFacts DEF StaleMembers, OldSession
<1>3. /\ \A t \in Session : reconnected'[t] =
            IF t = s THEN OldSession(s) ELSE reconnected[t]
      /\ suppress_join_broadcast' \subseteq suppress_join_broadcast \cup {s}
      /\ \A k \in Key : pending_departures'[k].old_session \in
            {pending_departures[k].old_session, NoSession}
  BY TakeOverEffect DEF JoinUnknownSession, IndInv, NoPending
<1>4. Lifecycle'
  BY <1>2, <1>3, NoSessionAssumption
  DEF JoinUnknownSession, IndInv, TypeOK, Lifecycle
<1>5. RosterComplete'
  BY <1>2, <1>3, NoSessionAssumption
  DEF JoinUnknownSession, IndInv, TypeOK, RosterComplete, Present, Observer
<1>6. LeftIsFinal'
  BY <1>2, <1>3, NoSessionAssumption, OldSessionFacts
  DEF JoinUnknownSession, IndInv, TypeOK, LeftIsFinal, Lifecycle
<1>7. ObserverInvisible'
  BY <1>2, <1>3, NoSessionAssumption
  DEF JoinUnknownSession, IndInv, TypeOK, ObserverInvisible, Observer
<1>8. ActiveIsAnnounced'
  BY <1>2, <1>3, NoSessionAssumption
  DEF JoinUnknownSession, IndInv, TypeOK, ActiveIsAnnounced, Observer
<1> QED BY <1>1, <1>4, <1>5, <1>6, <1>7, <1>8 DEF IndInv

\* Handler<JoinRoom>, accepted, preserves the invariant.
LEMMA JoinRoomInv ==
    ASSUME IndInv, TypeOK', NEW s \in Session, JoinRoom(s)
    PROVE  IndInv'
<1>1. PendingSound' /\ TimerSound' /\ TakeOverSound' /\ SuppressSound'
  <2>1. /\ TakeOver(s)
        /\ phase[s] \in {"idle", "connected"}
        /\ phase' = [phase EXCEPT ![s] = "joined"]
        /\ room_members' \subseteq
              (room_members \ StaleMembers(s)) \cup {s}
        /\ UNCHANGED <<who, left, joined, activated>>
    BY DEF JoinRoom, MemberEntry
  <2> QED BY <2>1, TakeOverInv
<1>2. /\ OldSession(s) \in Session \cup {NoSession}
      /\ OldSession(s) # NoSession => phase[OldSession(s)] = "ended"
      /\ StaleMembers(s) = {OldSession(s)}
  BY OldSessionFacts DEF StaleMembers, OldSession
<1>3. /\ \A t \in Session : reconnected'[t] =
            IF t = s THEN OldSession(s) ELSE reconnected[t]
      /\ suppress_join_broadcast' \subseteq suppress_join_broadcast \cup {s}
      /\ \A k \in Key : pending_departures'[k].old_session \in
            {pending_departures[k].old_session, NoSession}
  BY TakeOverEffect DEF JoinRoom, IndInv, NoPending
<1>4. Lifecycle'
  BY <1>2, <1>3, NoSessionAssumption
  DEF JoinRoom, IndInv, TypeOK, Lifecycle, MemberEntry
<1>5. RosterComplete'
  BY <1>2, <1>3, NoSessionAssumption
  DEF JoinRoom, IndInv, TypeOK, RosterComplete, Present, Observer, MemberEntry
<1>6. LeftIsFinal'
  BY <1>2, <1>3, NoSessionAssumption, OldSessionFacts
  DEF JoinRoom, IndInv, TypeOK, LeftIsFinal, MemberEntry, Lifecycle
<1>7. ObserverInvisible'
  BY <1>2, <1>3, NoSessionAssumption
  DEF JoinRoom, IndInv, TypeOK, ObserverInvisible, Observer,
       MemberEntry, ExistingMembers
<1>8. ActiveIsAnnounced'
  BY <1>2, <1>3, NoSessionAssumption
  DEF JoinRoom, IndInv, TypeOK, ActiveIsAnnounced, Observer, MemberEntry
<1> QED BY <1>1, <1>4, <1>5, <1>6, <1>7, <1>8 DEF IndInv

\* Handler<Disconnect> of a participant preserves the invariant: the departure
\* it stores is this session's, with a timer, and cancels the one it replaces.
LEMMA DisconnectInv ==
    ASSUME IndInv, TypeOK', NEW s \in Session, Disconnect(s)
    PROVE  IndInv'
<1> DEFINE old == OldSession(s)
<1>1. /\ old \in Session \cup {NoSession}
      /\ old # NoSession => phase[old] = "ended"
      /\ phase[s] # "ended"
  BY OldSessionFacts DEF Disconnect
<1>2. /\ \A k \in Key : pending_departures'[k] =
            IF k = KeyOf(s)
            THEN [old_session |-> s, was_active |-> WasActive(s)]
            ELSE pending_departures[k]
      /\ \A t \in Session : timer'[t] =
            IF t = s THEN "armed"
            ELSE IF t = old /\ timer[t] = "armed" THEN "none" ELSE timer[t]
      /\ \A t \in Session :
            phase'[t] = IF t = s THEN "ended" ELSE phase[t]
  BY DEF Disconnect, DropSession, DeferTimer, CancelTimer, OldSession,
         IndInv, TypeOK
<1>3. \A t \in Session : /\ KeyOf(t)' = KeyOf(t)
                         /\ Observer(t)' = Observer(t)
                         /\ KeyOf(t) \in Key
  BY KeyOfType DEF Disconnect, IndInv, KeyOf, Observer
<1>4. UNCHANGED <<left, activated, reconnected>>
  BY DEF Disconnect, eventVars
<1> HIDE DEF old
<1>5. PendingSound'
  <2> SUFFICES ASSUME NEW k \in Key, NEW u \in Session,
                      pending_departures'[k].old_session = u
               PROVE  /\ KeyOf(u)' = k
                      /\ phase'[u] = "ended"
                      /\ timer'[u] # "none"
                      /\ ~Observer(u)'
                      /\ u \notin left'
                      /\ pending_departures'[k].was_active => u \in activated'
                      /\ \A t \in Session : reconnected'[t] # u
    BY DEF PendingSound
  <2>1. CASE k = KeyOf(s)
    <3>1. u = s /\ pending_departures'[k].was_active = WasActive(s)
      BY <1>2, <2>1
    <3>2. /\ ~Observer(s)
          /\ s \notin left
          /\ WasActive(s) => s \in activated
          /\ \A t \in Session : reconnected[t] # s
      BY <1>1 DEF Disconnect, IndInv, Lifecycle, TakeOverSound, WasActive
    <3> QED BY <1>2, <1>3, <1>4, <2>1, <3>1, <3>2
  <2>2. CASE k # KeyOf(s)
    <3>1. pending_departures'[k] = pending_departures[k]
      BY <1>2, <2>2
    <3>2. /\ KeyOf(u) = k
          /\ phase[u] = "ended"
          /\ timer[u] # "none"
          /\ ~Observer(u)
          /\ u \notin left
          /\ pending_departures[k].was_active => u \in activated
          /\ \A t \in Session : reconnected[t] # u
      BY <3>1 DEF IndInv, PendingSound
    <3>3. u # s /\ u # old
      BY <1>1, <2>2, <3>2, OldSessionFacts, NoSessionAssumption DEF old
    <3> QED BY <1>2, <1>3, <1>4, <3>1, <3>2, <3>3
  <2> QED BY <2>1, <2>2
<1>6. TimerSound'
  <2> SUFFICES ASSUME NEW u \in Session, timer'[u] = "armed"
               PROVE  pending_departures'[KeyOf(u)'].old_session = u
    BY DEF TimerSound
  <2>1. CASE u = s
    BY <1>2, <1>3, <2>1
  <2>2. CASE u # s
    <3>1. timer[u] = "armed" /\ u # old
      BY <1>2, <2>2
    <3>2. pending_departures[KeyOf(u)].old_session = u
      BY <3>1 DEF IndInv, TimerSound
    <3>3. KeyOf(u) # KeyOf(s)
      BY <3>1, <3>2 DEF OldSession, old
    <3> QED BY <1>2, <1>3, <3>2, <3>3
  <2> QED BY <2>1, <2>2
<1>7. Lifecycle'
  BY <1>1, <1>2 DEF Disconnect, DropSession, eventVars, IndInv, TypeOK,
                    Lifecycle
<1>8. TakeOverSound'
  BY <1>2, <1>3 DEF Disconnect, DropSession, eventVars, IndInv, TypeOK,
                    TakeOverSound
<1>9. SuppressSound'
  BY <1>3 DEF Disconnect, DropSession, eventVars, IndInv, SuppressSound
<1>10. RosterComplete'
  BY <1>2, <1>3 DEF Disconnect, IndInv, RosterComplete, Present
<1>11. LeftIsFinal'
  BY <1>2 DEF Disconnect, eventVars, IndInv, TypeOK, LeftIsFinal
<1>12. ObserverInvisible'
  BY <1>2, <1>3 DEF Disconnect, eventVars, IndInv, ObserverInvisible
<1>13. ActiveIsAnnounced'
  BY <1>2, <1>3 DEF Disconnect, eventVars, IndInv, ActiveIsAnnounced
<1> QED BY <1>5, <1>6, <1>7, <1>8, <1>9, <1>10, <1>11, <1>12, <1>13
        DEF IndInv

\* Handler<ExecutePendingDeparture> preserves the invariant: it acts only on
\* the departure of its own session.
LEMMA ExecutePendingDepartureInv ==
    ASSUME IndInv, TypeOK', NEW s \in Session, ExecutePendingDeparture(s)
    PROVE  IndInv'
<1> DEFINE here == pending_departures[KeyOf(s)].old_session = s
           gone == here /\ pending_departures[KeyOf(s)].was_active
<1>1. /\ \A k \in Key : pending_departures'[k] =
            IF here /\ k = KeyOf(s) THEN NoPending ELSE pending_departures[k]
      /\ \A t \in Session :
            timer'[t] = IF t = s THEN "none" ELSE timer[t]
      /\ timer[s] = "fired"
      /\ left' \subseteq left \cup {s}
      /\ ~gone => left' = left
      /\ room_members' = IF here THEN room_members \ {s} ELSE room_members
      /\ UNCHANGED <<who, phase, connection_states, suppress_join_broadcast,
                     existing, reconnected, meeting_started, activated,
                     joined, published>>
  BY DEF ExecutePendingDeparture, StillPending, LeaveRooms, IndInv, TypeOK
<1>2. \A t \in Session : /\ KeyOf(t)' = KeyOf(t)
                         /\ Observer(t)' = Observer(t)
                         /\ KeyOf(t) \in Key
  BY <1>1, KeyOfType DEF IndInv, KeyOf, Observer
<1>3. here => /\ phase[s] = "ended"
              /\ ~Observer(s)
              /\ \A t \in Session : reconnected[t] # s
  BY <1>2 DEF IndInv, PendingSound
<1>4. gone => s \in activated
  BY <1>2 DEF IndInv, PendingSound
<1>5. NoPending.old_session = NoSession
  BY DEF NoPending
<1> HIDE DEF here, gone
<1>6. gone => here
  BY DEF gone
<1>7. PendingSound'
  <2> SUFFICES ASSUME NEW k \in Key, NEW u \in Session,
                      pending_departures'[k].old_session = u
               PROVE  /\ KeyOf(u)' = k
                      /\ phase'[u] = "ended"
                      /\ timer'[u] # "none"
                      /\ ~Observer(u)'
                      /\ u \notin left'
                      /\ pending_departures'[k].was_active => u \in activated'
                      /\ \A t \in Session : reconnected'[t] # u
    BY DEF PendingSound
  <2>1. /\ pending_departures'[k] = pending_departures[k]
        /\ ~(here /\ k = KeyOf(s))
    BY <1>1, <1>5, NoSessionAssumption
  <2>2. /\ KeyOf(u) = k
        /\ phase[u] = "ended"
        /\ timer[u] # "none"
        /\ ~Observer(u)
        /\ u \notin left
        /\ pending_departures[k].was_active => u \in activated
        /\ \A t \in Session : reconnected[t] # u
    BY <2>1 DEF IndInv, PendingSound
  <2>3. u # s
    BY <2>1, <2>2 DEF here
  <2> QED BY <1>1, <1>2, <2>1, <2>2, <2>3
<1>8. TimerSound'
  <2> SUFFICES ASSUME NEW u \in Session, timer'[u] = "armed"
               PROVE  pending_departures'[KeyOf(u)'].old_session = u
    BY DEF TimerSound
  <2>1. timer[u] = "armed" /\ u # s
    BY <1>1
  <2>2. pending_departures[KeyOf(u)].old_session = u
    BY <2>1 DEF IndInv, TimerSound
  <2>3. ~(here /\ KeyOf(u) = KeyOf(s))
    BY <2>1, <2>2 DEF here
  <2> QED BY <1>1, <1>2, <2>2, <2>3
<1>9. Lifecycle'
  BY <1>1, <1>3, <1>6 DEF IndInv, Lifecycle
<1>10. TakeOverSound'
  BY <1>1, <1>2, <1>3, <1>6 DEF IndInv, TakeOverSound
<1>11. SuppressSound'
  BY <1>1, <1>2 DEF IndInv, SuppressSound
<1>12. RosterComplete'
  BY <1>1, <1>2, <1>3 DEF IndInv, RosterComplete, Present
<1>13. LeftIsFinal'
  BY <1>1, <1>3, <1>4, <1>6 DEF IndInv, LeftIsFinal
<1>14. ObserverInvisible'
  BY <1>1, <1>2, <1>3, <1>5, <1>6, NoSessionAssumption
  DEF IndInv, ObserverInvisible
<1>15. ActiveIsAnnounced'
  BY <1>1, <1>2 DEF IndInv, ActiveIsAnnounced
<1> QED BY <1>7, <1>8, <1>9, <1>10, <1>11, <1>12, <1>13, <1>14, <1>15
        DEF IndInv

\* The invariant is inductive: one lemma per handler above, and stuttering.
LEMMA IndInvStep == IndInv /\ [Next]_vars => IndInv'
<1> SUFFICES ASSUME IndInv, [Next]_vars PROVE IndInv'
  OBVIOUS
<1>1. TypeOK'
  BY TypeStep DEF IndInv
<1>2. CASE UNCHANGED vars
  BY <1>1, <1>2
  DEF vars, serverVars, eventVars, IndInv, Lifecycle, PendingSound,
      TimerSound, TakeOverSound, SuppressSound, RosterComplete, Present,
      LeftIsFinal, ObserverInvisible, ActiveIsAnnounced, KeyOf, Observer
<1>3. CASE Next
  BY <1>1, <1>3, ConnectInv, JoinReservedUserInv, JoinUnknownSessionInv,
     JoinRoomInv, ActivateConnectionInv, ClientMessageInv,
     DisconnectObserverInv, DisconnectInv, GracePeriodElapsesInv,
     ExecutePendingDepartureInv
  DEF Next
<1> QED BY <1>2, <1>3

\* The inductive invariant holds in every reachable state.
THEOREM IndInvHolds == Spec => []IndInv
BY IndInvInit, IndInvStep, PTL DEF Spec

-----------------------------------------------------------------------------
(* The safety properties.                                                  *)

\* Every participant that is up is on the member list of its room, whatever
\* departures and reconnections go on around it.
THEOREM RosterIsComplete == Spec => []RosterComplete
<1>1. IndInv => RosterComplete
  BY DEF IndInv
<1> QED BY <1>1, IndInvHolds, PTL

\* A reconnection is silent, whichever way JoinRoom and the timer of the
\* pending departure race.
THEOREM ReconnectionStaysSilent == Spec => []ReconnectionIsSilent
<1>1. IndInv => ReconnectionIsSilent
  BY DEF IndInv, TypeOK, TakeOverSound, ReconnectionIsSilent
<1> QED BY <1>1, IndInvHolds, PTL

\* PARTICIPANT_LEFT is only about a participant that was Active, is gone, is
\* unlisted and was not taken over from.
THEOREM LeftStaysFinal == Spec => []LeftIsFinal
<1>1. IndInv => LeftIsFinal
  BY DEF IndInv
<1> QED BY <1>1, IndInvHolds, PTL

\* Observers leave no trace in a meeting.
THEOREM ObserverStaysInvisible == Spec => []ObserverInvisible
<1>1. IndInv => ObserverInvisible
  BY DEF IndInv
<1> QED BY <1>1, IndInvHolds, PTL

\* A pending departure and its timer never part.
THEOREM PendingKeepsTimer == Spec => []PendingHasTimer
<1>1. IndInv => PendingHasTimer
  <2> SUFFICES ASSUME IndInv PROVE PendingHasTimer
    OBVIOUS
  <2>1. \A k \in Key :
           pending_departures[k].old_session \in Session \cup {NoSession}
    BY DEF IndInv, TypeOK, PendingDepartureState
  <2> QED BY <2>1 DEF IndInv, PendingSound, TimerSound, PendingHasTimer
<1> QED BY <1>1, IndInvHolds, PTL

\* A participant that is Active was announced, or took over from a departure
\* of the same user in the same room.
THEOREM ActiveStaysAnnounced == Spec => []ActiveIsAnnounced
<1>1. IndInv => ActiveIsAnnounced
  BY DEF IndInv
<1> QED BY <1>1, IndInvHolds, PTL

\* The actor's maps fit together, for any sessions, servers, rooms and users
\* (JoinRoom, Disconnect, ExecutePendingDeparture).
THEOREM RoomsStaySound == Spec => []RoomsSound
BY TypeCorrect, RosterIsComplete, PendingKeepsTimer, PTL DEF RoomsSound

\* What peers are told stays consistent over all sessions of a user
\* (ActivateConnection, ExecutePendingDeparture).
THEOREM AnnouncementsStaySound == Spec => []AnnouncementsSound
BY ReconnectionStaysSilent, LeftStaysFinal, ActiveStaysAnnounced, PTL
DEF AnnouncementsSound

\* A participant that joins is told of every participant up in the room on
\* its server, and does not restart a meeting that is going on.
THEOREM NewcomerStaysTold == Spec => NewcomerIsTold
<1> DEFINE Told ==
      \A s, t \in Session :
          /\ phase[s] = "connected" /\ phase'[s] = "joined" /\ ~Observer(s)
          /\ Present(t) /\ SamePlace(s, t)
          => t \in existing'[s] /\ s \notin meeting_started'
<1>1. IndInv /\ [Next]_vars => [Told]_vars
  <2> SUFFICES ASSUME IndInv, Next,
                      NEW s \in Session, NEW t \in Session,
                      phase[s] = "connected", phase'[s] = "joined",
                      ~Observer(s), Present(t), SamePlace(s, t)
               PROVE  t \in existing'[s] /\ s \notin meeting_started'
    OBVIOUS
  <2>1. JoinRoom(s)
    <3>1. PICK u \in Session :
             \/ Connect(u) \/ JoinReservedUser(u) \/ JoinUnknownSession(u)
             \/ JoinRoom(u) \/ ActivateConnection(u) \/ ClientMessage(u)
             \/ DisconnectObserver(u) \/ Disconnect(u)
             \/ GracePeriodElapses(u) \/ ExecutePendingDeparture(u)
      BY DEF Next
    <3>2. ~(\/ Connect(u) \/ JoinReservedUser(u) \/ JoinUnknownSession(u)
            \/ ActivateConnection(u))
      BY DEF Connect, JoinReservedUser, JoinUnknownSession,
             ActivateConnection, IndInv, TypeOK
    <3>3. ~(DisconnectObserver(u) \/ Disconnect(u))
      BY DEF DisconnectObserver, Disconnect, DropSession, IndInv, TypeOK
    <3>4. ~(\/ ClientMessage(u) \/ GracePeriodElapses(u)
            \/ ExecutePendingDeparture(u))
      BY DEF ClientMessage, GracePeriodElapses, ExecutePendingDeparture
    <3>5. JoinRoom(u) => u = s
      BY DEF JoinRoom, IndInv, TypeOK
    <3> QED BY <3>1, <3>2, <3>3, <3>4, <3>5
  <2>2. t \in room_members \ StaleMembers(s)
    <3>1. t \in room_members /\ phase[t] # "ended"
      BY DEF IndInv, RosterComplete, Present
    <3>2. t # OldSession(s)
      BY <3>1, OldSessionFacts, NoSessionAssumption
    <3> QED BY <3>1, <3>2 DEF StaleMembers, OldSession
  <2>3. t \in ExistingMembers(s)
    BY <2>2 DEF ExistingMembers
  <2>4. s \notin meeting_started
    BY DEF IndInv, Lifecycle
  <2> QED BY <2>1, <2>3, <2>4 DEF JoinRoom, IndInv, TypeOK
<1>2. Spec => [][Told]_vars
  BY <1>1, IndInvHolds, PTL DEF Spec
<1> QED BY <1>2 DEF NewcomerIsTold

-----------------------------------------------------------------------------
(* ChatServer implements Presence: initial states map to initial states,   *)
(* and every step to a step of Presence or to none.                        *)

\* Besides IndInv: what is known of a session's activity agrees with its
\* phase, and a pending departure remembers it.
ActiveSound ==
    /\ \A s \in Session :
        /\ phase[s] = "activated" => s \in activated
        /\ phase[s] = "activated" => connection_states[s] = "Active"
        /\ phase[s] \in {"idle", "connected", "joined", "refused"} =>
              s \notin activated /\ connection_states[s] # "Active"
        /\ phase[s] = "ended" => connection_states[s] = "None"
    /\ \A k \in Key, s \in Session :
        pending_departures[k].old_session = s /\ s \in activated =>
            pending_departures[k].was_active

PresenceInv == IndInv /\ ActiveSound

-----------------------------------------------------------------------------
(* The invariant.                                                          *)

\* Initially no session is active and nothing is pending.
LEMMA ActiveSoundInit == Init => ActiveSound
BY NoSessionAssumption DEF Init, ActiveSound, NoPending

\* A take-over, entry by entry, as the departures are concerned.
LEMMA TakeOverActive ==
    ASSUME PresenceInv, NEW s \in Session, TakeOver(s),
           phase[s] \in {"idle", "connected"},
           NEW p \in {"joined", "refused"},
           phase' = [phase EXCEPT ![s] = p],
           UNCHANGED <<connection_states, activated>>
    PROVE  ActiveSound'
<1>1. TypeOK
  BY DEF PresenceInv, IndInv
<1>2. \A k \in Key : pending_departures'[k] =
          IF k = KeyOf(s) THEN NoPending ELSE pending_departures[k]
  BY <1>1, TakeOverEffect
<1>3. \A t \in Session : phase'[t] = IF t = s THEN p ELSE phase[t]
  BY <1>1 DEF TypeOK
<1> QED
  BY <1>2, <1>3, NoSessionAssumption DEF PresenceInv, ActiveSound, NoPending

\* Every step preserves it.
LEMMA ActiveSoundStep ==
    ASSUME PresenceInv, [Next]_vars
    PROVE  ActiveSound'
<1> USE NoSessionAssumption
<1> USE DEF ActiveSound
<1>0. TypeOK /\ ActiveSound
  BY DEF PresenceInv, IndInv
<1>1. CASE UNCHANGED vars
  BY <1>0, <1>1 DEF vars, serverVars, eventVars
<1>2. ASSUME NEW s \in Session, Connect(s) PROVE ActiveSound'
  BY <1>0, <1>2 DEF Connect, TypeOK, eventVars
<1>3. ASSUME NEW s \in Session, JoinReservedUser(s) PROVE ActiveSound'
  BY <1>0, <1>3 DEF JoinReservedUser, TypeOK, serverVars, eventVars
<1>4. ASSUME NEW s \in Session, JoinUnknownSession(s) PROVE ActiveSound'
  <2>1. /\ TakeOver(s)
        /\ phase[s] \in {"idle", "connected"}
        /\ phase' = [phase EXCEPT ![s] = "refused"]
        /\ UNCHANGED <<connection_states, activated>>
    BY <1>4 DEF JoinUnknownSession
  <2> QED
    BY <2>1, TakeOverActive
<1>5. ASSUME NEW s \in Session, JoinRoom(s) PROVE ActiveSound'
  <2>1. /\ TakeOver(s)
        /\ phase[s] \in {"idle", "connected"}
        /\ phase' = [phase EXCEPT ![s] = "joined"]
        /\ UNCHANGED <<connection_states, activated>>
    BY <1>5 DEF JoinRoom
  <2> QED
    BY <2>1, TakeOverActive
<1>6. ASSUME NEW s \in Session, ActivateConnection(s) PROVE ActiveSound'
  <2>1. \A k \in Key : pending_departures[k].old_session # s
    BY <1>6 DEF ActivateConnection, PresenceInv, IndInv, PendingSound
  <2> QED
    BY <1>0, <1>6, <2>1 DEF ActivateConnection, TypeOK
<1>7. ASSUME NEW s \in Session, ClientMessage(s) PROVE ActiveSound'
  BY <1>0, <1>7 DEF ClientMessage, serverVars
<1>8. ASSUME NEW s \in Session, DisconnectObserver(s) PROVE ActiveSound'
  BY <1>0, <1>8 DEF DisconnectObserver, DropSession, TypeOK
<1>9. ASSUME NEW s \in Session, Disconnect(s) PROVE ActiveSound'
  <2>1. \A k \in Key : pending_departures'[k] =
            IF k = KeyOf(s)
            THEN [old_session |-> s, was_active |-> WasActive(s)]
            ELSE pending_departures[k]
    BY <1>0, <1>9 DEF Disconnect, TypeOK
  <2>2. /\ \A t \in Session :
              /\ phase'[t] = IF t = s THEN "ended" ELSE phase[t]
              /\ connection_states'[t] = IF t = s THEN "None"
                                         ELSE connection_states[t]
        /\ activated' = activated
    BY <1>0, <1>9 DEF Disconnect, DropSession, TypeOK, eventVars
  <2>3. s \in activated => WasActive(s)
    BY <1>0, <1>9 DEF Disconnect, WasActive
  <2> QED
    BY <1>0, <2>1, <2>2, <2>3
<1>10. ASSUME NEW s \in Session, GracePeriodElapses(s) PROVE ActiveSound'
  BY <1>0, <1>10 DEF GracePeriodElapses, eventVars
<1>11. ASSUME NEW s \in Session, ExecutePendingDeparture(s)
       PROVE  ActiveSound'
  <2>1. /\ UNCHANGED <<phase, connection_states, activated>>
        /\ \A k \in Key :
              \/ pending_departures'[k] = pending_departures[k]
              \/ pending_departures'[k] = NoPending
    BY <1>0, <1>11 DEF ExecutePendingDeparture, TypeOK
  <2> QED
    BY <1>0, <2>1 DEF NoPending
<1> QED
  BY <1>1, <1>2, <1>3, <1>4, <1>5, <1>6, <1>7, <1>8, <1>9, <1>10, <1>11
     DEF Next

\* The invariant the refinement rests on.
THEOREM PresenceInvHolds == Spec => []PresenceInv
<1>1. Init => PresenceInv
  BY IndInvInit, ActiveSoundInit DEF PresenceInv
<1>2. PresenceInv /\ [Next]_vars => PresenceInv'
  BY IndInvStep, ActiveSoundStep DEF PresenceInv
<1> QED
  BY <1>1, <1>2, PTL DEF Spec

-----------------------------------------------------------------------------
(* The steps.                                                              *)

\* The sessions that are waited for in place of which s may come: the one
\* whose departure is pending for its user, if there is one.
LEMMA WaitedForIs ==
    ASSUME PresenceInv, NEW s \in Session, phase[s] # "ended"
    PROVE  Promise!WaitedFor(s) =
               IF OldSession(s) = NoSession THEN {} ELSE {OldSession(s)}
<1>1. /\ OldSession(s) \in Session \cup {NoSession}
      /\ OldSession(s) # NoSession => /\ KeyOf(OldSession(s)) = KeyOf(s)
                                      /\ phase[OldSession(s)] = "ended"
  BY OldSessionFacts DEF PresenceInv
<1>2. ASSUME NEW t \in Session
      PROVE  StageOf(t) \in {"away", "failed"} <=>
                 phase[t] = "ended" /\ OldSession(t) = t
  BY DEF StageOf, OldSession
<1>3. ASSUME NEW t \in Session
      PROVE  KeyOf(t) = KeyOf(s) <=> /\ who[t].server = who[s].server
                                     /\ who[t].room = who[s].room
                                     /\ who[t].user = who[s].user
  BY DEF KeyOf
<1>4. ASSUME NEW t \in Session
      PROVE  t \in Promise!WaitedFor(s) <=>
                 /\ t # s
                 /\ phase[t] = "ended"
                 /\ OldSession(t) = t
                 /\ KeyOf(t) = KeyOf(s)
  BY <1>2, <1>3 DEF Promise!WaitedFor, Promise!Waited
<1>5. ASSUME NEW t \in Session, KeyOf(t) = KeyOf(s)
      PROVE  OldSession(t) = OldSession(s)
  BY <1>5 DEF OldSession
<1>6. Promise!WaitedFor(s) \subseteq Session
  BY DEF Promise!WaitedFor
<1> QED
  BY <1>1, <1>4, <1>5, <1>6, NoSessionAssumption

\* A session moves when its stage and those of others are as said.
LEMMA MovesIf ==
    ASSUME NEW s \in Session, NEW to, NEW over,
           \A t \in Session :
               StageOf(t)' = IF t = s THEN to
                             ELSE IF t \in over THEN "over"
                             ELSE StageOf(t)
    PROVE  Promise!Moves(s, to, over)
BY DEF Promise!Moves

\* A step that keeps all stages and announcements is none of Presence.
LEMMA StutterIf ==
    ASSUME \A t \in Session : StageOf(t)' = StageOf(t),
           UNCHANGED <<who, joined, left>>
    PROVE  UNCHANGED Promise!presenceVars
BY DEF Promise!presenceVars

\* A join that takes over is Return; any other changes no stage.
LEMMA TakeOverStep ==
    ASSUME PresenceInv, NEW s \in Session, TakeOver(s),
           phase[s] \in {"idle", "connected"},
           NEW p \in {"joined", "refused"},
           phase' = [phase EXCEPT ![s] = p],
           UNCHANGED <<who, left, joined, activated>>
    PROVE  [Promise!PresenceNext]_(Promise!presenceVars)
<1> DEFINE old == OldSession(s)
<1>1. TypeOK /\ IndInv
  BY DEF PresenceInv, IndInv
<1>2. /\ old \in Session \cup {NoSession}
      /\ old # NoSession => /\ KeyOf(old) = KeyOf(s)
                            /\ phase[old] = "ended"
  BY <1>1, OldSessionFacts
<1>3. /\ \A k \in Key : pending_departures'[k] =
            IF k = KeyOf(s) THEN NoPending ELSE pending_departures[k]
      /\ \A t \in Session : reconnected'[t] =
            IF t = s THEN old ELSE reconnected[t]
      /\ \A t \in Session : phase'[t] = IF t = s THEN p ELSE phase[t]
  BY <1>1, TakeOverEffect DEF TypeOK
<1>4. \A t \in Session : KeyOf(t)' = KeyOf(t) /\ KeyOf(t) \in Key
  BY <1>1, KeyOfType DEF KeyOf
<1>5. reconnected[s] = NoSession
  BY <1>1 DEF IndInv, Lifecycle
<1>6. StageOf(s) = "out" /\ StageOf(s)' = IF old = NoSession THEN "out"
                                          ELSE "back"
  BY <1>3, <1>5 DEF StageOf
<1>7. \A t \in Session \ {s} :
          KeyOf(t) = KeyOf(s) =>
              pending_departures[KeyOf(t)].old_session = old
  BY DEF OldSession
<1>8. ASSUME NEW t \in Session, t # s
      PROVE  StageOf(t)' = IF t = old THEN "over" ELSE StageOf(t)
  <2>1. /\ phase'[t] = phase[t] /\ reconnected'[t] = reconnected[t]
        /\ activated' = activated
    BY <1>3, <1>8
  <2>2. CASE KeyOf(t) # KeyOf(s)
    <3>1. pending_departures'[KeyOf(t)'] = pending_departures[KeyOf(t)]
      BY <1>3, <1>4, <2>2
    <3>2. t # old
      BY <1>2, <2>2, NoSessionAssumption
    <3> QED
      BY <2>1, <3>1, <3>2 DEF StageOf
  <2>3. CASE KeyOf(t) = KeyOf(s)
    <3>1. pending_departures'[KeyOf(t)'].old_session = NoSession
      BY <1>3, <1>4, <2>3 DEF NoPending
    <3>2. pending_departures[KeyOf(t)].old_session = old
      BY <1>7, <1>8, <2>3
    <3> QED
      BY <1>2, <2>1, <3>1, <3>2, NoSessionAssumption DEF StageOf
  <2> QED
    BY <2>2, <2>3
<1> HIDE DEF old
<1>9. CASE old = NoSession
  <2>1. \A t \in Session : StageOf(t)' = StageOf(t)
    BY <1>6, <1>8, <1>9, NoSessionAssumption
  <2> QED
    BY <2>1, StutterIf
<1>10. CASE old # NoSession
  <2>1. Promise!WaitedFor(s) = {old}
    BY <1>10, WaitedForIs DEF old
  <2>2. Promise!Moves(s, "back", Promise!WaitedFor(s))
    <3>1. \A t \in Session :
              StageOf(t)' = IF t = s THEN "back"
                            ELSE IF t \in Promise!WaitedFor(s) THEN "over"
                            ELSE StageOf(t)
      BY <1>6, <1>8, <1>10, <2>1
    <3> QED
      BY <3>1, MovesIf
  <2>3. Promise!Return(s)
    BY <1>6, <2>1, <2>2 DEF Promise!Return
  <2> QED
    BY <2>3 DEF Promise!PresenceNext
<1> QED
  BY <1>9, <1>10

\* An activation is Enter: it is announced just if the session did not take
\* over and is no observer's.
LEMMA ActivateConnectionStep ==
    ASSUME PresenceInv, NEW s \in Session, ActivateConnection(s)
    PROVE  Promise!PresenceNext
<1>1. TypeOK /\ IndInv /\ ActiveSound
  BY DEF PresenceInv, IndInv
<1>2. /\ phase[s] = "joined" /\ phase'[s] = "activated"
      /\ \A t \in Session \ {s} : phase'[t] = phase[t]
      /\ \A t \in Session \ {s} : t \in activated' <=> t \in activated
      /\ UNCHANGED <<who, pending_departures, reconnected, left>>
  BY <1>1 DEF ActivateConnection, TypeOK
<1>3. StageOf(s)' = "in"
  BY <1>2 DEF StageOf
<1>4. \A t \in Session \ {s} : StageOf(t)' = StageOf(t)
  BY <1>2 DEF StageOf, KeyOf
<1>5. Promise!Moves(s, "in", {})
  BY <1>3, <1>4, MovesIf
<1>6. StageOf(s) = IF reconnected[s] = NoSession THEN "out" ELSE "back"
  BY <1>2 DEF StageOf
<1>7. connection_states[s] # "Active"
  BY <1>1, <1>2 DEF ActiveSound
<1>8. CASE Observer(s)
  <2>1. s \notin room_members
    BY <1>1, <1>8 DEF IndInv, ObserverInvisible
  <2>2. joined' = joined
    BY <2>1 DEF ActivateConnection
  <2>3. Promise!Enter(s)
    BY <1>2, <1>5, <1>6, <1>8, <2>2 DEF Promise!Enter, Observer
  <2> QED
    BY <2>3 DEF Promise!PresenceNext
<1>9. CASE ~Observer(s)
  <2>1. s \in room_members
    BY <1>1, <1>2, <1>9 DEF IndInv, RosterComplete, Present
  <2>2. s \in suppress_join_broadcast <=> reconnected[s] # NoSession
    <3>1. reconnected[s] \in Session \cup {NoSession}
      BY <1>1 DEF TypeOK
    <3> QED
      BY <1>1, <1>2, <1>9, <3>1 DEF IndInv, TakeOverSound, SuppressSound
  <2>3. joined' = IF reconnected[s] # NoSession THEN joined
                  ELSE joined \cup {s}
    BY <1>7, <2>1, <2>2 DEF ActivateConnection
  <2>4. Promise!Enter(s)
    BY <1>2, <1>5, <1>6, <1>9, <2>3 DEF Promise!Enter, Observer
  <2> QED
    BY <2>4 DEF Promise!PresenceNext
<1> QED
  BY <1>8, <1>9

\* A stage of a session that is not over is one of the first three.
LEMMA StageBeforeEnd ==
    ASSUME NEW s \in Session, phase[s] # "ended"
    PROVE  StageOf(s) \in {"out", "back", "in"}
BY DEF StageOf

\* The end of an observer's session is Vanish.
LEMMA DisconnectObserverStep ==
    ASSUME PresenceInv, NEW s \in Session, DisconnectObserver(s)
    PROVE  Promise!PresenceNext
<1>1. TypeOK /\ IndInv
  BY DEF PresenceInv, IndInv
<1>2. /\ phase[s] # "ended" /\ phase'[s] = "ended" /\ Observer(s)
      /\ \A t \in Session \ {s} : phase'[t] = phase[t]
      /\ left' = left
      /\ UNCHANGED <<who, pending_departures, reconnected, activated, joined>>
  BY <1>1 DEF DisconnectObserver, DropSession, LeaveRooms, TypeOK
<1>3. pending_departures[KeyOf(s)].old_session # s
  BY <1>1, <1>2, KeyOfType DEF IndInv, PendingSound
<1>4. StageOf(s)' = "over"
  BY <1>2, <1>3 DEF StageOf, KeyOf
<1>5. \A t \in Session \ {s} : StageOf(t)' = StageOf(t)
  BY <1>2 DEF StageOf, KeyOf
<1>6. Promise!Moves(s, "over", {})
  BY <1>4, <1>5, MovesIf
<1>7. Promise!Vanish(s)
  BY <1>2, <1>6, StageBeforeEnd DEF Promise!Vanish, Observer
<1> QED
  BY <1>7 DEF Promise!PresenceNext

\* The end of a participant's session is Lose: its departure replaces any
\* that is pending for the user.
LEMMA DisconnectStep ==
    ASSUME PresenceInv, NEW s \in Session, Disconnect(s)
    PROVE  Promise!PresenceNext
<1> DEFINE old == OldSession(s)
<1>1. TypeOK /\ IndInv /\ ActiveSound
  BY DEF PresenceInv, IndInv
<1>2. /\ phase[s] \in {"joined", "activated", "refused"} /\ ~Observer(s)
      /\ phase'[s] = "ended"
      /\ \A t \in Session \ {s} : phase'[t] = phase[t]
      /\ UNCHANGED <<who, reconnected, activated, joined, left>>
  BY <1>1 DEF Disconnect, DropSession, TypeOK, eventVars
<1>3. \A k \in Key : pending_departures'[k] =
          IF k = KeyOf(s)
          THEN [old_session |-> s, was_active |-> WasActive(s)]
          ELSE pending_departures[k]
  BY <1>1 DEF Disconnect, TypeOK
<1>4. \A t \in Session : KeyOf(t)' = KeyOf(t) /\ KeyOf(t) \in Key
  BY <1>1, <1>2, KeyOfType DEF KeyOf
<1>5. Promise!WaitedFor(s) = IF old = NoSession THEN {} ELSE {old}
  BY <1>2, WaitedForIs
<1>6. /\ old \in Session \cup {NoSession}
      /\ old # NoSession => KeyOf(old) = KeyOf(s) /\ phase[old] = "ended"
  BY <1>1, OldSessionFacts
<1>7. /\ StageOf(s) = "in" <=> phase[s] = "activated"
      /\ StageOf(s) \in {"out", "back", "in"}
  BY <1>2, StageBeforeEnd DEF StageOf
<1>8. StageOf(s)' = IF StageOf(s) = "in" THEN "away" ELSE "failed"
  <2>1. pending_departures'[KeyOf(s)'].old_session = s
    BY <1>3, <1>4
  <2>2. s \in activated' <=> phase[s] = "activated"
    BY <1>1, <1>2 DEF ActiveSound
  <2> QED
    BY <1>2, <1>7, <2>1, <2>2 DEF StageOf
<1>9. ASSUME NEW t \in Session, t # s
      PROVE  StageOf(t)' = IF t = old THEN "over" ELSE StageOf(t)
  <2>1. /\ phase'[t] = phase[t] /\ reconnected'[t] = reconnected[t]
        /\ activated' = activated
    BY <1>2, <1>9
  <2>2. CASE KeyOf(t) # KeyOf(s)
    <3>1. pending_departures'[KeyOf(t)'] = pending_departures[KeyOf(t)]
      BY <1>3, <1>4, <2>2
    <3>2. t # old
      BY <1>6, <2>2, NoSessionAssumption
    <3> QED
      BY <2>1, <3>1, <3>2 DEF StageOf
  <2>3. CASE KeyOf(t) = KeyOf(s)
    <3>1. pending_departures'[KeyOf(t)'].old_session = s
      BY <1>3, <1>4, <2>3
    <3>2. pending_departures[KeyOf(t)].old_session = old
      BY <2>3 DEF OldSession
    <3> QED
      BY <1>6, <1>9, <2>1, <3>1, <3>2, NoSessionAssumption DEF StageOf
  <2> QED
    BY <2>2, <2>3
<1> HIDE DEF old
<1>10. \A t \in Session :
          StageOf(t)' =
              IF t = s THEN IF StageOf(s) = "in" THEN "away" ELSE "failed"
              ELSE IF t \in Promise!WaitedFor(s) THEN "over"
              ELSE StageOf(t)
  BY <1>5, <1>8, <1>9, NoSessionAssumption
<1>11. Promise!Moves(s, IF StageOf(s) = "in" THEN "away" ELSE "failed",
                     Promise!WaitedFor(s))
  BY <1>10, MovesIf
<1>12. Promise!Lose(s)
  BY <1>2, <1>7, <1>11 DEF Promise!Lose, Observer
<1> QED
  BY <1>12 DEF Promise!PresenceNext

\* A departure that is executed is GiveUp; one that was cancelled or replaced
\* changes nothing.
LEMMA ExecutePendingDepartureStep ==
    ASSUME PresenceInv, NEW s \in Session, ExecutePendingDeparture(s)
    PROVE  [Promise!PresenceNext]_(Promise!presenceVars)
<1>1. TypeOK /\ IndInv /\ ActiveSound
  BY DEF PresenceInv, IndInv
<1>2. UNCHANGED <<who, phase, reconnected, activated, joined>>
  BY DEF ExecutePendingDeparture
<1>3. \A t \in Session : KeyOf(t)' = KeyOf(t) /\ KeyOf(t) \in Key
  BY <1>1, <1>2, KeyOfType DEF KeyOf
<1>4. CASE pending_departures[KeyOf(s)].old_session # s
  <2>1. UNCHANGED <<pending_departures, left>>
    BY <1>4 DEF ExecutePendingDeparture, StillPending
  <2>2. \A t \in Session : StageOf(t)' = StageOf(t)
    BY <1>2, <2>1 DEF StageOf, KeyOf
  <2> QED
    BY <1>2, <2>1, <2>2, StutterIf
<1>5. CASE pending_departures[KeyOf(s)].old_session = s
  <2>1. \A k \in Key : pending_departures'[k] =
            IF k = KeyOf(s) THEN NoPending ELSE pending_departures[k]
    BY <1>1, <1>5 DEF ExecutePendingDeparture, StillPending, TypeOK
  <2>2. phase[s] = "ended" /\ connection_states[s] = "None"
    BY <1>1, <1>3, <1>5 DEF IndInv, PendingSound, ActiveSound
  <2>3. pending_departures[KeyOf(s)].was_active <=> s \in activated
    BY <1>1, <1>3, <1>5 DEF IndInv, PendingSound, ActiveSound
  <2>4. left' = IF s \in activated THEN left \cup {s} ELSE left
    BY <1>5, <2>2, <2>3
       DEF ExecutePendingDeparture, StillPending, LeaveRooms
  <2>5. StageOf(s) = IF s \in activated THEN "away" ELSE "failed"
    BY <1>5, <2>2 DEF StageOf
  <2>6. StageOf(s)' = "over"
    <3>1. pending_departures'[KeyOf(s)'].old_session = NoSession
      BY <1>3, <2>1 DEF NoPending
    <3> QED
      BY <1>2, <2>2, <3>1, NoSessionAssumption DEF StageOf
  <2>7. ASSUME NEW t \in Session \ {s} PROVE StageOf(t)' = StageOf(t)
    <3>1. CASE KeyOf(t) = KeyOf(s)
      <4>1. /\ pending_departures'[KeyOf(t)'].old_session = NoSession
            /\ pending_departures[KeyOf(t)].old_session = s
        BY <1>3, <1>5, <2>1, <3>1 DEF NoPending
      <4> QED
        BY <1>2, <4>1, NoSessionAssumption DEF StageOf
    <3>2. CASE KeyOf(t) # KeyOf(s)
      <4>1. pending_departures'[KeyOf(t)'] = pending_departures[KeyOf(t)]
        BY <1>3, <2>1, <3>2
      <4> QED
        BY <1>2, <4>1 DEF StageOf
    <3> QED
      BY <3>1, <3>2
  <2>8. Promise!Moves(s, "over", {})
    BY <2>6, <2>7, MovesIf
  <2>9. Promise!GiveUp(s)
    BY <1>2, <2>4, <2>5, <2>8 DEF Promise!GiveUp, Promise!Waited
  <2> QED
    BY <2>9 DEF Promise!PresenceNext
<1> QED
  BY <1>4, <1>5

-----------------------------------------------------------------------------
(* The refinement.                                                         *)

\* Initial states map to initial states.
LEMMA PresenceInitOK == Init => Promise!PresenceInit
<1> SUFFICES ASSUME Init PROVE Promise!PresenceInit
  OBVIOUS
<1>1. \A s \in Session : StageOf(s) = "out"
  BY DEF Init, StageOf
<1> QED
  BY <1>1 DEF Init, Promise!PresenceInit

\* Every step maps to a step of Presence or leaves its variables unchanged.
LEMMA PresenceStep ==
    PresenceInv /\ [Next]_vars
        => [Promise!PresenceNext]_(Promise!presenceVars)
<1> SUFFICES ASSUME PresenceInv, [Next]_vars
             PROVE  [Promise!PresenceNext]_(Promise!presenceVars)
  OBVIOUS
<1>0. TypeOK /\ IndInv
  BY DEF PresenceInv, IndInv
<1>1. CASE UNCHANGED vars
  <2>1. \A t \in Session : StageOf(t)' = StageOf(t)
    BY <1>1 DEF vars, serverVars, eventVars, StageOf, KeyOf
  <2> QED
    BY <1>1, <2>1, StutterIf DEF vars, eventVars
<1>2. ASSUME NEW s \in Session, Connect(s)
      PROVE  UNCHANGED Promise!presenceVars
  <2>1. \A t \in Session : StageOf(t)' = StageOf(t)
    BY <1>0, <1>2 DEF Connect, eventVars, TypeOK, StageOf, KeyOf
  <2> QED
    BY <1>2, <2>1, StutterIf DEF Connect, eventVars
<1>3. ASSUME NEW s \in Session, JoinReservedUser(s)
      PROVE  UNCHANGED Promise!presenceVars
  <2>1. \A t \in Session : StageOf(t)' = StageOf(t)
    BY <1>0, <1>3
       DEF JoinReservedUser, serverVars, eventVars, TypeOK, StageOf, KeyOf
  <2> QED
    BY <1>3, <2>1, StutterIf DEF JoinReservedUser, eventVars
<1>4. ASSUME NEW s \in Session, JoinUnknownSession(s)
      PROVE  [Promise!PresenceNext]_(Promise!presenceVars)
  <2>1. /\ TakeOver(s)
        /\ phase[s] \in {"idle", "connected"}
        /\ phase' = [phase EXCEPT ![s] = "refused"]
        /\ UNCHANGED <<who, left, joined, activated>>
    BY <1>4 DEF JoinUnknownSession
  <2> QED
    BY <2>1, TakeOverStep
<1>5. ASSUME NEW s \in Session, JoinRoom(s)
      PROVE  [Promise!PresenceNext]_(Promise!presenceVars)
  <2>1. /\ TakeOver(s)
        /\ phase[s] \in {"idle", "connected"}
        /\ phase' = [phase EXCEPT ![s] = "joined"]
        /\ UNCHANGED <<who, left, joined, activated>>
    BY <1>5 DEF JoinRoom
  <2> QED
    BY <2>1, TakeOverStep
<1>6. ASSUME NEW s \in Session, ClientMessage(s)
      PROVE  UNCHANGED Promise!presenceVars
  <2>1. \A t \in Session : StageOf(t)' = StageOf(t)
    BY <1>6 DEF ClientMessage, serverVars, StageOf, KeyOf
  <2> QED
    BY <1>6, <2>1, StutterIf DEF ClientMessage
<1>7. ASSUME NEW s \in Session, GracePeriodElapses(s)
      PROVE  UNCHANGED Promise!presenceVars
  <2>1. \A t \in Session : StageOf(t)' = StageOf(t)
    BY <1>7 DEF GracePeriodElapses, eventVars, StageOf, KeyOf
  <2> QED
    BY <1>7, <2>1, StutterIf DEF GracePeriodElapses, eventVars
<1> QED
  BY <1>1, <1>2, <1>3, <1>4, <1>5, <1>6, <1>7, ActivateConnectionStep,
     DisconnectObserverStep, DisconnectStep, ExecutePendingDepartureStep
     DEF Next

\* ChatServer implements Presence: whatever messages, timers and connections
\* race, sessions follow each other and are announced as Presence says.
THEOREM PresenceIsImplemented == Spec => ImplementsPresence
BY PresenceInitOK, PresenceStep, PresenceInvHolds, PTL
   DEF Spec, ImplementsPresence, Promise!PresenceSpec
=============================================================================
