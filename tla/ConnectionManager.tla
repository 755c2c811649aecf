-------------------------- MODULE ConnectionManager --------------------------
(***************************************************************************)
(* The client's connection manager: RTT election between WebSocket and     *)
(* WebTransport connections, automatic reconnection after a loss and       *)
(* re-election when the RTT degrades                                       *)
(* (videocall-client/src/connection/connection_manager.rs), driven by the  *)
(* timers of connection_controller.rs.                                     *)
(*                                                                         *)
(* The program runs on one thread: an action is what happens between two   *)
(* returns to the event loop, i.e. one transport callback, one timer tick  *)
(* or one piece of the asynchronous reconnection loop between two awaits.  *)
(* A connection id ("ws_0") is reused by every election, so a connection   *)
(* is a record with an instance number; the session the server assigns to  *)
(* a connection is the pair <<id, instance>>.  Instance numbers are taken  *)
(* from a small set: a number nothing refers to any more is as good as a   *)
(* new one.  There is no clock: a deadline is an action that may be taken  *)
(* at any time, so the model covers throttled and late timers too.         *)
(***************************************************************************)
EXTENDS Naturals, FiniteSets

CONSTANTS
    Id,                              \* ids of servers
    Configured,                      \* sets of servers that may be configured
    WebTransport,                    \* the ids that are WebTransport
    Creatable,                       \* sets of servers out of which connection
                                     \* objects can be created for those
                                     \* configured
    Inst,                            \* instance numbers
    Rtt,                             \* average RTTs in ms
    None,                            \* an absent value
    ELECTION_MIN_RTT_SAMPLES,        \* 2 in the code
    ELECTION_MAX_EXTENSIONS,         \* 2 in the code
    REELECTION_CONSECUTIVE_SAMPLES,  \* 5 in the code
    RECONNECT_CONSECUTIVE_ZERO_LIMIT \* 10 in the code

ASSUME ServerAssumption == WebTransport \subseteq Id /\ IsFiniteSet(Id)
ASSUME CreatableAssumption == Configured \cup Creatable \subseteq SUBSET Id
ASSUME InstAssumption == IsFiniteSet(Inst) /\ Cardinality(Inst) >= 3
ASSUME RttAssumption == Rtt \subseteq Nat
ASSUME NoneAssumption == None \notin Id \cup (Id \X Inst)
ASSUME LimitAssumption ==
    /\ ELECTION_MIN_RTT_SAMPLES \in Nat \ {0}
    /\ ELECTION_MAX_EXTENSIONS \in Nat
    /\ REELECTION_CONSECUTIVE_SAMPLES \in Nat \ {0}
    /\ RECONNECT_CONSECUTIVE_ZERO_LIMIT \in Nat \ {0}

VARIABLES
    servers,                \* the servers configured (websocket_urls and
                            \* webtransport_urls of the options)
    connections,            \* id -> connection or None
    old_active_connection,  \* the one a re-election is to replace, or None
    active_connection_id,
    rtt_responses,          \* connections with queued RTT responses
    rtt_measurements,       \* id -> samples and their average, or None
    election_state,         \* "Testing", "Elected" or "Failed"
    extensions_used,
    own_session_id,
    pending_session_ids,    \* id -> session assigned before the election
    reconnection_phase,     \* "Idle", "Reconnecting" or "Failed"
    loops,                  \* running reconnection loops
    baseline_rtt,           \* 0 when there is none
    degradation_counter,
    reelection_in_progress,
    intentionally_disconnected,
    reported                \* VideoCallClient's connection_state

connVars   == <<connections, old_active_connection, active_connection_id>>
rttVars    == <<rtt_responses, rtt_measurements>>
electVars  == <<election_state, extensions_used>>
sessVars   == <<own_session_id, pending_session_ids>>
reconVars  == <<reconnection_phase, loops>>
reelVars   == <<baseline_rtt, degradation_counter, reelection_in_progress>>
vars == <<servers, connVars, rttVars, electVars, sessVars, reconVars, reelVars,
          intentionally_disconnected, reported>>

-----------------------------------------------------------------------------
(* Connections *)

Session == Id \X Inst

(* assigned: what became of SESSION_ASSIGNED, "kept" for the election or    *)
(* "forwarded" to the client, whose own_session_id it then is.  stamp: the  *)
(* session written into the connection's heartbeats.                        *)
Connection ==
    [id: Id, inst: Inst,
     status: {"Connecting", "Connected", "Closed"},
     assigned: {"no", "kept", "forwarded"}, stamp: {"none", "own", "other"}]

SessionOf(c) == <<c.id, c.inst>>

Live == ({connections[i] : i \in Id} \cup {old_active_connection}) \ {None}

IsConnected(c) == c # None /\ c.status = "Connected"

(* The live connection c becomes d, wherever the manager keeps it. *)
InMap(c, d) == [i \in Id |-> IF connections[i] = c THEN d ELSE connections[i]]
InOld(c, d) == IF old_active_connection = c THEN d ELSE old_active_connection

Stamped(c, s) ==
    [c EXCEPT !.stamp = IF s = SessionOf(c) THEN "own" ELSE "other"]

(* get_active_connection, also the target of send_packet. *)
ActiveConnection ==
    IF active_connection_id = None THEN None
    ELSE IF connections[active_connection_id] # None
         THEN connections[active_connection_id]
    ELSE IF /\ old_active_connection # None
            /\ old_active_connection.id = active_connection_id
         THEN old_active_connection
    ELSE None

is_connected == active_connection_id # None /\ election_state = "Elected"

(* An instance number that no session still known to the manager has. *)
FreshInst(kept) ==
    CHOOSE n \in Inst :
        /\ own_session_id # None => own_session_id[2] # n
        /\ kept # None => kept.inst # n

(* The connections that an election creates, to the servers configured: one *)
(* whose connection object cannot be created is left out.                   *)
Created == {c \cap servers : c \in Creatable}

Candidates(created, n) ==
    [i \in Id |->
        IF i \in created
        THEN [id |-> i, inst |-> n, status |-> "Connecting",
              assigned |-> "no", stamp |-> "none"]
        ELSE None]

(* samples is capped at the number that makes a measurement count; answered *)
(* records whether the measured connection itself sent one of them.         *)
Measurement ==
    [samples: 0 .. ELECTION_MIN_RTT_SAMPLES, avg: Rtt \cup {0},
     answered: BOOLEAN]

(* An absent value is neither a connection nor a measurement. *)
ASSUME AbsentAssumption == None \notin Connection \cup Measurement

Unmeasured(created) ==
    [i \in Id |-> IF i \in created
                  THEN [samples |-> 0, avg |-> 0, answered |-> FALSE]
                  ELSE None]

-----------------------------------------------------------------------------
(* Elections *)

(* Reconnection loops: where one waits and its                              *)
(* consecutive_zero_connections.  Two suffice to see a second one started.  *)
LoopId == 1 .. 2
LoopState == [pc: {"none", "backoff", "election"},
              zero: 0 .. RECONNECT_CONSECUTIVE_ZERO_LIMIT]
NotRunning == [pc |-> "none", zero |-> 0]
Running == {l \in LoopId : loops[l] # NotRunning}

(* Responses still queued when an election starts are stale. *)
QueueAtStart_Kept == rtt_responses

QueueAtStart == {}

(* Measurements, queued responses and pending sessions of an earlier        *)
(* election are dropped before new candidates are created.                  *)
StartTesting(created, kept) ==
    /\ connections' = Candidates(created, FreshInst(kept))
    /\ old_active_connection' = kept
    /\ rtt_measurements' = Unmeasured(created)
    /\ rtt_responses' = QueueAtStart
    /\ pending_session_ids' = [i \in Id |-> None]
    /\ election_state' = "Testing"
    /\ extensions_used' = 0

Init ==
    /\ servers \in Configured
    /\ \E created \in Created :
        /\ connections = Candidates(created, CHOOSE n \in Inst : TRUE)
        /\ old_active_connection = None
        /\ active_connection_id = None
        /\ rtt_responses = {}
        /\ rtt_measurements = Unmeasured(created)
        /\ election_state = "Testing"
        /\ extensions_used = 0
        /\ own_session_id = None
        /\ pending_session_ids = [i \in Id |-> None]
        /\ reconnection_phase = "Idle"
        /\ loops = [l \in LoopId |-> NotRunning]
        /\ baseline_rtt = 0
        /\ degradation_counter = 0
        /\ reelection_in_progress = FALSE
        /\ intentionally_disconnected = FALSE
        /\ reported = "Testing"

-----------------------------------------------------------------------------
(* Transport callbacks.  A connection that was dropped calls back no more.  *)

(* on_connected: the handshake is done. *)
Opened(c) ==
    /\ c.status = "Connecting"
    /\ connections' = InMap(c, [c EXCEPT !.status = "Connected"])
    /\ UNCHANGED <<servers, old_active_connection, active_connection_id, rttVars,
                   electVars, sessVars, reconVars, reelVars,
                   intentionally_disconnected, reported>>

(* on_inbound_media, SESSION_ASSIGNED: applied and passed on to the client, *)
(* which calls set_own_session_id, if the connection's id is the elected    *)
(* one; otherwise kept for the election.                                    *)
SessionAssigned(c) ==
    LET s == SessionOf(c)
        elected == active_connection_id = c.id
        After(d) ==
            IF d = None THEN None
            ELSE [d EXCEPT !.assigned = IF d # c THEN @
                                        ELSE IF elected THEN "forwarded"
                                        ELSE "kept",
                           !.stamp = IF elected /\ d = ActiveConnection
                                     THEN Stamped(d, s).stamp ELSE @]
    IN  /\ c.status = "Connected" /\ c.assigned = "no"
        /\ connections' = [i \in Id |-> After(connections[i])]
        /\ old_active_connection' = After(old_active_connection)
        /\ IF elected
           THEN /\ own_session_id' = s
                /\ UNCHANGED pending_session_ids
           ELSE /\ pending_session_ids' =
                       [pending_session_ids EXCEPT ![c.id] = s]
                /\ UNCHANGED own_session_id
        /\ UNCHANGED <<servers, active_connection_id, rttVars, electVars,
                       reconVars, reelVars, intentionally_disconnected, reported>>

(* on_inbound_media, the echo of an RTT probe: queued under the id.         *)
(* Responses outside [0, RTT_SANITY_MAX_MS] are discarded later and not     *)
(* considered.  A WebSocket delivers in order, and SESSION_ASSIGNED is the  *)
(* first message of every connection.                                       *)
RttResponse(c) ==
    /\ c.status = "Connected"
    /\ c.id \notin WebTransport => c.assigned # "no"
    /\ rtt_responses' = rtt_responses \cup {SessionOf(c)}
    /\ UNCHANGED <<servers, connVars, rtt_measurements, electVars, sessVars,
                   reconVars, reelVars, intentionally_disconnected, reported>>

(* Starts a reconnection loop in a free slot.  The spawned task is polled   *)
(* as a microtask, before any timer or message: its first part, up to the   *)
(* backoff sleep, belongs to this step.                                     *)
SpawnLoop ==
    LET l == CHOOSE k \in LoopId :
                 Running # LoopId => loops[k] = NotRunning
    IN  loops' = [loops EXCEPT ![l] = [pc |-> "backoff", zero |-> 0]]

(* Whether the loss of the active connection starts a reconnection. *)
StartsReconnection_Always == TRUE

StartsReconnection == reconnection_phase # "Reconnecting"

(* on_connection_lost, which a dying transport may call again: once for its *)
(* error and once for its close event.  After an intentional disconnect no  *)
(* connection is left to call it.                                           *)
ConnectionLost(c) ==
    /\ LET d == [c EXCEPT !.status = "Closed"]
       IN  /\ connections' = InMap(c, d)
           /\ old_active_connection' = InOld(c, d)
    /\ IF c.id # active_connection_id
       THEN UNCHANGED <<active_connection_id, reconVars, reported>>
       ELSE /\ active_connection_id' = None
            /\ IF StartsReconnection
               THEN /\ reconnection_phase' = "Reconnecting"
                    /\ reported' = "Reconnecting"
                    /\ SpawnLoop
               ELSE UNCHANGED <<reconVars, reported>>
    /\ UNCHANGED <<servers, rttVars, electVars, sessVars, reelVars,
                   intentionally_disconnected>>

-----------------------------------------------------------------------------
(* The reconnection loop *)

(* The loop returns. *)
Exit_NotAfterDisconnect(l) ==
    loops' = IF intentionally_disconnected THEN loops
             ELSE [loops EXCEPT ![l] = NotRunning]

Exit(l) == loops' = [loops EXCEPT ![l] = NotRunning]

(* reset_and_start_election, called only by the loop. *)
ResetAndStartElection ==
    /\ \E created \in Created : StartTesting(created, None)
    /\ active_connection_id' = None
    /\ baseline_rtt' = 0
    /\ degradation_counter' = 0
    /\ reelection_in_progress' = FALSE
    /\ reported' = "Testing"
    /\ UNCHANGED own_session_id

(* The user has left the meeting. *)
UserLeft == intentionally_disconnected

(* The top of the loop: give up after an intentional disconnect, else       *)
(* announce the next attempt and sleep.                                     *)
LoopTop(l, zero) ==
    IF UserLeft
    THEN /\ reconnection_phase' = "Idle"
         /\ Exit(l)
         /\ UNCHANGED reported
    ELSE /\ reconnection_phase' = "Reconnecting"
         /\ reported' = "Reconnecting"
         /\ loops' = [loops EXCEPT ![l] = [pc |-> "backoff", zero |-> zero]]

(* After the backoff sleep: leave the loop if the user disconnected or      *)
(* something else restored a connection meanwhile.                          *)
Cancelled_RestoreUnchecked == UserLeft

Cancelled == UserLeft \/ active_connection_id # None

BackoffElapses(l) ==
    /\ loops[l].pc = "backoff"
    /\ IF Cancelled
       THEN /\ reconnection_phase' = "Idle"
            /\ Exit(l)
            /\ UNCHANGED <<connVars, rttVars, electVars, sessVars, reelVars,
                           reported>>
       ELSE /\ ResetAndStartElection
            /\ loops' = [loops EXCEPT ![l].pc = "election"]
            /\ UNCHANGED reconnection_phase
    /\ UNCHANGED <<servers, intentionally_disconnected>>

(* Consecutive attempts in which no server answered, this one included. *)
ZeroConnections_NotCounted(l) ==
    IF \E i \in Id : IsConnected(connections[i]) THEN 0 ELSE loops[l].zero

ZeroConnections(l) ==
    IF \E i \in Id : IsConnected(connections[i]) THEN 0 ELSE loops[l].zero + 1

(* Whether the attempt succeeded; a connection elected during the sleep may *)
(* be lost again.                                                           *)
AttemptSucceeded == is_connected

(* After the sleep that leaves the election time to complete. *)
ElectionWaitElapses(l) ==
    /\ loops[l].pc = "election"
    /\ IF AttemptSucceeded
       THEN /\ reconnection_phase' = "Idle"
            /\ reported' = "Connected"
            /\ Exit(l)
       ELSE IF ZeroConnections(l) >= RECONNECT_CONSECUTIVE_ZERO_LIMIT
       THEN /\ reconnection_phase' = "Failed"
            /\ reported' = "Failed"
            /\ Exit(l)
       ELSE LoopTop(l, ZeroConnections(l))
    /\ UNCHANGED <<servers, connVars, rttVars, electVars, sessVars, reelVars,
                   intentionally_disconnected>>

-----------------------------------------------------------------------------
(* Completing an election (the 100 ms timer) *)

(* A connection can win if it is established and was measured. *)
Usable(i) ==
    /\ rtt_measurements[i] # None
    /\ connections[i] # None => IsConnected(connections[i])
    /\ rtt_measurements[i].samples > 0

HasEnough(i) == rtt_measurements[i].samples >= ELECTION_MIN_RTT_SAMPLES

Tier(enough, ids) == {i \in ids : Usable(i) /\ HasEnough(i) = enough}

(* find_best_connection: the lowest average of the best non-empty tier;     *)
(* equal averages are told apart by the iteration order of a hash map.      *)
BestConnections ==
    LET WebSocket == Id \ WebTransport
        tier == IF Tier(TRUE, WebTransport) # {} THEN Tier(TRUE, WebTransport)
                ELSE IF Tier(TRUE, WebSocket) # {} THEN Tier(TRUE, WebSocket)
                ELSE IF Tier(FALSE, WebTransport) # {}
                     THEN Tier(FALSE, WebTransport)
                ELSE Tier(FALSE, WebSocket)
    IN  {i \in tier : \A j \in tier :
            rtt_measurements[i].avg <= rtt_measurements[j].avg}

(* The session of the winner: one kept for it, or whatever was there. *)
ElectedSession_Ignored(w) == own_session_id

ElectedSession(w) ==
    IF pending_session_ids[w] # None THEN pending_session_ids[w]
                                     ELSE own_session_id

(* close_unused_connections: only the winner w stays. *)
CloseUnused(w, c) == [i \in Id |-> IF i = w THEN c ELSE None]

(* The connection a re-election has replaced is dropped. *)
OldAfterElection_Kept == old_active_connection

OldAfterElection == None

Elect(w) ==
    LET s == pending_session_ids[w]
        c == connections[w]
    IN  /\ active_connection_id' = w
        /\ election_state' = "Elected"
        /\ own_session_id' = ElectedSession(w)
        /\ connections' =
               CloseUnused(w, IF c # None /\ s # None /\ s # own_session_id
                              THEN Stamped(c, s) ELSE c)
        /\ pending_session_ids' = [i \in Id |-> None]
        /\ baseline_rtt' = rtt_measurements[w].avg
        /\ degradation_counter' = 0
        /\ reelection_in_progress' = FALSE
        /\ old_active_connection' = OldAfterElection
        /\ reported' = "Connected"
        /\ UNCHANGED extensions_used

(* The failure branch leaves everything but the state as it was. *)
ElectionFails ==
    /\ election_state' = "Failed"
    /\ reported' = "Failed"
    /\ UNCHANGED <<connVars, extensions_used, sessVars, reelVars>>

(* check_and_complete_election once the deadline has passed: it is extended *)
(* while no connection has enough samples.                                  *)
MayComplete ==
    \/ \E i \in Id : rtt_measurements[i] # None /\ HasEnough(i)
    \/ extensions_used >= ELECTION_MAX_EXTENSIONS

ExtendElection ==
    /\ ~intentionally_disconnected /\ election_state = "Testing"
    /\ ~MayComplete
    /\ extensions_used' = extensions_used + 1
    /\ UNCHANGED <<servers, connVars, rttVars, election_state, sessVars,
                   reconVars, reelVars, intentionally_disconnected, reported>>

CompleteElection ==
    /\ ~intentionally_disconnected /\ election_state = "Testing"
    /\ MayComplete
    /\ IF BestConnections = {} THEN ElectionFails
       ELSE \E w \in BestConnections : Elect(w)
    /\ UNCHANGED <<servers, rttVars, reconVars, intentionally_disconnected>>

-----------------------------------------------------------------------------
(* RTT monitoring and re-election (the 1 Hz timer) *)

(* process_queued_rtt_responses and handle_rtt_response: the responses of a *)
(* connection id raise the sample count by one or more and move the average *)
(* of the last ten samples.                                                 *)
Processed(i) ==
    LET m == rtt_measurements[i]
        from == {s \in rtt_responses : s[1] = i}
        c == connections[i]
    IN  IF m = None \/ from = {} THEN {m}
        ELSE {[samples |-> n, avg |-> a,
               answered |-> m.answered \/ (c # None /\ SessionOf(c) \in from)] :
              n \in {k \in 1 .. ELECTION_MIN_RTT_SAMPLES :
                        k > m.samples \/ k = ELECTION_MIN_RTT_SAMPLES},
              a \in Rtt}

REELECTION_RTT_MULTIPLIER == 3
REELECTION_RTT_MIN_THRESHOLD_MS == 50

Threshold ==
    LET t == baseline_rtt * REELECTION_RTT_MULTIPLIER
    IN  IF t > REELECTION_RTT_MIN_THRESHOLD_MS
        THEN t ELSE REELECTION_RTT_MIN_THRESHOLD_MS

(* check_rtt_degradation compares only then. *)
Monitored(m) ==
    /\ election_state = "Elected"
    /\ baseline_rtt > 0
    /\ ~reelection_in_progress
    /\ active_connection_id # None
    /\ m[active_connection_id] # None
    /\ m[active_connection_id].samples > 0

(* start_reelection: the active connection is set aside, its id stays       *)
(* active, and candidates to all servers are created.                       *)
StartReelection ==
    /\ \E created \in Created :
           StartTesting(created, connections[active_connection_id])
    /\ reelection_in_progress' = TRUE
    /\ degradation_counter' = 0
    /\ baseline_rtt' = 0
    /\ UNCHANGED <<active_connection_id, own_session_id>>

(* With one server, a re-election would only reset the session. *)
ReelectionHelps_Always == TRUE

ReelectionHelps == Cardinality(servers) > 1

(* A degraded sample that starts no re-election: counted, or, with one      *)
(* server, the baseline is moved to it.                                     *)
DegradationSeen(rtt) ==
    IF degradation_counter + 1 < REELECTION_CONSECUTIVE_SAMPLES
    THEN /\ degradation_counter' = degradation_counter + 1
         /\ UNCHANGED <<baseline_rtt, reelection_in_progress>>
    ELSE /\ degradation_counter' = 0
         /\ baseline_rtt' = rtt
         /\ UNCHANGED reelection_in_progress

DiagnosticsTick ==
    /\ ~intentionally_disconnected
    /\ \E m \in [Id -> UNION {Processed(i) : i \in Id}] :
        /\ \A i \in Id : m[i] \in Processed(i)
        /\ LET rtt == m[active_connection_id].avg
               degraded == rtt > Threshold
               reelect == /\ Monitored(m) /\ degraded
                          /\ degradation_counter + 1
                                 >= REELECTION_CONSECUTIVE_SAMPLES
                          /\ ReelectionHelps
           IN IF reelect THEN StartReelection
              ELSE /\ rtt_measurements' = m
                   /\ rtt_responses' = {}
                   /\ IF ~Monitored(m) THEN UNCHANGED reelVars
                      ELSE IF degraded THEN DegradationSeen(rtt)
                      ELSE /\ degradation_counter' = 0
                           /\ UNCHANGED <<baseline_rtt, reelection_in_progress>>
                   /\ UNCHANGED <<connVars, electVars, sessVars>>
    /\ UNCHANGED <<servers, reconVars, intentionally_disconnected, reported>>

-----------------------------------------------------------------------------
(* VideoCallClient::disconnect: the manager's disconnect, then the          *)
(* controller and its timers are dropped.                                   *)
Disconnect ==
    /\ ~intentionally_disconnected
    /\ intentionally_disconnected' = TRUE
    /\ reconnection_phase' = "Idle"
    /\ active_connection_id' = None
    /\ old_active_connection' = None
    /\ connections' = [i \in Id |-> None]
    /\ reported' = "Failed"
    /\ UNCHANGED <<servers, rttVars, electVars, sessVars, loops, reelVars>>

Next ==
    \/ \E c \in Live : Opened(c)
    \/ \E c \in Live : SessionAssigned(c)
    \/ \E c \in Live : RttResponse(c)
    \/ \E c \in Live : ConnectionLost(c)
    \/ \E l \in LoopId : BackoffElapses(l)
    \/ \E l \in LoopId : ElectionWaitElapses(l)
    \/ ExtendElection
    \/ CompleteElection
    \/ DiagnosticsTick
    \/ Disconnect

Spec == Init /\ [][Next]_vars

(* The browser runs a sleeping loop's timer in the end. *)
Fairness ==
    \A l \in LoopId : WF_vars(BackoffElapses(l) \/ ElectionWaitElapses(l))

FairSpec == Spec /\ Fairness

-----------------------------------------------------------------------------
(* Properties *)

(* Every variable has the type its Rust field has. *)
TypeOK ==
    /\ servers \subseteq Id
    /\ connections \in [Id -> Connection \cup {None}]
    /\ old_active_connection \in Connection \cup {None}
    /\ active_connection_id \in Id \cup {None}
    /\ rtt_responses \subseteq Session
    /\ rtt_measurements \in [Id -> Measurement \cup {None}]
    /\ election_state \in {"Testing", "Elected", "Failed"}
    /\ extensions_used \in 0 .. ELECTION_MAX_EXTENSIONS
    /\ own_session_id \in Session \cup {None}
    /\ pending_session_ids \in [Id -> Session \cup {None}]
    /\ reconnection_phase \in {"Idle", "Reconnecting", "Failed"}
    /\ loops \in [LoopId -> LoopState]
    /\ baseline_rtt \in Rtt \cup {0}
    /\ degradation_counter \in 0 .. REELECTION_CONSECUTIVE_SAMPLES - 1
    /\ reelection_in_progress \in BOOLEAN
    /\ intentionally_disconnected \in BOOLEAN
    /\ reported \in {"Testing", "Connected", "Reconnecting", "Failed"}

(* However losses, elections and the loop interleave, one reconnection loop *)
(* at most is running, and one is running whenever the phase says           *)
(* Reconnecting: the phase is what keeps a second loop from being spawned.  *)
OneReconnectionLoop ==
    /\ Cardinality(Running) <= 1
    /\ reconnection_phase = "Reconnecting" => Running # {}
    /\ Running # {} => \/ reconnection_phase = "Reconnecting"
                       \/ intentionally_disconnected

(* After disconnect() no connection is opened and none becomes active,      *)
(* although a reconnection loop may be asleep when it is called.            *)
DisconnectIsFinal ==
    intentionally_disconnected =>
        /\ active_connection_id = None
        /\ \A i \in Id : connections[i] = None
        /\ old_active_connection = None

(* After an election the winner alone is open and it is established: no     *)
(* loser and no connection of a re-election is leaked, and a winner that    *)
(* dies is no longer active.                                                *)
ElectedIsLive ==
    is_connected =>
        /\ IsConnected(connections[active_connection_id])
        /\ Live = {connections[active_connection_id]}

(* The client's state agrees with the manager's: a connected manager shows  *)
(* as Connected, and Connected is shown without an active connection only   *)
(* while a reconnection loop is there to correct it.                        *)
ShownState ==
    /\ is_connected => reported = "Connected"
    /\ reported = "Connected" =>
           active_connection_id # None \/ Running # {}

\* The manager stays in one piece, whatever callbacks, timers, losses and
\* pieces of the reconnection loop come between: one loop at most, nothing
\* open after a disconnect, one live winner, and a state that is shown as it
\* is (create_connection_lost_callback, run_reconnection_loop,
\* complete_election, disconnect).
ManagerSound ==
    /\ TypeOK
    /\ OneReconnectionLoop
    /\ DisconnectIsFinal
    /\ ElectedIsLive
    /\ ShownState

(* The session ids used to filter the client's own packets and to stamp its *)
(* heartbeats are those of the elected connection, whether SESSION_ASSIGNED *)
(* came before or after the election, as long as no connection is set aside *)
(* in a re-election before its own SESSION_ASSIGNED: one that comes to the  *)
(* preserved connection replaces the candidate's.                           *)
OwnSessionIsElected ==
    LET c == connections[active_connection_id]
    IN  is_connected /\ c.assigned # "no" =>
            own_session_id = SessionOf(c) /\ c.stamp = "own"

(* A settled manager, one with no connection set aside by a re-election,    *)
(* gives up its active connection only because that very connection was     *)
(* lost in this step or because the user disconnected: a reconnection loop  *)
(* that wakes up late, a diagnostics tick or a failed election never resets *)
(* it.  (While a re-election runs, the code goes by the id, and the loss of *)
(* the candidate with the same id counts as well: OnlyActiveLossReacts.)    *)
ActiveIsNotReset ==
    [][/\ old_active_connection = None
       /\ active_connection_id # None /\ active_connection_id' = None
       => \/ intentionally_disconnected'
          \/ /\ connections[active_connection_id] # None
             /\ connections'[active_connection_id] =
                    [connections[active_connection_id] EXCEPT
                        !.status = "Closed"]]_vars

(* The winner of the first election or of a reconnection answered at least  *)
(* one probe itself: stale responses of an earlier connection with the same *)
(* id are not enough.  (In a re-election they are: the preserved connection *)
(* still answers, and its responses count for the candidate with its id.)   *)
ElectedAnswered ==
    [][/\ old_active_connection = None
       /\ election_state = "Testing" /\ election_state' = "Elected"
       => rtt_measurements[active_connection_id'].answered]_vars

(* With one server configured, a connected manager never goes back to an    *)
(* election, with its new session and video freeze, however the RTT moves:  *)
(* only a loss or a disconnect ends the connection.                         *)
SingleServerKept ==
    [][Cardinality(servers) = 1 /\ is_connected =>
           is_connected' \/ active_connection_id' = None]_vars

(* When from some time on no server can be reached, the reconnection loop   *)
(* gives up: it neither retries for ever nor is forgotten in a sleep.       *)
ReconnectionGivesUp ==
    <>[](\A i \in Id : ~IsConnected(connections[i])) =>
        <>[](reconnection_phase # "Reconnecting")

(* disconnect() stops a reconnection loop, wherever it is asleep. *)
DisconnectStopsLoop ==
    intentionally_disconnected ~> Running = {}

-----------------------------------------------------------------------------
(* What comments of the code say and the code does not do *)

(* "The old connection continues to carry media traffic during the election *)
(* period": while a re-election tests candidates, packets for the active    *)
(* connection go to the preserved one.                                      *)
OldCarriesMedia ==
    /\ election_state = "Testing"
    /\ old_active_connection # None
    /\ active_connection_id # None
    => ActiveConnection = old_active_connection

(* "Only react if this was the active connection": the loss of a re-        *)
(* election candidate does not take the preserved active connection down.   *)
OnlyActiveLossReacts ==
    [][/\ active_connection_id # None /\ active_connection_id' = None
       /\ IsConnected(old_active_connection)
       => \/ intentionally_disconnected'
          \/ old_active_connection' # old_active_connection]_vars

(* "Whether a re-election is currently in progress": the flag is up only    *)
(* while an election runs.                                                  *)
ReelectionFlagIsCurrent ==
    reelection_in_progress => election_state = "Testing"

(* "Clear RTT measurements so the new election starts clean": the winner of *)
(* a re-election, too, answered a probe itself.                             *)
ReelectionStartsClean ==
    [][election_state = "Testing" /\ election_state' = "Elected"
       => rtt_measurements[active_connection_id'].answered]_vars

(* "... all connections forward packets so that ... the first               *)
(* SESSION_ASSIGNED can be processed": the client has been given the        *)
(* session of the elected connection.                                       *)
ClientKnowsSession ==
    LET c == connections[active_connection_id]
    IN  is_connected /\ c.assigned # "no" => c.assigned = "forwarded"

(* "... any in-flight or future reconnection attempts are cancelled": no    *)
(* attempt fails after disconnect().                                        *)
DisconnectCancelsAttempts ==
    intentionally_disconnected => reconnection_phase = "Idle"

=============================================================================
