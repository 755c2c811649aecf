----------------------- MODULE ConnectionManagerProofs ------------------------
(***************************************************************************)
(* Proofs about ConnectionManager, for any servers, any limits and any     *)
(* round-trip times, however callbacks, timers and the reconnection loop   *)
(* interleave: the manager stays in one piece, a working connection is not *)
(* given up, and the session in use is that of the elected connection.     *)
(***************************************************************************)
EXTENDS ConnectionManager, FiniteSetTheorems, TLAPS

\* A connection is kept under its own id.
IdsMatch == \A i \in Id : connections[i] # None => connections[i].id = i

\* An election that can still be completed.
Tests == election_state = "Testing" /\ ~intentionally_disconnected

\* Such an election measures only candidates that are there
\* (create_all_connections).
CandidatesAreMeasured ==
    Tests => \A i \in Id : rtt_measurements[i] # None => connections[i] # None

\* OneReconnectionLoop without its cardinality.
OneLoop ==
    /\ \A k, l \in Running : k = l
    /\ reconnection_phase = "Reconnecting" => Running # {}
    /\ Running # {} => \/ reconnection_phase = "Reconnecting"
                       \/ intentionally_disconnected

\* After disconnect() the client never shows Connected again.
DisconnectIsShown == intentionally_disconnected => reported = "Failed"

\* The inductive invariant.
ManagerInv ==
    /\ TypeOK
    /\ IdsMatch
    /\ CandidatesAreMeasured
    /\ OneLoop
    /\ DisconnectIsFinal
    /\ DisconnectIsShown
    /\ ElectedIsLive
    /\ ShownState

-----------------------------------------------------------------------------
(* Instances, connections and candidates *)

\* There is an instance number besides any two.
LEMMA ThirdInst ==
    ASSUME NEW a, NEW b
    PROVE  \E n \in Inst : n # a /\ n # b
<1> SUFFICES ASSUME Inst \subseteq {a, b} PROVE FALSE
  OBVIOUS
<1>1. IsFiniteSet({a}) /\ Cardinality({a}) = 1
  BY FS_Singleton
<1>2. {a} \cup {b} = {a, b}
  OBVIOUS
<1>3. IsFiniteSet({a, b}) /\ Cardinality({a, b}) <= 2
  <2>1. /\ IsFiniteSet({a} \cup {b})
        /\ \/ Cardinality({a} \cup {b}) = Cardinality({a}) + 1
           \/ Cardinality({a} \cup {b}) = Cardinality({a})
    BY <1>1, FS_AddElement
  <2> QED
    BY <1>1, <1>2, <2>1
<1>4. Cardinality(Inst) <= Cardinality({a, b})
  BY <1>3, FS_Subset
<1>5. Cardinality(Inst) \in Nat /\ Cardinality({a, b}) \in Nat
  BY <1>3, InstAssumption, FS_CardinalityType
<1> QED
  BY <1>3, <1>4, <1>5, InstAssumption

\* The instance number of an election's candidates is new.
LEMMA FreshInstIsFresh ==
    ASSUME NEW kept
    PROVE  /\ FreshInst(kept) \in Inst
           /\ own_session_id # None => own_session_id[2] # FreshInst(kept)
           /\ kept # None => kept.inst # FreshInst(kept)
<1>1. \E n \in Inst : /\ own_session_id # None => own_session_id[2] # n
                      /\ kept # None => kept.inst # n
  BY ThirdInst
<1> QED
  BY <1>1, Zenon DEF FreshInst

\* A live connection is one the manager keeps.
LEMMA LiveIs ==
    ASSUME TypeOK, NEW c \in Live
    PROVE  /\ c \in Connection /\ c # None /\ SessionOf(c) \in Session
           /\ c = old_active_connection \/ \E i \in Id : c = connections[i]
BY DEF TypeOK, Live, Connection, SessionOf, Session

\* The fields of a connection.
LEMMA Fields ==
    ASSUME NEW c \in Connection
    PROVE  /\ c.id \in Id /\ c.inst \in Inst
           /\ c.status \in {"Connecting", "Connected", "Closed"}
           /\ c.assigned \in {"no", "kept", "forwarded"}
           /\ c.stamp \in {"none", "own", "other"}
BY DEF Connection

\* A connection changes its state and remains the same connection.
LEMMA StatusChange ==
    ASSUME NEW c \in Connection,
           NEW st \in {"Connecting", "Connected", "Closed"}
    PROVE  LET d == [c EXCEPT !.status = st]
           IN  /\ d \in Connection /\ d # None
               /\ d.id = c.id /\ d.inst = c.inst /\ SessionOf(d) = SessionOf(c)
               /\ d.status = st /\ d.assigned = c.assigned /\ d.stamp = c.stamp
<1>1. [c EXCEPT !.status = st] \in Connection
  BY DEF Connection
<1> QED
  BY <1>1, AbsentAssumption DEF Connection, SessionOf

\* What an election starts with (create_all_connections).
LEMMA StartTestingEffect ==
    ASSUME TypeOK, NEW created, NEW kept \in Connection \cup {None},
           StartTesting(created, kept)
    PROVE  /\ connections' \in [Id -> Connection \cup {None}]
           /\ rtt_measurements' \in [Id -> Measurement \cup {None}]
           /\ pending_session_ids' = [i \in Id |-> None]
           /\ rtt_responses' = {} /\ old_active_connection' = kept
           /\ election_state' = "Testing" /\ extensions_used' = 0
           /\ \A i \in Id :
               /\ connections'[i] # None =>
                      /\ connections'[i].id = i
                      /\ connections'[i].assigned = "no"
                      /\ own_session_id # SessionOf(connections'[i])
               /\ rtt_measurements'[i] # None =>
                      /\ connections'[i] # None
                      /\ rtt_measurements'[i].samples = 0
<1>1. PICK n \in Inst : /\ n = FreshInst(kept)
                        /\ own_session_id # None => own_session_id[2] # n
  BY FreshInstIsFresh
<1>2. /\ connections' = Candidates(created, n)
      /\ rtt_measurements' = Unmeasured(created)
  BY <1>1 DEF StartTesting
<1>3. ASSUME NEW i \in Id
      PROVE  LET c == [id |-> i, inst |-> n, status |-> "Connecting",
                       assigned |-> "no", stamp |-> "none"]
             IN  /\ c \in Connection /\ c # None
                 /\ own_session_id # SessionOf(c)
  <2>1. [id |-> i, inst |-> n, status |-> "Connecting",
         assigned |-> "no", stamp |-> "none"] \in Connection
    BY DEF Connection
  <2>2. own_session_id # <<i, n>>
    BY <1>1, NoneAssumption
  <2> QED
    BY <2>1, <2>2, AbsentAssumption DEF SessionOf
<1>4. LET m == [samples |-> 0, avg |-> 0, answered |-> FALSE]
      IN  m \in Measurement /\ m # None
  <2>1. 0 \in 0 .. ELECTION_MIN_RTT_SAMPLES /\ 0 \in Rtt \cup {0}
    BY LimitAssumption
  <2>2. [samples |-> 0, avg |-> 0, answered |-> FALSE] \in Measurement
    BY <2>1 DEF Measurement
  <2> QED
    BY <2>2, AbsentAssumption
<1>5. connections' \in [Id -> Connection \cup {None}]
  BY <1>2, <1>3 DEF Candidates
<1>6. rtt_measurements' \in [Id -> Measurement \cup {None}]
  BY <1>2, <1>4 DEF Unmeasured
<1>7. ASSUME NEW i \in Id
      PROVE  /\ connections'[i] # None =>
                    /\ connections'[i].id = i
                    /\ connections'[i].assigned = "no"
                    /\ own_session_id # SessionOf(connections'[i])
             /\ rtt_measurements'[i] # None =>
                    /\ connections'[i] # None
                    /\ rtt_measurements'[i].samples = 0
  BY <1>2, <1>3, <1>4 DEF Candidates, Unmeasured
<1> QED
  BY <1>5, <1>6, <1>7 DEF StartTesting, QueueAtStart

\* One connection of the map is replaced by its next state.
LEMMA MapChange ==
    ASSUME TypeOK, IdsMatch, NEW c \in Live, NEW d \in Connection,
           d # None, d.id = c.id, connections' = InMap(c, d)
    PROVE  /\ connections' \in [Id -> Connection \cup {None}]
           /\ IdsMatch'
           /\ \A i \in Id : connections'[i] = None <=> connections[i] = None
           /\ \A i \in Id : connections[i] # c => connections'[i] = connections[i]
           /\ \A i \in Id : connections[i] = c => connections'[i] = d
<1>1. \A i \in Id :
        connections'[i] = IF connections[i] = c THEN d ELSE connections[i]
  BY DEF InMap
<1>2. connections' \in [Id -> Connection \cup {None}]
  BY DEF InMap, TypeOK
<1>3. c # None
  BY LiveIs
<1> QED
  BY <1>1, <1>2, <1>3 DEF IdsMatch

\* The loops that run when one loop goes on or returns.
LEMMA LoopChange ==
    ASSUME TypeOK, NEW l \in LoopId, NEW st \in LoopState,
           Running \subseteq {l}, loops' = [loops EXCEPT ![l] = st]
    PROVE  /\ loops' \in [LoopId -> LoopState]
           /\ Running' = IF st = NotRunning THEN {} ELSE {l}
<1>1. loops' \in [LoopId -> LoopState]
  BY DEF TypeOK
<1>2. loops'[l] = st /\ \A k \in LoopId \ {l} : loops'[k] = loops[k]
  BY DEF TypeOK
<1>3. \A k \in LoopId \ {l} : loops[k] = NotRunning
  BY DEF Running
<1> QED
  BY <1>1, <1>2, <1>3 DEF Running

\* The states of a loop that the program gives it.
LEMMA LoopStates ==
    /\ NotRunning \in LoopState
    /\ \A z \in 0 .. RECONNECT_CONSECUTIVE_ZERO_LIMIT :
        /\ [pc |-> "backoff", zero |-> z] \in LoopState
        /\ [pc |-> "backoff", zero |-> z] # NotRunning
        /\ [pc |-> "election", zero |-> z] \in LoopState
        /\ [pc |-> "election", zero |-> z] # NotRunning
    /\ 0 \in 0 .. RECONNECT_CONSECUTIVE_ZERO_LIMIT
<1>1. 0 \in 0 .. RECONNECT_CONSECUTIVE_ZERO_LIMIT
  BY LimitAssumption
<1> QED
  BY <1>1 DEF LoopState, NotRunning

\* A spawned loop is the only one (create_connection_lost_callback).
LEMMA SpawnLoopEffect ==
    ASSUME TypeOK, Running = {}, SpawnLoop
    PROVE  /\ loops' \in [LoopId -> LoopState]
           /\ \E l \in LoopId : Running' = {l}
<1>1. \A k \in LoopId : loops[k] = NotRunning
  BY DEF Running
<1>2. 1 \in LoopId
  BY DEF LoopId
<1>3. \E k \in LoopId : Running # LoopId => loops[k] = NotRunning
  BY <1>1, <1>2
<1>4. PICK l \in LoopId :
        loops' = [loops EXCEPT ![l] = [pc |-> "backoff", zero |-> 0]]
  BY <1>3 DEF SpawnLoop
<1> QED
  BY <1>4, LoopChange, LoopStates

\* A connection calls back: the user has not left.
LEMMA CallbackMeansConnected ==
    ASSUME ManagerInv, NEW c \in Live
    PROVE  ~intentionally_disconnected
<1> SUFFICES ASSUME intentionally_disconnected PROVE FALSE
  BY DEF ManagerInv, TypeOK
<1>1. /\ \A i \in Id : connections[i] = None
      /\ old_active_connection = None
  BY DEF ManagerInv, DisconnectIsFinal
<1> QED
  BY <1>1 DEF Live

\* A connection that calls back while the manager is connected is the
\* elected one.
LEMMA OnlyElectedIsLive ==
    ASSUME ManagerInv, NEW c \in Live, is_connected
    PROVE  /\ active_connection_id \in Id
           /\ c = connections[active_connection_id]
           /\ c.id = active_connection_id /\ c.status = "Connected"
<1>1. active_connection_id \in Id
  BY DEF is_connected, ManagerInv, TypeOK
<1>2. /\ IsConnected(connections[active_connection_id])
      /\ Live = {connections[active_connection_id]}
  BY DEF ManagerInv, ElectedIsLive
<1>3. c = connections[active_connection_id] /\ c # None
  BY <1>2 DEF Live
<1>4. c.id = active_connection_id /\ c.status = "Connected"
  BY <1>1, <1>2, <1>3 DEF ManagerInv, IdsMatch, IsConnected
<1> QED
  BY <1>1, <1>2, <1>3, <1>4

-----------------------------------------------------------------------------
(* The callbacks *)

\* The handshake of a connection is done.
LEMMA OpenedInv ==
    ASSUME ManagerInv, NEW c \in Live, Opened(c)
    PROVE  ManagerInv'
<1>1. /\ c.status = "Connecting"
      /\ connections' = InMap(c, [c EXCEPT !.status = "Connected"])
      /\ UNCHANGED <<servers, old_active_connection, active_connection_id,
                     rttVars, electVars, sessVars, reconVars, reelVars,
                     intentionally_disconnected, reported>>
  BY DEF Opened
<1>2. TypeOK /\ IdsMatch
  BY DEF ManagerInv
<1>3. PICK d \in Connection : /\ d = [c EXCEPT !.status = "Connected"]
                              /\ d # None /\ d.id = c.id
  BY <1>2, LiveIs, StatusChange
<1>4. /\ connections' \in [Id -> Connection \cup {None}] /\ IdsMatch'
      /\ \A i \in Id : connections'[i] = None <=> connections[i] = None
  BY <1>1, <1>2, <1>3, MapChange
<1>5. TypeOK'
  BY <1>1, <1>2, <1>4
  DEF TypeOK, rttVars, electVars, sessVars, reconVars, reelVars
<1>6. CandidatesAreMeasured'
  BY <1>1, <1>4
  DEF ManagerInv, CandidatesAreMeasured, Tests, rttVars, electVars
<1>7. OneLoop' /\ DisconnectIsShown'
  BY <1>1 DEF ManagerInv, OneLoop, DisconnectIsShown, Running, reconVars
<1>8. DisconnectIsFinal'
  BY <1>1, CallbackMeansConnected DEF DisconnectIsFinal
<1>9. ~is_connected'
  <2>1. ~is_connected
    BY <1>1, OnlyElectedIsLive
  <2> QED
    BY <1>1, <2>1 DEF is_connected, electVars
<1>10. ElectedIsLive' /\ ShownState'
  BY <1>1, <1>9
  DEF ManagerInv, ElectedIsLive, ShownState, Running, reconVars
<1> QED
  BY <1>4, <1>5, <1>6, <1>7, <1>8, <1>10 DEF ManagerInv

\* SESSION_ASSIGNED changes what is known of a connection's session, and
\* nothing else of a connection.
LEMMA SessionAssignedEffect ==
    ASSUME TypeOK, NEW c \in Live, SessionAssigned(c)
    PROVE  /\ connections' \in [Id -> Connection \cup {None}]
           /\ old_active_connection' \in Connection \cup {None}
           /\ old_active_connection' = None <=> old_active_connection = None
           /\ \A i \in Id :
               /\ connections'[i] = None <=> connections[i] = None
               /\ connections[i] # None =>
                      /\ connections'[i].id = connections[i].id
                      /\ connections'[i].inst = connections[i].inst
                      /\ connections'[i].status = connections[i].status
                      /\ connections[i] # c =>
                            connections'[i].assigned = connections[i].assigned
                      /\ connections[i] = c => connections'[i].assigned # "no"
                      /\ \/ active_connection_id # c.id
                         \/ connections[i] # ActiveConnection
                         => connections'[i].stamp = connections[i].stamp
                      /\ /\ active_connection_id = c.id
                         /\ connections[i] = ActiveConnection
                         /\ connections[i] = c
                         => connections'[i].stamp = "own"
<1> DEFINE s == SessionOf(c)
           elected == active_connection_id = c.id
           assigned(d) == IF d # c THEN d.assigned
                          ELSE IF elected THEN "forwarded" ELSE "kept"
           stamp(d) == IF elected /\ d = ActiveConnection
                       THEN Stamped(d, s).stamp ELSE d.stamp
           After(d) == IF d = None THEN None
                       ELSE [d EXCEPT !.assigned = assigned(d),
                                      !.stamp = stamp(d)]
<1>1. /\ connections' = [i \in Id |-> After(connections[i])]
      /\ old_active_connection' = After(old_active_connection)
  BY DEF SessionAssigned
<1>2. ASSUME NEW d \in Connection
      PROVE  /\ stamp(d) \in {"none", "own", "other"}
             /\ ~elected \/ d # ActiveConnection => stamp(d) = d.stamp
             /\ elected /\ d = ActiveConnection /\ d = c => stamp(d) = "own"
  <2>1. Stamped(d, s).stamp = IF s = SessionOf(d) THEN "own" ELSE "other"
    BY DEF Stamped, Connection
  <2> QED
    BY <2>1, Fields
<1>3. ASSUME NEW d \in Connection
      PROVE  assigned(d) \in {"no", "kept", "forwarded"}
  BY Fields
<1>4. ASSUME NEW d \in Connection, d # None
      PROVE  /\ After(d) \in Connection /\ After(d) # None
             /\ After(d).id = d.id /\ After(d).inst = d.inst
             /\ After(d).status = d.status
             /\ After(d).assigned = assigned(d) /\ After(d).stamp = stamp(d)
  <2>1. PICK a \in {"no", "kept", "forwarded"} : a = assigned(d)
    BY <1>3
  <2>2. PICK p \in {"none", "own", "other"} : p = stamp(d)
    BY <1>2
  <2>3. After(d) = [d EXCEPT !.assigned = a, !.stamp = p]
    BY <1>4, <2>1, <2>2
  <2> HIDE DEF After, assigned, stamp
  <2>4. After(d) \in Connection
    BY <2>3 DEF Connection
  <2> QED
    BY <2>1, <2>2, <2>3, <2>4, AbsentAssumption DEF Connection
<1>5. After(None) = None
  OBVIOUS
<1>6. \A d \in Connection : /\ d # c => assigned(d) = d.assigned
                            /\ d = c => assigned(d) # "no"
  OBVIOUS
<1> HIDE DEF After, assigned, stamp
<1>7. \A d \in Connection \cup {None} : After(d) \in Connection \cup {None}
  BY <1>4, <1>5
<1>8. old_active_connection \in Connection \cup {None}
      /\ connections \in [Id -> Connection \cup {None}]
  BY DEF TypeOK
<1>9. /\ connections' \in [Id -> Connection \cup {None}]
      /\ old_active_connection' \in Connection \cup {None}
      /\ old_active_connection' = None <=> old_active_connection = None
  BY <1>1, <1>4, <1>5, <1>7, <1>8
<1>10. ASSUME NEW i \in Id
       PROVE  /\ connections'[i] = None <=> connections[i] = None
              /\ connections[i] # None =>
                  /\ connections'[i].id = connections[i].id
                  /\ connections'[i].inst = connections[i].inst
                  /\ connections'[i].status = connections[i].status
                  /\ connections'[i].assigned = assigned(connections[i])
                  /\ connections'[i].stamp = stamp(connections[i])
  BY <1>1, <1>4, <1>5, <1>8
<1> QED
  BY <1>2, <1>6, <1>8, <1>9, <1>10

\* SESSION_ASSIGNED arrives.
LEMMA SessionAssignedInv ==
    ASSUME ManagerInv, NEW c \in Live, SessionAssigned(c)
    PROVE  ManagerInv'
<1>1. TypeOK
  BY DEF ManagerInv
<1>2. UNCHANGED <<servers, active_connection_id, rttVars, electVars, reconVars,
                  reelVars, intentionally_disconnected, reported>>
  BY DEF SessionAssigned
<1>3. /\ connections' \in [Id -> Connection \cup {None}]
      /\ old_active_connection' \in Connection \cup {None}
      /\ \A i \in Id :
          /\ connections'[i] = None <=> connections[i] = None
          /\ connections[i] # None =>
                 /\ connections'[i].id = connections[i].id
                 /\ connections'[i].status = connections[i].status
  BY <1>1, SessionAssignedEffect
<1>4. /\ own_session_id' \in Session \cup {None}
      /\ pending_session_ids' \in [Id -> Session \cup {None}]
  <2>1. c.id \in Id /\ SessionOf(c) \in Session
    BY <1>1, LiveIs, Fields
  <2>2. \/ own_session_id' = SessionOf(c) /\ UNCHANGED pending_session_ids
        \/ /\ pending_session_ids' =
                  [pending_session_ids EXCEPT ![c.id] = SessionOf(c)]
           /\ UNCHANGED own_session_id
    BY DEF SessionAssigned
  <2> QED
    BY <1>1, <2>1, <2>2 DEF TypeOK
<1>5. TypeOK'
  BY <1>1, <1>2, <1>3, <1>4 DEF TypeOK, rttVars, electVars, reconVars, reelVars
<1>6. IdsMatch' /\ CandidatesAreMeasured'
  BY <1>2, <1>3
  DEF ManagerInv, IdsMatch, CandidatesAreMeasured, Tests, rttVars, electVars
<1>7. OneLoop' /\ DisconnectIsShown' /\ ShownState'
  BY <1>2 DEF ManagerInv, OneLoop, DisconnectIsShown, ShownState, Running,
     is_connected, reconVars, electVars
<1>8. DisconnectIsFinal'
  BY <1>2, CallbackMeansConnected DEF DisconnectIsFinal
<1>9. ElectedIsLive'
  <2> SUFFICES ASSUME is_connected' PROVE ElectedIsLive'
    BY DEF ElectedIsLive
  <2>1. is_connected
    BY <1>2 DEF is_connected, electVars
  <2>2. PICK a \in Id : a = active_connection_id /\ c = connections[a]
                        /\ c.status = "Connected"
    BY <2>1, OnlyElectedIsLive
  <2>3. /\ \A i \in Id : connections[i] # None => connections[i] = c
        /\ old_active_connection = None \/ old_active_connection = c
    BY <2>1, <2>2 DEF ManagerInv, ElectedIsLive, Live
  <2>4. IsConnected(connections'[a])
    BY <1>1, <1>3, <2>2, LiveIs DEF IsConnected
  <2>5. \A i \in Id \ {a} : connections'[i] = None
    BY <1>3, <2>2, <2>3 DEF ManagerInv, IdsMatch
  <2>6. old_active_connection' \in {None, connections'[a]}
    BY <2>2, <2>3 DEF SessionAssigned
  <2>7. Live' = {connections'[a]}
    BY <2>2, <2>4, <2>5, <2>6 DEF Live, IsConnected
  <2> QED
    BY <1>2, <2>2, <2>4, <2>7 DEF ElectedIsLive
<1> QED
  BY <1>5, <1>6, <1>7, <1>8, <1>9 DEF ManagerInv

\* The answer to a probe is queued.
LEMMA RttResponseInv ==
    ASSUME ManagerInv, NEW c \in Live, RttResponse(c)
    PROVE  ManagerInv'
<1>1. /\ rtt_responses' = rtt_responses \cup {SessionOf(c)}
      /\ UNCHANGED <<servers, connVars, rtt_measurements, electVars, sessVars,
                     reconVars, reelVars, intentionally_disconnected, reported>>
  BY DEF RttResponse
<1>2. TypeOK'
  <2>1. TypeOK /\ SessionOf(c) \in Session
    BY LiveIs DEF ManagerInv
  <2> QED
    BY <1>1, <2>1
    DEF TypeOK, connVars, electVars, sessVars, reconVars, reelVars
<1>3. IdsMatch' /\ CandidatesAreMeasured' /\ DisconnectIsFinal'
  BY <1>1 DEF ManagerInv, IdsMatch, CandidatesAreMeasured, DisconnectIsFinal,
     Tests, connVars, electVars
<1>4. OneLoop' /\ DisconnectIsShown' /\ ShownState' /\ ElectedIsLive'
  BY <1>1 DEF ManagerInv, OneLoop, DisconnectIsShown, ShownState, ElectedIsLive,
     Live, Running, is_connected, connVars, reconVars, electVars
<1> QED
  BY <1>2, <1>3, <1>4 DEF ManagerInv

\* A connection is lost.
LEMMA ConnectionLostInv ==
    ASSUME ManagerInv, NEW c \in Live, ConnectionLost(c)
    PROVE  /\ ManagerInv'
           /\ /\ old_active_connection = None
              /\ active_connection_id # None /\ active_connection_id' = None
              => /\ c = connections[active_connection_id]
                 /\ c # None
                 /\ connections'[active_connection_id] =
                        [c EXCEPT !.status = "Closed"]
<1>1. /\ connections' = InMap(c, [c EXCEPT !.status = "Closed"])
      /\ old_active_connection' = InOld(c, [c EXCEPT !.status = "Closed"])
      /\ UNCHANGED <<servers, rttVars, electVars, sessVars, reelVars,
                     intentionally_disconnected>>
  BY DEF ConnectionLost
<1>2. TypeOK /\ IdsMatch /\ ~intentionally_disconnected
  BY CallbackMeansConnected DEF ManagerInv
<1>3. PICK d \in Connection :
        /\ d = [c EXCEPT !.status = "Closed"]
        /\ d # None /\ d.id = c.id /\ d.status = "Closed"
  BY <1>2, LiveIs, StatusChange
<1>4. /\ connections' \in [Id -> Connection \cup {None}] /\ IdsMatch'
      /\ \A i \in Id : connections'[i] = None <=> connections[i] = None
      /\ \A i \in Id : connections[i] = c => connections'[i] = d
  BY <1>1, <1>2, <1>3, MapChange
<1>5. /\ old_active_connection' \in Connection \cup {None}
      /\ old_active_connection = c => old_active_connection' = d
  BY <1>1, <1>2, <1>3 DEF TypeOK, InOld
<1>6. ASSUME old_active_connection = None, active_connection_id # None,
             c.id = active_connection_id
      PROVE  /\ c = connections[active_connection_id] /\ c # None
             /\ connections'[active_connection_id] = d
  <2>1. PICK i \in Id : connections[i] = c /\ c # None
    BY <1>2, <1>6, LiveIs DEF Live
  <2>2. i = c.id
    BY <1>2, <2>1 DEF IdsMatch
  <2> QED
    BY <1>4, <1>6, <2>1, <2>2
<1>7. ~is_connected'
  <2>1. CASE c.id # active_connection_id
    <3>1. ~is_connected
      BY <2>1, OnlyElectedIsLive
    <3> QED
      BY <1>1, <2>1, <3>1 DEF ConnectionLost, is_connected, electVars
  <2>2. CASE c.id = active_connection_id
    BY <2>2 DEF ConnectionLost, is_connected
  <2> QED
    BY <2>1, <2>2
<1>8. \/ UNCHANGED <<active_connection_id, reconVars, reported>>
      \/ /\ active_connection_id' = None /\ c.id = active_connection_id
         /\ reconnection_phase = "Reconnecting"
         /\ UNCHANGED <<reconVars, reported>>
      \/ /\ active_connection_id' = None /\ c.id = active_connection_id
         /\ reconnection_phase # "Reconnecting"
         /\ reconnection_phase' = "Reconnecting" /\ reported' = "Reconnecting"
         /\ SpawnLoop
  BY DEF ConnectionLost, StartsReconnection
<1>9. /\ loops' \in [LoopId -> LoopState] /\ OneLoop'
      /\ reconnection_phase' \in {"Idle", "Reconnecting", "Failed"}
      /\ reported' \in {"Testing", "Connected", "Reconnecting", "Failed"}
      /\ reported' = "Connected" =>
             active_connection_id' # None \/ Running' # {}
  <2>1. CASE UNCHANGED <<active_connection_id, reconVars, reported>>
    BY <1>1, <1>2, <2>1
    DEF ManagerInv, TypeOK, OneLoop, ShownState, Running, reconVars
  <2>2. CASE /\ reconnection_phase = "Reconnecting"
             /\ UNCHANGED <<reconVars, reported>>
    BY <1>1, <1>2, <2>2 DEF ManagerInv, TypeOK, OneLoop, Running, reconVars
  <2>3. CASE /\ reconnection_phase # "Reconnecting"
             /\ reconnection_phase' = "Reconnecting"
             /\ reported' = "Reconnecting"
             /\ SpawnLoop
    <3>1. Running = {}
      BY <1>2, <2>3 DEF ManagerInv, OneLoop
    <3>2. /\ loops' \in [LoopId -> LoopState]
          /\ \E l \in LoopId : Running' = {l}
      BY <1>2, <2>3, <3>1, SpawnLoopEffect
    <3> QED
      BY <2>3, <3>2 DEF OneLoop
  <2> QED
    BY <1>8, <2>1, <2>2, <2>3
<1>10. active_connection_id' \in Id \cup {None}
  BY <1>2, <1>8 DEF TypeOK
<1>11. TypeOK'
  BY <1>1, <1>2, <1>4, <1>5, <1>9, <1>10
  DEF TypeOK, rttVars, electVars, sessVars, reelVars
<1>12. CandidatesAreMeasured'
  BY <1>1, <1>4
  DEF ManagerInv, CandidatesAreMeasured, Tests, rttVars, electVars
<1>13. DisconnectIsFinal' /\ DisconnectIsShown'
  BY <1>1, <1>2 DEF DisconnectIsFinal, DisconnectIsShown
<1>14. ElectedIsLive' /\ ShownState'
  BY <1>7, <1>9 DEF ElectedIsLive, ShownState
<1>15. active_connection_id # None /\ active_connection_id' = None =>
           c.id = active_connection_id
  BY <1>8
<1> QED
  BY <1>3, <1>4, <1>6, <1>9, <1>11, <1>12, <1>13, <1>14, <1>15 DEF ManagerInv

-----------------------------------------------------------------------------
(* The reconnection loop *)

\* A loop that wakes up is the one that runs.
LEMMA OnlyLoop ==
    ASSUME ManagerInv, NEW l \in LoopId, loops[l].pc # "none"
    PROVE  /\ Running = {l} /\ Running \subseteq {l}
           /\ loops[l].zero \in 0 .. RECONNECT_CONSECUTIVE_ZERO_LIMIT
           /\ loops[l] = [pc |-> loops[l].pc, zero |-> loops[l].zero]
<1>1. loops[l] \in LoopState
  BY DEF ManagerInv, TypeOK
<1>2. l \in Running
  BY DEF Running, NotRunning
<1> QED
  BY <1>1, <1>2 DEF ManagerInv, OneLoop, LoopState

\* An election is started: what the invariant says of it.
LEMMA StartTestingInv ==
    ASSUME ManagerInv, ~intentionally_disconnected,
           UNCHANGED <<servers, intentionally_disconnected, own_session_id>>,
           NEW kept \in Connection \cup {None},
           \E created \in Created : StartTesting(created, kept),
           active_connection_id' \in Id \cup {None},
           baseline_rtt' = 0, degradation_counter' = 0,
           reelection_in_progress' \in BOOLEAN,
           loops' \in [LoopId -> LoopState],
           reconnection_phase' \in {"Idle", "Reconnecting", "Failed"},
           reported' \in {"Testing", "Connected", "Reconnecting", "Failed"},
           reported' = "Connected" =>
               active_connection_id' # None \/ Running' # {},
           OneLoop'
    PROVE  ManagerInv'
<1>1. PICK created \in Created : StartTesting(created, kept)
  OBVIOUS
<1>2. TypeOK
  BY DEF ManagerInv
<1>3. /\ connections' \in [Id -> Connection \cup {None}]
      /\ rtt_measurements' \in [Id -> Measurement \cup {None}]
      /\ pending_session_ids' = [i \in Id |-> None]
      /\ rtt_responses' = {} /\ old_active_connection' = kept
      /\ election_state' = "Testing" /\ extensions_used' = 0
      /\ \A i \in Id :
          /\ connections'[i] # None => connections'[i].id = i
          /\ rtt_measurements'[i] # None => connections'[i] # None
  BY <1>1, <1>2, StartTestingEffect
<1>4. /\ extensions_used' \in 0 .. ELECTION_MAX_EXTENSIONS
      /\ degradation_counter' \in 0 .. REELECTION_CONSECUTIVE_SAMPLES - 1
      /\ baseline_rtt' \in Rtt \cup {0}
  BY <1>3, LimitAssumption
<1>5. pending_session_ids' \in [Id -> Session \cup {None}]
  BY <1>3
<1>6. TypeOK'
  BY <1>2, <1>3, <1>4, <1>5 DEF TypeOK
<1>7. IdsMatch' /\ CandidatesAreMeasured'
  BY <1>3 DEF IdsMatch, CandidatesAreMeasured
<1>8. DisconnectIsFinal' /\ DisconnectIsShown'
  BY DEF DisconnectIsFinal, DisconnectIsShown
<1>9. ElectedIsLive' /\ ShownState'
  BY <1>3 DEF ElectedIsLive, ShownState, is_connected
<1> QED
  BY <1>6, <1>7, <1>8, <1>9 DEF ManagerInv

\* The loop wakes up after a backoff.
LEMMA BackoffElapsesInv ==
    ASSUME ManagerInv, NEW l \in LoopId, BackoffElapses(l)
    PROVE  /\ ManagerInv'
           /\ active_connection_id # None =>
                  UNCHANGED <<active_connection_id, election_state>>
<1>1. /\ loops[l].pc = "backoff"
      /\ UNCHANGED <<servers, intentionally_disconnected>>
  BY DEF BackoffElapses
<1>2. /\ Running = {l} /\ Running \subseteq {l}
      /\ loops[l].zero \in 0 .. RECONNECT_CONSECUTIVE_ZERO_LIMIT
      /\ loops[l] = [pc |-> loops[l].pc, zero |-> loops[l].zero]
  BY <1>1, OnlyLoop
<1>3. TypeOK
  BY DEF ManagerInv
<1>4. CASE Cancelled
  <2>1. /\ reconnection_phase' = "Idle"
        /\ loops' = [loops EXCEPT ![l] = NotRunning]
        /\ UNCHANGED <<connVars, rttVars, electVars, sessVars, reelVars,
                       reported>>
    BY <1>4 DEF BackoffElapses, Exit
  <2>2. loops' \in [LoopId -> LoopState] /\ Running' = {}
    BY <1>2, <1>3, <2>1, LoopChange, LoopStates
  <2>3. TypeOK'
    BY <1>1, <1>3, <2>1, <2>2
    DEF TypeOK, connVars, rttVars, electVars, sessVars, reelVars
  <2>4. OneLoop'
    BY <2>1, <2>2 DEF OneLoop
  <2>5. /\ IdsMatch' /\ CandidatesAreMeasured' /\ DisconnectIsFinal'
        /\ DisconnectIsShown' /\ ElectedIsLive'
    BY <1>1, <2>1
    DEF ManagerInv, IdsMatch, CandidatesAreMeasured, DisconnectIsFinal,
        DisconnectIsShown, ElectedIsLive, Tests, Live, is_connected, connVars,
        rttVars, electVars
  <2>6. ShownState'
    BY <1>4, <2>1
    DEF ManagerInv, Cancelled, UserLeft, ShownState, DisconnectIsShown,
        is_connected, connVars, electVars
  <2> QED
    BY <2>1, <2>3, <2>4, <2>5, <2>6 DEF ManagerInv, connVars, electVars
<1>5. CASE ~Cancelled
  <2>1. /\ ~intentionally_disconnected /\ active_connection_id = None
    BY <1>5 DEF Cancelled, UserLeft
  <2>2. /\ ResetAndStartElection
        /\ loops' = [loops EXCEPT ![l].pc = "election"]
        /\ UNCHANGED reconnection_phase
    BY <1>5 DEF BackoffElapses
  <2>3. loops' = [loops EXCEPT ![l] =
                      [pc |-> "election", zero |-> loops[l].zero]]
    <3>1. [loops[l] EXCEPT !.pc = "election"]
              = [pc |-> "election", zero |-> loops[l].zero]
      BY <1>2
    <3> QED
      BY <1>3, <2>2, <3>1 DEF TypeOK
  <2>4. loops' \in [LoopId -> LoopState] /\ Running' = {l}
    BY <1>2, <1>3, <2>3, LoopChange, LoopStates
  <2>5. reconnection_phase = "Reconnecting"
    BY <1>2, <2>1 DEF ManagerInv, OneLoop
  <2>6. OneLoop'
    BY <2>2, <2>4, <2>5 DEF OneLoop
  <2>7. /\ \E created \in Created : StartTesting(created, None)
        /\ active_connection_id' = None /\ baseline_rtt' = 0
        /\ degradation_counter' = 0 /\ reelection_in_progress' = FALSE
        /\ reported' = "Testing" /\ UNCHANGED own_session_id
    BY <2>2 DEF ResetAndStartElection
  <2>8. ManagerInv'
    BY <1>1, <2>1, <2>2, <2>4, <2>5, <2>6, <2>7, StartTestingInv
  <2> QED
    BY <2>1, <2>8
<1> QED
  BY <1>4, <1>5

\* The loop wakes up after the election wait.
LEMMA ElectionWaitElapsesInv ==
    ASSUME ManagerInv, NEW l \in LoopId, ElectionWaitElapses(l)
    PROVE  ManagerInv'
<1>1. /\ loops[l].pc = "election"
      /\ UNCHANGED <<servers, connVars, rttVars, electVars, sessVars, reelVars,
                     intentionally_disconnected>>
  BY DEF ElectionWaitElapses
<1>2. /\ Running = {l} /\ Running \subseteq {l}
      /\ loops[l].zero \in 0 .. RECONNECT_CONSECUTIVE_ZERO_LIMIT
  BY <1>1, OnlyLoop
<1>3. TypeOK
  BY DEF ManagerInv
<1>4. \/ /\ is_connected
         /\ reconnection_phase' = "Idle" /\ reported' = "Connected"
         /\ loops' = [loops EXCEPT ![l] = NotRunning]
      \/ /\ ~is_connected
         /\ reconnection_phase' = "Failed" /\ reported' = "Failed"
         /\ loops' = [loops EXCEPT ![l] = NotRunning]
      \/ /\ ~is_connected /\ intentionally_disconnected
         /\ reconnection_phase' = "Idle" /\ UNCHANGED reported
         /\ loops' = [loops EXCEPT ![l] = NotRunning]
      \/ /\ ~is_connected /\ ~intentionally_disconnected
         /\ reconnection_phase' = "Reconnecting" /\ reported' = "Reconnecting"
         /\ \E z \in 0 .. RECONNECT_CONSECUTIVE_ZERO_LIMIT :
               loops' = [loops EXCEPT ![l] = [pc |-> "backoff", zero |-> z]]
  <2>1. ~(ZeroConnections(l) >= RECONNECT_CONSECUTIVE_ZERO_LIMIT) =>
            ZeroConnections(l) \in 0 .. RECONNECT_CONSECUTIVE_ZERO_LIMIT
    BY <1>2, LimitAssumption DEF ZeroConnections
  <2> QED
    BY <2>1 DEF ElectionWaitElapses, AttemptSucceeded, LoopTop, UserLeft, Exit
<1>5. \/ loops' \in [LoopId -> LoopState] /\ Running' = {}
         /\ reconnection_phase' \in {"Idle", "Failed"}
      \/ /\ loops' \in [LoopId -> LoopState] /\ Running' = {l}
         /\ reconnection_phase' = "Reconnecting"
  BY <1>2, <1>3, <1>4, LoopChange, LoopStates
<1>6. OneLoop'
  BY <1>5 DEF OneLoop
<1>7. reported' \in {"Testing", "Connected", "Reconnecting", "Failed"}
  BY <1>3, <1>4 DEF TypeOK
<1>8. TypeOK'
  BY <1>1, <1>3, <1>5, <1>7
  DEF TypeOK, connVars, rttVars, electVars, sessVars, reelVars
<1>9. /\ IdsMatch' /\ CandidatesAreMeasured' /\ DisconnectIsFinal'
      /\ ElectedIsLive' /\ (is_connected' <=> is_connected)
      /\ active_connection_id' = active_connection_id
  BY <1>1
  DEF ManagerInv, IdsMatch, CandidatesAreMeasured, DisconnectIsFinal,
      ElectedIsLive, Tests, Live, is_connected, connVars, rttVars, electVars
<1>10. is_connected => active_connection_id # None
                       /\ ~intentionally_disconnected
  BY DEF is_connected, ManagerInv, DisconnectIsFinal, TypeOK
<1>11. DisconnectIsShown'
  BY <1>1, <1>4, <1>10 DEF ManagerInv, DisconnectIsShown
<1>12. ShownState'
  BY <1>4, <1>9, <1>10 DEF ManagerInv, ShownState, DisconnectIsShown
<1> QED
  BY <1>6, <1>8, <1>9, <1>11, <1>12 DEF ManagerInv

-----------------------------------------------------------------------------
(* The timers *)

\* The election's deadline is extended.
LEMMA ExtendElectionInv ==
    ASSUME ManagerInv, ExtendElection
    PROVE  ManagerInv'
<1>1. /\ ~MayComplete /\ extensions_used' = extensions_used + 1
      /\ UNCHANGED <<servers, connVars, rttVars, election_state, sessVars,
                     reconVars, reelVars, intentionally_disconnected, reported>>
  BY DEF ExtendElection
<1>2. TypeOK
  BY DEF ManagerInv
<1>3. extensions_used' \in 0 .. ELECTION_MAX_EXTENSIONS
  BY <1>1, <1>2, LimitAssumption DEF TypeOK, MayComplete
<1>4. TypeOK'
  BY <1>1, <1>2, <1>3
  DEF TypeOK, connVars, rttVars, sessVars, reconVars, reelVars
<1>5. IdsMatch' /\ CandidatesAreMeasured' /\ DisconnectIsFinal'
  BY <1>1 DEF ManagerInv, IdsMatch, CandidatesAreMeasured, DisconnectIsFinal,
     Tests, connVars, rttVars
<1>6. OneLoop' /\ DisconnectIsShown' /\ ShownState' /\ ElectedIsLive'
  BY <1>1 DEF ManagerInv, OneLoop, DisconnectIsShown, ShownState, ElectedIsLive,
     Live, Running, is_connected, connVars, reconVars
<1> QED
  BY <1>4, <1>5, <1>6 DEF ManagerInv

\* The winner of an election was measured and is established
\* (find_best_connection).
LEMMA WinnerIsUsable ==
    ASSUME ManagerInv, Tests, NEW w \in BestConnections
    PROVE  /\ w \in Id /\ rtt_measurements[w] \in Measurement
           /\ rtt_measurements[w] # None /\ rtt_measurements[w].samples > 0
           /\ connections[w] \in Connection /\ IsConnected(connections[w])
<1>1. w \in Id /\ Usable(w)
  BY ServerAssumption DEF BestConnections, Tier
<1> QED
  BY <1>1 DEF Usable, ManagerInv, TypeOK, CandidatesAreMeasured, IsConnected

\* The elected connection: the winner, perhaps with another session stamped.
LEMMA ElectedConnection ==
    ASSUME ManagerInv, NEW w \in Id, connections[w] \in Connection,
           IsConnected(connections[w]), Elect(w)
    PROVE  /\ connections'[w] \in Connection /\ connections'[w] # None
           /\ connections' = [i \in Id |-> IF i = w THEN connections'[w]
                                           ELSE None]
           /\ connections'[w].id = w /\ connections'[w].status = "Connected"
           /\ connections'[w].inst = connections[w].inst
           /\ connections'[w].assigned = connections[w].assigned
           /\ pending_session_ids[w] # None
              /\ pending_session_ids[w] # own_session_id
              /\ pending_session_ids[w] = SessionOf(connections[w])
              => connections'[w].stamp = "own"
           /\ pending_session_ids[w] = None =>
                  connections'[w].stamp = connections[w].stamp
<1> DEFINE c == connections[w]
           s == pending_session_ids[w]
<1>1. c # None /\ c.status = "Connected" /\ c.id = w
  BY DEF IsConnected, ManagerInv, IdsMatch
<1>2. PICK e \in Connection :
        /\ e # None /\ e.id = c.id /\ e.inst = c.inst /\ e.status = c.status
        /\ e.assigned = c.assigned
        /\ e = Stamped(c, s)
        /\ e.stamp = IF s = SessionOf(c) THEN "own" ELSE "other"
  <2>1. Stamped(c, s) \in Connection
    BY DEF Stamped, Connection
  <2> QED
    BY <2>1, AbsentAssumption DEF Stamped, Connection
<1>3. connections' = CloseUnused(w, IF s # None /\ s # own_session_id
                                    THEN e ELSE c)
  BY <1>1, <1>2 DEF Elect
<1>4. /\ connections'[w] = IF s # None /\ s # own_session_id THEN e ELSE c
      /\ connections' = [i \in Id |-> IF i = w THEN connections'[w] ELSE None]
  BY <1>3 DEF CloseUnused
<1> QED
  BY <1>1, <1>2, <1>4

\* The election is completed.
LEMMA CompleteElectionInv ==
    ASSUME ManagerInv, CompleteElection
    PROVE  ManagerInv'
<1>1. /\ ~intentionally_disconnected /\ election_state = "Testing"
      /\ UNCHANGED <<servers, rttVars, reconVars, intentionally_disconnected>>
  BY DEF CompleteElection
<1>2. TypeOK /\ Tests
  BY <1>1 DEF ManagerInv, Tests
<1>3. OneLoop' /\ DisconnectIsFinal' /\ DisconnectIsShown'
  BY <1>1 DEF ManagerInv, OneLoop, DisconnectIsFinal, DisconnectIsShown,
     Running, reconVars
<1>4. CASE ElectionFails
  <2>1. /\ election_state' = "Failed" /\ reported' = "Failed"
        /\ UNCHANGED <<connVars, extensions_used, sessVars, reelVars>>
    BY <1>4 DEF ElectionFails
  <2>2. TypeOK'
    BY <1>1, <1>2, <2>1
    DEF TypeOK, connVars, rttVars, sessVars, reconVars, reelVars
  <2>3. /\ IdsMatch' /\ CandidatesAreMeasured'
        /\ ElectedIsLive' /\ ShownState'
    BY <2>1 DEF ManagerInv, IdsMatch, CandidatesAreMeasured, Tests,
       ElectedIsLive, ShownState, is_connected, connVars
  <2> QED
    BY <1>3, <2>2, <2>3 DEF ManagerInv
<1>5. ASSUME NEW w \in BestConnections, Elect(w)
      PROVE  ManagerInv'
  <2>1. /\ w \in Id /\ rtt_measurements[w] \in Measurement
        /\ rtt_measurements[w] # None
        /\ connections[w] \in Connection /\ IsConnected(connections[w])
    BY <1>2, WinnerIsUsable
  <2>2. /\ connections'[w] \in Connection /\ connections'[w] # None
        /\ connections' = [i \in Id |-> IF i = w THEN connections'[w]
                                        ELSE None]
        /\ connections'[w].id = w /\ connections'[w].status = "Connected"
    BY <1>5, <2>1, ElectedConnection
  <2>3. /\ active_connection_id' = w /\ election_state' = "Elected"
        /\ own_session_id' = ElectedSession(w)
        /\ pending_session_ids' = [i \in Id |-> None]
        /\ baseline_rtt' = rtt_measurements[w].avg
        /\ degradation_counter' = 0 /\ reelection_in_progress' = FALSE
        /\ old_active_connection' = None /\ reported' = "Connected"
        /\ UNCHANGED extensions_used
    BY <1>5 DEF Elect, OldAfterElection
  <2>4. /\ connections' \in [Id -> Connection \cup {None}]
        /\ \A i \in Id \ {w} : connections'[i] = None
    <3>1. PICK e \in Connection : e = connections'[w]
      BY <2>2
    <3>2. connections' = [i \in Id |-> IF i = w THEN e ELSE None]
      BY <2>2, <3>1
    <3> QED
      BY <3>2
  <2>5. /\ own_session_id' \in Session \cup {None}
        /\ pending_session_ids' \in [Id -> Session \cup {None}]
        /\ baseline_rtt' \in Rtt \cup {0}
        /\ degradation_counter' \in 0 .. REELECTION_CONSECUTIVE_SAMPLES - 1
    BY <1>2, <2>1, <2>3, LimitAssumption
    DEF TypeOK, ElectedSession, Measurement
  <2>6. TypeOK'
    BY <1>1, <1>2, <2>1, <2>3, <2>4, <2>5 DEF TypeOK, rttVars, reconVars
  <2>7. IdsMatch' /\ CandidatesAreMeasured'
    BY <2>2, <2>3, <2>4 DEF IdsMatch, CandidatesAreMeasured, Tests
  <2>8. ElectedIsLive'
    <3>1. Live' = {connections'[w]}
      BY <2>1, <2>2, <2>3, <2>4 DEF Live
    <3> QED
      BY <2>2, <2>3, <3>1 DEF ElectedIsLive, IsConnected
  <2>9. ShownState'
    BY <2>1, <2>3, NoneAssumption DEF ShownState
  <2> QED
    BY <1>3, <2>6, <2>7, <2>8, <2>9 DEF ManagerInv
<1> QED
  BY <1>4, <1>5 DEF CompleteElection

\* What the queued responses make of a measurement (handle_rtt_response).
LEMMA ProcessedIs ==
    ASSUME TypeOK, NEW i \in Id, NEW m \in Processed(i)
    PROVE  /\ m \in Measurement \cup {None}
           /\ m # None => rtt_measurements[i] # None
           /\ \/ m = rtt_measurements[i]
              \/ /\ \E s \in rtt_responses : s[1] = i
                 /\ rtt_measurements[i].answered
                    \/ (connections[i] # None
                        /\ SessionOf(connections[i]) \in rtt_responses
                        /\ SessionOf(connections[i])[1] = i)
                    => m.answered
<1> DEFINE old == rtt_measurements[i]
           from == {s \in rtt_responses : s[1] = i}
           c == connections[i]
           answered == old.answered \/ (c # None /\ SessionOf(c) \in from)
<1>1. CASE old = None \/ from = {}
  BY <1>1 DEF Processed, TypeOK
<1>2. CASE old # None /\ from # {}
  <2>1. PICK n \in {k \in 1 .. ELECTION_MIN_RTT_SAMPLES :
                        k > old.samples \/ k = ELECTION_MIN_RTT_SAMPLES},
             a \in Rtt :
          m = [samples |-> n, avg |-> a, answered |-> answered]
    BY <1>2 DEF Processed
  <2>2. n \in 0 .. ELECTION_MIN_RTT_SAMPLES
    BY <2>1, LimitAssumption
  <2>3. answered \in BOOLEAN
    BY Zenon
  <2>4. m \in Measurement
    <3> HIDE DEF answered
    <3> QED
      BY <2>1, <2>2, <2>3 DEF Measurement
  <2>5. m.answered = answered
    BY <2>1
  <2> QED
    BY <1>2, <2>4, <2>5
<1> QED
  BY <1>1, <1>2

\* The measured connection is monitored, so there is one.
LEMMA MonitoredIs ==
    ASSUME TypeOK, NEW m, Monitored(m)
    PROVE  /\ active_connection_id \in Id /\ active_connection_id # None
           /\ election_state = "Elected" /\ m[active_connection_id] # None
BY DEF TypeOK, Monitored

\* The 1 Hz timer: responses are processed, and a re-election may start.
LEMMA DiagnosticsTickInv ==
    ASSUME ManagerInv, DiagnosticsTick
    PROVE  /\ ManagerInv'
           /\ UNCHANGED active_connection_id
<1>1. /\ ~intentionally_disconnected
      /\ UNCHANGED <<servers, reconVars, intentionally_disconnected, reported>>
  BY DEF DiagnosticsTick
<1>2. TypeOK
  BY DEF ManagerInv
<1>3. PICK m \in [Id -> UNION {Processed(i) : i \in Id}] :
        /\ \A i \in Id : m[i] \in Processed(i)
        /\ \/ StartReelection /\ Monitored(m)
           \/ /\ rtt_measurements' = m /\ rtt_responses' = {}
              /\ UNCHANGED <<connVars, electVars, sessVars>>
              /\ \/ UNCHANGED reelVars
                 \/ Monitored(m) /\ DegradationSeen(m[active_connection_id].avg)
                 \/ /\ degradation_counter' = 0
                    /\ UNCHANGED <<baseline_rtt, reelection_in_progress>>
  BY DEF DiagnosticsTick
<1>4. OneLoop'
  BY <1>1 DEF ManagerInv, OneLoop, Running, reconVars
<1>5. CASE StartReelection /\ Monitored(m)
  <2>1. active_connection_id \in Id /\ active_connection_id # None
    BY <1>2, <1>5, MonitoredIs
  <2>2. PICK kept \in Connection \cup {None} :
          kept = connections[active_connection_id]
    BY <1>2, <2>1 DEF TypeOK
  <2>3. /\ \E created \in Created : StartTesting(created, kept)
        /\ reelection_in_progress' = TRUE /\ degradation_counter' = 0
        /\ baseline_rtt' = 0
        /\ UNCHANGED <<active_connection_id, own_session_id>>
    BY <1>5, <2>2 DEF StartReelection
  <2>4. /\ loops' \in [LoopId -> LoopState]
        /\ reconnection_phase' \in {"Idle", "Reconnecting", "Failed"}
        /\ reported' \in {"Testing", "Connected", "Reconnecting", "Failed"}
    BY <1>1, <1>2 DEF TypeOK, reconVars
  <2>5. /\ active_connection_id' \in Id \cup {None}
        /\ active_connection_id' # None
        /\ reelection_in_progress' \in BOOLEAN
        /\ UNCHANGED <<servers, intentionally_disconnected, own_session_id>>
    BY <1>1, <2>1, <2>3
  <2>6. ManagerInv'
    BY <1>1, <1>4, <2>3, <2>4, <2>5, StartTestingInv
  <2> QED
    BY <2>3, <2>6
<1>6. CASE /\ rtt_measurements' = m /\ rtt_responses' = {}
           /\ UNCHANGED <<connVars, electVars, sessVars>>
           /\ \/ UNCHANGED reelVars
              \/ Monitored(m) /\ DegradationSeen(m[active_connection_id].avg)
              \/ /\ degradation_counter' = 0
                 /\ UNCHANGED <<baseline_rtt, reelection_in_progress>>
  <2>1. /\ \A i \in Id : /\ m[i] \in Measurement \cup {None}
                         /\ m[i] # None => rtt_measurements[i] # None
        /\ m \in [Id -> Measurement \cup {None}]
    <3>1. \A i \in Id : /\ m[i] \in Measurement \cup {None}
                        /\ m[i] # None => rtt_measurements[i] # None
      BY <1>2, <1>3, ProcessedIs
    <3> QED
      BY <3>1
  <2>2. /\ baseline_rtt' \in Rtt \cup {0}
        /\ degradation_counter' \in 0 .. REELECTION_CONSECUTIVE_SAMPLES - 1
        /\ reelection_in_progress' \in BOOLEAN
    <3>1. CASE UNCHANGED reelVars
      BY <1>2, <3>1 DEF TypeOK, reelVars
    <3>2. CASE Monitored(m) /\ DegradationSeen(m[active_connection_id].avg)
      <4>1. m[active_connection_id].avg \in Rtt \cup {0}
        BY <1>2, <2>1, <3>2, MonitoredIs DEF Measurement
      <4> QED
        BY <1>2, <3>2, <4>1, LimitAssumption DEF TypeOK, DegradationSeen
    <3>3. CASE /\ degradation_counter' = 0
               /\ UNCHANGED <<baseline_rtt, reelection_in_progress>>
      BY <1>2, <3>3, LimitAssumption DEF TypeOK
    <3> QED
      BY <1>6, <3>1, <3>2, <3>3
  <2>3. TypeOK'
    BY <1>1, <1>2, <1>6, <2>1, <2>2
    DEF TypeOK, connVars, electVars, sessVars, reconVars
  <2>4. CandidatesAreMeasured'
    BY <1>1, <1>6, <2>1
    DEF ManagerInv, CandidatesAreMeasured, Tests, connVars, electVars
  <2>5. IdsMatch' /\ DisconnectIsFinal' /\ DisconnectIsShown'
    BY <1>1, <1>6
    DEF ManagerInv, IdsMatch, DisconnectIsFinal, DisconnectIsShown, connVars
  <2>6. ElectedIsLive' /\ ShownState'
    BY <1>1, <1>6 DEF ManagerInv, ElectedIsLive, ShownState, Live, Running,
       is_connected, connVars, electVars, reconVars
  <2> QED
    BY <1>4, <1>6, <2>3, <2>4, <2>5, <2>6 DEF ManagerInv, connVars
<1> QED
  BY <1>3, <1>5, <1>6

\* The user leaves.
LEMMA DisconnectInv ==
    ASSUME ManagerInv, Disconnect
    PROVE  ManagerInv'
<1>1. /\ ~intentionally_disconnected /\ intentionally_disconnected' = TRUE
      /\ reconnection_phase' = "Idle" /\ active_connection_id' = None
      /\ old_active_connection' = None /\ connections' = [i \in Id |-> None]
      /\ reported' = "Failed"
      /\ UNCHANGED <<servers, rttVars, electVars, sessVars, loops, reelVars>>
  BY DEF Disconnect
<1>2. TypeOK'
  BY <1>1 DEF ManagerInv, TypeOK, rttVars, electVars, sessVars, reelVars
<1>3. IdsMatch' /\ CandidatesAreMeasured'
  BY <1>1 DEF IdsMatch, CandidatesAreMeasured, Tests
<1>4. OneLoop'
  BY <1>1 DEF ManagerInv, OneLoop, Running
<1>5. DisconnectIsFinal' /\ DisconnectIsShown'
  BY <1>1 DEF DisconnectIsFinal, DisconnectIsShown
<1>6. ElectedIsLive' /\ ShownState'
  BY <1>1 DEF ElectedIsLive, ShownState, is_connected
<1> QED
  BY <1>2, <1>3, <1>4, <1>5, <1>6 DEF ManagerInv

\* The first election.
LEMMA InitManagerInv == Init => ManagerInv
<1> SUFFICES ASSUME Init PROVE ManagerInv
  OBVIOUS
<1>1. PICK n \in Inst : n = CHOOSE k \in Inst : TRUE
  BY ThirdInst
<1>2. PICK created \in Created : /\ connections = Candidates(created, n)
                                 /\ rtt_measurements = Unmeasured(created)
  BY <1>1 DEF Init
<1>3. ASSUME NEW i \in Id
      PROVE  LET c == [id |-> i, inst |-> n, status |-> "Connecting",
                       assigned |-> "no", stamp |-> "none"]
             IN  c \in Connection /\ c # None /\ c.id = i
  <2>1. [id |-> i, inst |-> n, status |-> "Connecting",
         assigned |-> "no", stamp |-> "none"] \in Connection
    BY DEF Connection
  <2> QED
    BY <2>1, AbsentAssumption
<1>4. LET m == [samples |-> 0, avg |-> 0, answered |-> FALSE]
      IN  m \in Measurement /\ m # None
  <2>1. 0 \in 0 .. ELECTION_MIN_RTT_SAMPLES /\ 0 \in Rtt \cup {0}
    BY LimitAssumption
  <2>2. [samples |-> 0, avg |-> 0, answered |-> FALSE] \in Measurement
    BY <2>1 DEF Measurement
  <2> QED
    BY <2>2, AbsentAssumption
<1>5. connections \in [Id -> Connection \cup {None}] /\ IdsMatch
  BY <1>2, <1>3 DEF Candidates, IdsMatch
<1>6. rtt_measurements \in [Id -> Measurement \cup {None}]
  BY <1>2, <1>4 DEF Unmeasured
<1>7. CandidatesAreMeasured
  BY <1>2, <1>3 DEF CandidatesAreMeasured, Candidates, Unmeasured
<1>8. /\ loops = [l \in LoopId |-> NotRunning] /\ Running = {}
      /\ loops \in [LoopId -> LoopState]
  BY LoopStates DEF Init, Running
<1>9. TypeOK
  <2>1. /\ servers \subseteq Id
        /\ extensions_used \in 0 .. ELECTION_MAX_EXTENSIONS
        /\ degradation_counter \in 0 .. REELECTION_CONSECUTIVE_SAMPLES - 1
    BY CreatableAssumption, LimitAssumption DEF Init
  <2>2. /\ old_active_connection \in Connection \cup {None}
        /\ active_connection_id \in Id \cup {None}
        /\ rtt_responses \subseteq Session
        /\ election_state \in {"Testing", "Elected", "Failed"}
        /\ own_session_id \in Session \cup {None}
        /\ pending_session_ids \in [Id -> Session \cup {None}]
    BY DEF Init
  <2>3. /\ reconnection_phase \in {"Idle", "Reconnecting", "Failed"}
        /\ baseline_rtt \in Rtt \cup {0}
        /\ reelection_in_progress \in BOOLEAN
        /\ intentionally_disconnected \in BOOLEAN
        /\ reported \in {"Testing", "Connected", "Reconnecting", "Failed"}
    BY DEF Init
  <2> QED
    BY <1>5, <1>6, <1>8, <2>1, <2>2, <2>3 DEF TypeOK
<1>10. OneLoop
  BY <1>8 DEF Init, OneLoop
<1>11. DisconnectIsFinal /\ DisconnectIsShown /\ ElectedIsLive /\ ShownState
  BY DEF Init, DisconnectIsFinal, DisconnectIsShown, ElectedIsLive, ShownState,
     is_connected
<1> QED
  BY <1>5, <1>7, <1>9, <1>10, <1>11 DEF ManagerInv

\* Every step preserves the invariant.
LEMMA ManagerStep == ManagerInv /\ [Next]_vars => ManagerInv'
<1> SUFFICES ASSUME ManagerInv, [Next]_vars PROVE ManagerInv'
  OBVIOUS
<1>1. ASSUME NEW c \in Live,
             \/ Opened(c) \/ SessionAssigned(c)
             \/ RttResponse(c) \/ ConnectionLost(c)
      PROVE  ManagerInv'
  BY <1>1, OpenedInv, SessionAssignedInv, RttResponseInv, ConnectionLostInv
<1>2. ASSUME NEW l \in LoopId, BackoffElapses(l) \/ ElectionWaitElapses(l)
      PROVE  ManagerInv'
  BY <1>2, BackoffElapsesInv, ElectionWaitElapsesInv
<1>3. CASE ExtendElection \/ CompleteElection \/ DiagnosticsTick \/ Disconnect
  BY <1>3, ExtendElectionInv, CompleteElectionInv, DiagnosticsTickInv,
     DisconnectInv
<1>4. CASE UNCHANGED vars
  BY <1>4 DEF vars, connVars, rttVars, electVars, sessVars, reconVars, reelVars,
     ManagerInv, TypeOK, IdsMatch, CandidatesAreMeasured, OneLoop,
     DisconnectIsFinal, DisconnectIsShown, ElectedIsLive, ShownState, Tests,
     Live, Running, is_connected
<1> QED
  BY <1>1, <1>2, <1>3, <1>4 DEF Next

(* The inductive invariant of the connection manager. *)
THEOREM ManagerInvariant == Spec => []ManagerInv
BY InitManagerInv, ManagerStep, PTL DEF Spec

(* One loop is one by its cardinality, too. *)
LEMMA OneLoopIsOne == OneLoop => OneReconnectionLoop
<1> SUFFICES ASSUME OneLoop PROVE Cardinality(Running) <= 1
  BY DEF OneLoop, OneReconnectionLoop
<1>1. Running = {} \/ \E l : Running = {l}
  BY DEF OneLoop
<1>2. Cardinality({}) = 0
  BY FS_EmptySet
<1>3. \A l : Cardinality({l}) = 1
  BY FS_Singleton
<1> QED
  BY <1>1, <1>2, <1>3

(* The manager stays in one piece, whatever the transports, the timers and  *)
(* the reconnection loop do: one loop at most and one whenever the phase    *)
(* says so, nothing open after disconnect(), the elected connection alive   *)
(* and alone, and a state that is shown as it is (connection_manager.rs).   *)
THEOREM ManagerStaysSound == Spec => []ManagerSound
<1>1. ManagerInv => ManagerSound
  BY OneLoopIsOne DEF ManagerInv, ManagerSound
<1> QED
  BY <1>1, ManagerInvariant, PTL

(* A settled manager gives up its active connection only because that very  *)
(* connection was lost or because the user disconnected.  The reconnection  *)
(* loop sees after its backoff that something else restored one             *)
(* (run_reconnection_loop), and without a connection set aside the id names *)
(* one connection only (ConnectionLost compares ids).                       *)
THEOREM ActiveIsKept == Spec => ActiveIsNotReset
<1> DEFINE Reset == /\ old_active_connection = None
                    /\ active_connection_id # None
                    /\ active_connection_id' = None
           Excused == \/ intentionally_disconnected'
                      \/ /\ connections[active_connection_id] # None
                         /\ connections'[active_connection_id] =
                                [connections[active_connection_id] EXCEPT
                                    !.status = "Closed"]
<1>1. ASSUME ManagerInv, Next, Reset PROVE Excused
  <2>1. ASSUME NEW c \in Live,
               Opened(c) \/ SessionAssigned(c) \/ RttResponse(c)
        PROVE  UNCHANGED active_connection_id
    BY <2>1 DEF Opened, SessionAssigned, RttResponse, connVars
  <2>2. ASSUME NEW c \in Live, ConnectionLost(c) PROVE Excused
    BY <1>1, <2>2, ConnectionLostInv
  <2>3. ASSUME NEW l \in LoopId, BackoffElapses(l) PROVE FALSE
    BY <1>1, <2>3, BackoffElapsesInv
  <2>4. ASSUME NEW l \in LoopId, ElectionWaitElapses(l)
        PROVE  UNCHANGED active_connection_id
    BY <2>4 DEF ElectionWaitElapses, connVars
  <2>5. CASE ExtendElection
    BY <1>1, <2>5 DEF ExtendElection, connVars
  <2>6. CASE CompleteElection
    <3>1. CASE ElectionFails
      BY <1>1, <3>1 DEF ElectionFails, connVars
    <3>2. ASSUME NEW w \in BestConnections, Elect(w) PROVE FALSE
      <4>1. Tests
        BY <2>6 DEF CompleteElection, Tests
      <4>2. w \in Id
        BY <1>1, <4>1, WinnerIsUsable
      <4> QED
        BY <1>1, <3>2, <4>2, NoneAssumption DEF Elect
    <3> QED
      BY <2>6, <3>1, <3>2 DEF CompleteElection
  <2>7. CASE DiagnosticsTick
    BY <1>1, <2>7, DiagnosticsTickInv
  <2>8. CASE Disconnect
    BY <2>8 DEF Disconnect
  <2> QED
    BY <1>1, <2>1, <2>2, <2>3, <2>4, <2>5, <2>6, <2>7, <2>8 DEF Next
<1>2. ManagerInv /\ [Next]_vars => [Reset => Excused]_vars
  BY <1>1
<1> QED
  BY <1>2, ManagerInvariant, PTL DEF Spec, ActiveIsNotReset

(* With one server configured a connected manager stays connected until a   *)
(* loss or the user ends it: the check of check_rtt_degradation.            *)
THEOREM SingleServerStays == Spec => SingleServerKept
<1> DEFINE Kept == is_connected' \/ active_connection_id' = None
<1>1. ASSUME ManagerInv, Next, Cardinality(servers) = 1, is_connected
      PROVE  Kept
  <2>1. active_connection_id # None /\ election_state = "Elected"
    BY <1>1 DEF is_connected
  <2>2. UNCHANGED <<active_connection_id, election_state>> => Kept
    BY <2>1 DEF is_connected
  <2>3. ASSUME NEW c \in Live,
               Opened(c) \/ SessionAssigned(c) \/ RttResponse(c)
        PROVE  Kept
    BY <2>2, <2>3
    DEF Opened, SessionAssigned, RttResponse, connVars, electVars
  <2>4. ASSUME NEW c \in Live, ConnectionLost(c) PROVE Kept
    BY <2>2, <2>4 DEF ConnectionLost, electVars
  <2>5. ASSUME NEW l \in LoopId, BackoffElapses(l) PROVE Kept
    BY <1>1, <2>1, <2>2, <2>5, BackoffElapsesInv
  <2>6. ASSUME NEW l \in LoopId, ElectionWaitElapses(l) PROVE Kept
    BY <2>2, <2>6 DEF ElectionWaitElapses, connVars, electVars
  <2>7. ASSUME ExtendElection \/ CompleteElection PROVE FALSE
    BY <2>1, <2>7 DEF ExtendElection, CompleteElection
  <2>8. CASE DiagnosticsTick
    <3>1. ~ReelectionHelps
      BY <1>1 DEF ReelectionHelps
    <3>2. UNCHANGED <<connVars, electVars>>
      BY <2>8, <3>1 DEF DiagnosticsTick
    <3> QED
      BY <2>2, <3>2 DEF connVars, electVars
  <2>9. CASE Disconnect
    BY <2>9 DEF Disconnect
  <2> QED
    BY <1>1, <2>3, <2>4, <2>5, <2>6, <2>7, <2>8, <2>9 DEF Next
<1>2. ManagerInv /\ [Next]_vars =>
          [Cardinality(servers) = 1 /\ is_connected => Kept]_vars
  BY <1>1
<1> QED
  BY <1>2, ManagerInvariant, PTL DEF Spec, SingleServerKept

-----------------------------------------------------------------------------
(* The winner answered *)

\* Without a preserved connection, the queued responses are those of the
\* candidates themselves, and so are the samples.
AnswersAreOwn ==
    Tests /\ old_active_connection = None =>
        /\ \A s \in rtt_responses :
               /\ connections[s[1]] # None
               /\ SessionOf(connections[s[1]]) = s
        /\ \A i \in Id :
               rtt_measurements[i] # None /\ rtt_measurements[i].samples > 0 =>
                   rtt_measurements[i].answered

\* Steps that leave candidates and measurements what they are.
LEMMA AnswersIf ==
    ASSUME TypeOK, AnswersAreOwn, UNCHANGED rttVars,
           Tests' /\ old_active_connection' = None =>
               Tests /\ old_active_connection = None,
           \A i \in Id : connections[i] # None =>
               /\ connections'[i] # None
               /\ connections'[i].id = connections[i].id
               /\ connections'[i].inst = connections[i].inst
    PROVE  AnswersAreOwn'
<1>1. \A s \in rtt_responses : s[1] \in Id
  BY DEF TypeOK, Session
<1> QED
  BY <1>1 DEF AnswersAreOwn, SessionOf, rttVars

\* An election starts with an empty queue and no samples.
LEMMA AnswersAtStart ==
    ASSUME TypeOK, NEW created, NEW kept \in Connection \cup {None},
           StartTesting(created, kept)
    PROVE  AnswersAreOwn'
<1>1. /\ rtt_responses' = {}
      /\ \A i \in Id : rtt_measurements'[i] # None =>
                           rtt_measurements'[i].samples = 0
  BY StartTestingEffect
<1> QED
  BY <1>1 DEF AnswersAreOwn

\* Every step preserves it.
LEMMA AnswersStep ==
    ManagerInv /\ AnswersAreOwn /\ [Next]_vars => AnswersAreOwn'
<1> SUFFICES ASSUME ManagerInv, AnswersAreOwn, [Next]_vars
             PROVE  AnswersAreOwn'
  OBVIOUS
<1>1. TypeOK /\ IdsMatch
  BY DEF ManagerInv
<1>2. ASSUME NEW c \in Live, Opened(c) PROVE AnswersAreOwn'
  <2>1. PICK d \in Connection :
          /\ d = [c EXCEPT !.status = "Connected"] /\ d # None
          /\ d.id = c.id /\ d.inst = c.inst
    BY <1>1, LiveIs, StatusChange
  <2>2. connections' = InMap(c, d)
        /\ UNCHANGED <<old_active_connection, rttVars, electVars,
                       intentionally_disconnected>>
    BY <1>2, <2>1 DEF Opened
  <2>3. \A i \in Id : connections[i] # None =>
            /\ connections'[i] # None
            /\ connections'[i].id = connections[i].id
            /\ connections'[i].inst = connections[i].inst
    BY <1>1, <2>1, <2>2, MapChange
  <2> QED
    BY <1>1, <2>2, <2>3, AnswersIf DEF Tests, electVars
<1>3. ASSUME NEW c \in Live, SessionAssigned(c) PROVE AnswersAreOwn'
  <2>1. /\ old_active_connection' = None <=> old_active_connection = None
        /\ \A i \in Id : connections[i] # None =>
            /\ connections'[i] # None
            /\ connections'[i].id = connections[i].id
            /\ connections'[i].inst = connections[i].inst
    BY <1>1, <1>3, SessionAssignedEffect
  <2>2. UNCHANGED <<rttVars, electVars, intentionally_disconnected>>
    BY <1>3 DEF SessionAssigned
  <2> QED
    BY <1>1, <2>1, <2>2, AnswersIf DEF Tests, electVars
<1>4. ASSUME NEW c \in Live, RttResponse(c) PROVE AnswersAreOwn'
  <2>1. /\ rtt_responses' = rtt_responses \cup {SessionOf(c)}
        /\ UNCHANGED <<connVars, rtt_measurements, electVars,
                       intentionally_disconnected>>
    BY <1>4 DEF RttResponse
  <2>2. old_active_connection = None =>
            c # None /\ connections[c.id] = c /\ SessionOf(c)[1] = c.id
    BY <1>1, LiveIs DEF IdsMatch, SessionOf
  <2> QED
    BY <2>1, <2>2 DEF AnswersAreOwn, Tests, connVars, electVars
<1>5. ASSUME NEW c \in Live, ConnectionLost(c) PROVE AnswersAreOwn'
  <2>1. PICK d \in Connection :
          /\ d = [c EXCEPT !.status = "Closed"] /\ d # None
          /\ d.id = c.id /\ d.inst = c.inst
    BY <1>1, LiveIs, StatusChange
  <2>2. connections' = InMap(c, d) /\ old_active_connection' = InOld(c, d)
        /\ UNCHANGED <<rttVars, electVars, intentionally_disconnected>>
    BY <1>5, <2>1 DEF ConnectionLost
  <2>3. \A i \in Id : connections[i] # None =>
            /\ connections'[i] # None
            /\ connections'[i].id = connections[i].id
            /\ connections'[i].inst = connections[i].inst
    BY <1>1, <2>1, <2>2, MapChange
  <2>4. old_active_connection' = None => old_active_connection = None
    BY <2>1, <2>2 DEF InOld
  <2> QED
    BY <1>1, <2>2, <2>3, <2>4, AnswersIf DEF Tests, electVars
<1>6. ASSUME NEW l \in LoopId, BackoffElapses(l) PROVE AnswersAreOwn'
  <2>1. CASE Cancelled
    BY <1>1, <1>6, <2>1, AnswersIf
    DEF BackoffElapses, Tests, connVars, rttVars, electVars
  <2>2. CASE ~Cancelled
    BY <1>1, <1>6, <2>2, AnswersAtStart
    DEF BackoffElapses, ResetAndStartElection
  <2> QED
    BY <2>1, <2>2
<1>7. ASSUME NEW l \in LoopId, ElectionWaitElapses(l) PROVE AnswersAreOwn'
  BY <1>1, <1>7, AnswersIf DEF ElectionWaitElapses, Tests, connVars, electVars
<1>8. CASE ExtendElection
  BY <1>1, <1>8, AnswersIf DEF ExtendElection, Tests, connVars
<1>9. CASE CompleteElection
  <2>1. election_state' # "Testing"
    BY <1>9 DEF CompleteElection, ElectionFails, Elect
  <2> QED
    BY <2>1 DEF AnswersAreOwn, Tests
<1>10. CASE DiagnosticsTick
  <2>1. PICK m \in [Id -> UNION {Processed(i) : i \in Id}] :
          /\ \A i \in Id : m[i] \in Processed(i)
          /\ \/ StartReelection /\ Monitored(m)
             \/ /\ rtt_measurements' = m /\ rtt_responses' = {}
                /\ UNCHANGED <<connVars, electVars>>
    BY <1>10 DEF DiagnosticsTick
  <2>2. CASE StartReelection /\ Monitored(m)
    <3>1. connections[active_connection_id] \in Connection \cup {None}
      BY <1>1, <2>2, MonitoredIs DEF TypeOK
    <3> QED
      BY <1>1, <2>2, <3>1, AnswersAtStart DEF StartReelection
  <2>3. CASE /\ rtt_measurements' = m /\ rtt_responses' = {}
             /\ UNCHANGED <<connVars, electVars>>
    <3> SUFFICES ASSUME Tests', old_active_connection' = None,
                        NEW i \in Id, m[i] # None, m[i].samples > 0
                 PROVE  m[i].answered
      BY <2>3 DEF AnswersAreOwn
    <3>1. Tests /\ old_active_connection = None
      BY <1>10, <2>3 DEF Tests, DiagnosticsTick, connVars, electVars
    <3>2. rtt_measurements[i] # None
      BY <1>1, <2>1, ProcessedIs
    <3>3. CASE m[i] = rtt_measurements[i]
      BY <3>1, <3>2, <3>3 DEF AnswersAreOwn
    <3>4. ASSUME NEW s \in rtt_responses, s[1] = i
          PROVE  /\ connections[i] # None
                 /\ SessionOf(connections[i]) \in rtt_responses
                 /\ SessionOf(connections[i])[1] = i
      BY <3>1, <3>4 DEF AnswersAreOwn
    <3> QED
      BY <1>1, <2>1, <3>3, <3>4, ProcessedIs
  <2> QED
    BY <2>1, <2>2, <2>3
<1>11. CASE Disconnect
  BY <1>11 DEF Disconnect, AnswersAreOwn, Tests
<1>12. CASE UNCHANGED vars
  BY <1>1, <1>12, AnswersIf DEF vars, Tests, connVars, electVars
<1> QED
  BY <1>2, <1>3, <1>4, <1>5, <1>6, <1>7, <1>8, <1>9, <1>10, <1>11, <1>12
  DEF Next

(* The winner of the first election or of a reconnection answered a probe   *)
(* itself: reset_and_start_election drops the queue and the measurements of *)
(* the connections before it.                                               *)
THEOREM WinnersAnswered == Spec => ElectedAnswered
<1> DEFINE Won == /\ old_active_connection = None
                  /\ election_state = "Testing" /\ election_state' = "Elected"
<1>1. ASSUME ManagerInv, AnswersAreOwn, Next, Won
      PROVE  rtt_measurements[active_connection_id'].answered
  <2>1. CompleteElection
    <3>1. ASSUME NEW c \in Live,
                 \/ Opened(c) \/ SessionAssigned(c)
                 \/ RttResponse(c) \/ ConnectionLost(c)
          PROVE  UNCHANGED election_state
      BY <3>1
      DEF Opened, SessionAssigned, RttResponse, ConnectionLost, electVars
    <3>2. ASSUME NEW l \in LoopId, BackoffElapses(l) \/ ElectionWaitElapses(l)
          PROVE  election_state' \in {election_state, "Testing"}
      BY <3>2 DEF BackoffElapses, ElectionWaitElapses, ResetAndStartElection,
         StartTesting, electVars
    <3>3. CASE ExtendElection \/ Disconnect
      BY <1>1, <3>3 DEF ExtendElection, Disconnect, electVars
    <3>4. CASE DiagnosticsTick
      BY <1>1, <3>4
      DEF DiagnosticsTick, StartReelection, StartTesting, electVars
    <3> QED
      BY <1>1, <3>1, <3>2, <3>3, <3>4 DEF Next
  <2>2. Tests
    BY <2>1 DEF CompleteElection, Tests
  <2>3. PICK w \in BestConnections : Elect(w)
    BY <1>1, <2>1 DEF CompleteElection, ElectionFails
  <2>4. /\ w \in Id /\ rtt_measurements[w] # None
        /\ rtt_measurements[w].samples > 0
    BY <1>1, <2>2, WinnerIsUsable
  <2> QED
    BY <1>1, <2>2, <2>3, <2>4 DEF AnswersAreOwn, Elect
<1>2. Init => AnswersAreOwn
  <2> SUFFICES ASSUME Init PROVE AnswersAreOwn
    OBVIOUS
  <2>1. PICK created \in Created : rtt_measurements = Unmeasured(created)
    BY DEF Init
  <2>2. \A i \in Id : rtt_measurements[i] # None =>
                          rtt_measurements[i].samples = 0
    BY <2>1 DEF Unmeasured
  <2> QED
    BY <2>2 DEF Init, AnswersAreOwn
<1>3. ManagerInv /\ AnswersAreOwn /\ [Next]_vars =>
          [Won => rtt_measurements[active_connection_id'].answered]_vars
  BY <1>1
<1> QED
  BY <1>2, <1>3, AnswersStep, ManagerInvariant, PTL DEF Spec, ElectedAnswered

-----------------------------------------------------------------------------
(* The session in use *)

\* A connection that a re-election sets aside has got its SESSION_ASSIGNED.
OldHasSession ==
    old_active_connection # None => old_active_connection.assigned # "no"

\* The session of the candidate i: not assigned; kept for the election; or
\* in use already, if i is the id of the connection that is to be replaced.
CandidateSession(i) ==
    LET c == connections[i]
    IN  \/ /\ c.assigned = "no"
           /\ own_session_id # SessionOf(c) /\ pending_session_ids[i] = None
        \/ /\ c.assigned # "no" /\ own_session_id # SessionOf(c)
           /\ pending_session_ids[i] = SessionOf(c)
        \/ /\ c.assigned # "no" /\ own_session_id = SessionOf(c)
           /\ pending_session_ids[i] = None
           /\ c.stamp = "own" /\ active_connection_id \in {i, None}

SessionInv ==
    /\ Tests => \A i \in Id : connections[i] # None => CandidateSession(i)
    /\ OwnSessionIsElected

\* Steps that leave the sessions and what is known of them.
LEMMA SessionIf ==
    ASSUME SessionInv, UNCHANGED sessVars,
           Tests' => Tests, is_connected' => is_connected,
           active_connection_id' \in {active_connection_id, None},
           \A i \in Id : connections'[i] # None =>
               /\ connections[i] # None
               /\ connections'[i].id = connections[i].id
               /\ connections'[i].inst = connections[i].inst
               /\ connections'[i].assigned = connections[i].assigned
               /\ connections'[i].stamp = connections[i].stamp,
           ManagerInv, ManagerInv'
    PROVE  SessionInv'
<1>1. \A i \in Id : connections'[i] # None =>
          SessionOf(connections'[i]) = SessionOf(connections[i])
  BY DEF SessionOf
<1>2. ASSUME Tests', NEW i \in Id, connections'[i] # None
      PROVE  CandidateSession(i)'
  <2>1. CandidateSession(i) /\ connections[i] # None
    BY <1>2 DEF SessionInv
  <2> QED
    BY <1>1, <1>2, <2>1 DEF CandidateSession, sessVars
<1>3. OwnSessionIsElected'
  <2> SUFFICES ASSUME is_connected'
               PROVE  OwnSessionIsElected'
    BY DEF OwnSessionIsElected
  <2>1. PICK a \in Id : /\ a = active_connection_id
                        /\ a = active_connection_id'
                        /\ connections'[a] # None
    BY DEF is_connected, ManagerInv, TypeOK, ElectedIsLive, IsConnected
  <2> QED
    BY <1>1, <2>1 DEF SessionInv, OwnSessionIsElected, sessVars
<1> QED
  BY <1>2, <1>3 DEF SessionInv

\* An election starts with sessions that are not those in use.
LEMMA SessionAtStart ==
    ASSUME TypeOK, NEW created, NEW kept \in Connection \cup {None},
           StartTesting(created, kept), UNCHANGED own_session_id
    PROVE  SessionInv'
<1>1. /\ pending_session_ids' = [i \in Id |-> None]
      /\ election_state' = "Testing"
      /\ \A i \in Id : connections'[i] # None =>
             /\ connections'[i].assigned = "no"
             /\ own_session_id # SessionOf(connections'[i])
  BY StartTestingEffect
<1> QED
  BY <1>1 DEF SessionInv, CandidateSession, OwnSessionIsElected, is_connected

\* SESSION_ASSIGNED arrives at a candidate or at the elected connection.
LEMMA SessionAssignedSession ==
    ASSUME ManagerInv, SessionInv, OldHasSession, NEW c \in Live,
           SessionAssigned(c)
    PROVE  SessionInv'
<1>1. TypeOK /\ IdsMatch
  BY DEF ManagerInv
<1>2. /\ c.assigned = "no"
      /\ UNCHANGED <<active_connection_id, electVars,
                     intentionally_disconnected>>
  BY DEF SessionAssigned
<1>3. PICK k \in Id : c = connections[k] /\ c.id = k /\ c # None
  BY <1>1, <1>2, LiveIs DEF OldHasSession, IdsMatch
<1>4. /\ Tests' <=> Tests
      /\ is_connected' <=> is_connected
  BY <1>2 DEF Tests, is_connected, electVars
<1>5. \A i \in Id : connections'[i] # None =>
        /\ connections[i] # None
        /\ connections'[i].id = i /\ connections[i].id = i
        /\ connections'[i].inst = connections[i].inst
        /\ SessionOf(connections'[i]) = SessionOf(connections[i])
  BY <1>1, SessionAssignedEffect DEF IdsMatch, SessionOf
<1>6. \A i \in Id \ {k} : connections'[i] # None =>
        /\ connections[i] # c
        /\ connections'[i].assigned = connections[i].assigned
        /\ SessionOf(connections[i]) # SessionOf(c)
  BY <1>1, <1>3, <1>5, SessionAssignedEffect DEF SessionOf
<1>7. connections'[k] # None /\ connections'[k].assigned # "no"
      /\ SessionOf(connections'[k]) = SessionOf(c)
  BY <1>1, <1>3, <1>5, SessionAssignedEffect
<1>8. CASE active_connection_id = k
  <2>1. ActiveConnection = c
    BY <1>3, <1>8, NoneAssumption DEF ActiveConnection
  <2>2. own_session_id' = SessionOf(c) /\ UNCHANGED pending_session_ids
    BY <1>3, <1>8 DEF SessionAssigned
  <2>3. connections'[k].stamp = "own"
    BY <1>1, <1>3, <1>8, <2>1, SessionAssignedEffect
  <2>4. ASSUME Tests', NEW i \in Id, connections'[i] # None
        PROVE  CandidateSession(i)'
    <3>1. CandidateSession(i) /\ connections[i] # None
      BY <1>4, <1>5, <2>4 DEF SessionInv
    <3>2. CASE i = k
      BY <1>2, <1>3, <1>7, <1>8, <2>2, <2>3, <3>1, <3>2 DEF CandidateSession
    <3>3. CASE i # k
      BY <1>2, <1>5, <1>6, <1>8, <2>2, <2>4, <3>1, <3>3, NoneAssumption
      DEF CandidateSession
    <3> QED
      BY <3>2, <3>3
  <2>5. OwnSessionIsElected'
    BY <1>2, <1>7, <1>8, <2>2, <2>3 DEF OwnSessionIsElected
  <2> QED
    BY <2>4, <2>5 DEF SessionInv
<1>9. CASE active_connection_id # k
  <2>1. /\ UNCHANGED own_session_id
        /\ pending_session_ids' =
               [pending_session_ids EXCEPT ![k] = SessionOf(c)]
    BY <1>3, <1>9 DEF SessionAssigned
  <2>2. \A i \in Id : connections'[i] # None =>
          connections'[i].stamp = connections[i].stamp
    BY <1>1, <1>3, <1>5, <1>9, SessionAssignedEffect
  <2>3. ASSUME Tests', NEW i \in Id, connections'[i] # None
        PROVE  CandidateSession(i)'
    <3>1. CandidateSession(i) /\ connections[i] # None
      BY <1>4, <1>5, <2>3 DEF SessionInv
    <3>2. CASE i = k
      <4>1. pending_session_ids'[k] = SessionOf(c)
        BY <1>1, <2>1 DEF TypeOK
      <4> QED
        BY <1>2, <1>3, <1>7, <2>1, <3>1, <3>2, <4>1 DEF CandidateSession
    <3>3. CASE i # k
      <4>1. pending_session_ids'[i] = pending_session_ids[i]
        BY <1>1, <2>1, <3>3 DEF TypeOK
      <4> QED
        BY <1>2, <1>5, <1>6, <2>1, <2>2, <2>3, <3>1, <3>3, <4>1
        DEF CandidateSession
    <3> QED
      BY <3>2, <3>3
  <2>4. ~is_connected'
    BY <1>3, <1>4, <1>9, OnlyElectedIsLive
  <2> QED
    BY <2>3, <2>4 DEF SessionInv, OwnSessionIsElected
<1> QED
  BY <1>8, <1>9

\* The winner's session is in use when the election is completed.
LEMMA CompleteElectionSession ==
    ASSUME ManagerInv, SessionInv, CompleteElection
    PROVE  SessionInv'
<1>1. Tests /\ election_state' # "Testing"
  BY DEF CompleteElection, Tests, ElectionFails, Elect
<1>2. CASE ElectionFails
  BY <1>2 DEF ElectionFails, SessionInv, OwnSessionIsElected, Tests,
     is_connected
<1>3. ASSUME NEW w \in BestConnections, Elect(w)
      PROVE  SessionInv'
  <2>1. w \in Id /\ connections[w] \in Connection /\ IsConnected(connections[w])
    BY <1>1, WinnerIsUsable
  <2>2. CandidateSession(w)
    BY <1>1, <2>1 DEF SessionInv, IsConnected
  <2>3. /\ connections'[w].id = connections[w].id
        /\ connections'[w].inst = connections[w].inst
        /\ connections'[w].assigned = connections[w].assigned
        /\ pending_session_ids[w] # None
           /\ pending_session_ids[w] # own_session_id
           /\ pending_session_ids[w] = SessionOf(connections[w])
           => connections'[w].stamp = "own"
        /\ pending_session_ids[w] = None =>
               connections'[w].stamp = connections[w].stamp
    BY <1>3, <2>1, ElectedConnection DEF ManagerInv, IdsMatch, IsConnected
  <2>4. SessionOf(connections'[w]) = SessionOf(connections[w])
        /\ SessionOf(connections[w]) # None
    BY <2>1, <2>3, NoneAssumption, Fields DEF SessionOf
  <2>5. active_connection_id' = w /\ own_session_id' = ElectedSession(w)
    BY <1>3 DEF Elect
  <2>6. connections'[w].assigned # "no" =>
            /\ own_session_id' = SessionOf(connections'[w])
            /\ connections'[w].stamp = "own"
    BY <2>2, <2>3, <2>4, <2>5 DEF CandidateSession, ElectedSession
  <2> QED
    BY <1>1, <2>5, <2>6 DEF SessionInv, OwnSessionIsElected, Tests
<1> QED
  BY <1>2, <1>3 DEF CompleteElection

\* Every step preserves it, as long as the preserved connection has its
\* session.
LEMMA SessionStep ==
    ManagerInv /\ SessionInv /\ OldHasSession /\ [Next]_vars => SessionInv'
<1> SUFFICES ASSUME ManagerInv, SessionInv, OldHasSession, [Next]_vars
             PROVE  SessionInv'
  OBVIOUS
<1>1. TypeOK /\ IdsMatch /\ ManagerInv'
  BY ManagerStep DEF ManagerInv
<1>2. ASSUME NEW c \in Live, NEW st \in {"Connected", "Closed"},
             connections' = InMap(c, [c EXCEPT !.status = st])
      PROVE  \A i \in Id : connections'[i] # None =>
               /\ connections[i] # None
               /\ connections'[i].id = connections[i].id
               /\ connections'[i].inst = connections[i].inst
               /\ connections'[i].assigned = connections[i].assigned
               /\ connections'[i].stamp = connections[i].stamp
  <2>1. PICK d \in Connection :
          /\ d = [c EXCEPT !.status = st] /\ d # None
          /\ d.id = c.id /\ d.inst = c.inst
          /\ d.assigned = c.assigned /\ d.stamp = c.stamp
    BY <1>1, LiveIs, StatusChange
  <2>2. connections' = InMap(c, d)
    BY <1>2, <2>1
  <2> QED
    BY <1>1, <2>1, <2>2, MapChange
<1>3. ASSUME NEW c \in Live, Opened(c) PROVE SessionInv'
  <2>1. /\ connections' = InMap(c, [c EXCEPT !.status = "Connected"])
        /\ UNCHANGED <<active_connection_id, electVars, sessVars,
                       intentionally_disconnected>>
    BY <1>3 DEF Opened
  <2> QED
    BY <1>1, <1>2, <2>1, SessionIf DEF Tests, is_connected, electVars
<1>4. ASSUME NEW c \in Live, ConnectionLost(c) PROVE SessionInv'
  <2>1. /\ connections' = InMap(c, [c EXCEPT !.status = "Closed"])
        /\ active_connection_id' \in {active_connection_id, None}
        /\ UNCHANGED <<electVars, sessVars, intentionally_disconnected>>
    BY <1>4 DEF ConnectionLost
  <2>2. is_connected' => is_connected
    BY <2>1 DEF is_connected, electVars
  <2> QED
    BY <1>1, <1>2, <2>1, <2>2, SessionIf DEF Tests, electVars
<1>5. ASSUME NEW c \in Live, RttResponse(c) PROVE SessionInv'
  BY <1>1, <1>5, SessionIf
  DEF RttResponse, Tests, is_connected, connVars, electVars
<1>6. ASSUME NEW l \in LoopId, BackoffElapses(l) PROVE SessionInv'
  <2>1. CASE Cancelled
    BY <1>1, <1>6, <2>1, SessionIf
    DEF BackoffElapses, Tests, is_connected, connVars, electVars
  <2>2. CASE ~Cancelled
    BY <1>1, <1>6, <2>2, SessionAtStart
    DEF BackoffElapses, ResetAndStartElection
  <2> QED
    BY <2>1, <2>2
<1>7. ASSUME NEW l \in LoopId, ElectionWaitElapses(l) PROVE SessionInv'
  BY <1>1, <1>7, SessionIf
  DEF ElectionWaitElapses, Tests, is_connected, connVars, electVars
<1>8. CASE ExtendElection
  BY <1>1, <1>8, SessionIf DEF ExtendElection, Tests, is_connected, connVars
<1>9. CASE DiagnosticsTick
  <2>1. PICK m \in [Id -> UNION {Processed(i) : i \in Id}] :
          \/ StartReelection /\ Monitored(m)
          \/ UNCHANGED <<connVars, electVars, sessVars>>
    BY <1>9 DEF DiagnosticsTick
  <2>2. CASE StartReelection /\ Monitored(m)
    <3>1. connections[active_connection_id] \in Connection \cup {None}
      BY <1>1, <2>2, MonitoredIs DEF TypeOK
    <3> QED
      BY <1>1, <2>2, <3>1, SessionAtStart DEF StartReelection
  <2>3. CASE UNCHANGED <<connVars, electVars, sessVars>>
    BY <1>1, <1>9, <2>3, SessionIf
    DEF DiagnosticsTick, Tests, is_connected, connVars, electVars
  <2> QED
    BY <2>1, <2>2, <2>3
<1>10. CASE Disconnect
  BY <1>10
  DEF Disconnect, SessionInv, OwnSessionIsElected, Tests, is_connected
<1>11. CASE UNCHANGED vars
  BY <1>1, <1>11, SessionIf DEF vars, Tests, is_connected, connVars, electVars
<1> QED
  BY <1>3, <1>4, <1>5, <1>6, <1>7, <1>8, <1>9, <1>10, <1>11,
     SessionAssignedSession, CompleteElectionSession
  DEF Next

(* The session in use is that of the elected connection, whether            *)
(* SESSION_ASSIGNED came before the election, after it, or while the        *)
(* connection's id was that of the one to be replaced; unless a connection  *)
(* is replaced before it got its own, which then comes late and is taken    *)
(* for that of the candidate with its id (create_inbound_media_callback).   *)
THEOREM SessionIsElected ==
    Spec /\ []OldHasSession => []OwnSessionIsElected
<1>1. Init => SessionInv
  <2> SUFFICES ASSUME Init PROVE SessionInv
    OBVIOUS
  <2>1. PICK created \in Created :
          connections = Candidates(created, CHOOSE n \in Inst : TRUE)
    BY DEF Init
  <2>2. \A i \in Id : connections[i] # None =>
            connections[i].assigned = "no" /\ connections[i].id \in Id
            /\ connections[i].inst \in Inst
    BY <2>1, ThirdInst DEF Candidates
  <2>3. \A i \in Id : connections[i] # None =>
            own_session_id # SessionOf(connections[i])
    BY <2>2, NoneAssumption DEF Init, SessionOf
  <2> QED
    BY <2>2, <2>3
    DEF Init, SessionInv, CandidateSession, OwnSessionIsElected, is_connected
<1>2. SessionInv => OwnSessionIsElected
  BY DEF SessionInv
<1> QED
  BY <1>1, <1>2, SessionStep, ManagerInvariant, PTL DEF Spec

\* With one server there is no re-election and nothing is preserved.
NothingPreserved == ~ReelectionHelps /\ old_active_connection = None

\* It stays so.
LEMMA NothingPreservedStep ==
    ManagerInv /\ NothingPreserved /\ [Next]_vars => NothingPreserved'
<1> SUFFICES ASSUME ManagerInv, NothingPreserved, [Next]_vars
             PROVE  NothingPreserved'
  OBVIOUS
<1>1. UNCHANGED servers
  <2>1. ASSUME NEW c \in Live,
               \/ Opened(c) \/ SessionAssigned(c)
               \/ RttResponse(c) \/ ConnectionLost(c)
        PROVE  UNCHANGED servers
    BY <2>1 DEF Opened, SessionAssigned, RttResponse, ConnectionLost
  <2>2. ASSUME NEW l \in LoopId, BackoffElapses(l) \/ ElectionWaitElapses(l)
        PROVE  UNCHANGED servers
    BY <2>2 DEF BackoffElapses, ElectionWaitElapses
  <2>3. CASE ExtendElection \/ CompleteElection \/ DiagnosticsTick \/ Disconnect
    BY <2>3 DEF ExtendElection, CompleteElection, DiagnosticsTick, Disconnect
  <2> QED
    BY <2>1, <2>2, <2>3 DEF Next, vars
<1>2. old_active_connection' = None
  <2>1. ASSUME NEW c \in Live, Opened(c) \/ RttResponse(c)
        PROVE  UNCHANGED old_active_connection
    BY <2>1 DEF Opened, RttResponse, connVars
  <2>2. ASSUME NEW c \in Live, SessionAssigned(c)
        PROVE  old_active_connection' = None
    BY <2>2, SessionAssignedEffect DEF ManagerInv, NothingPreserved
  <2>3. ASSUME NEW c \in Live, ConnectionLost(c)
        PROVE  old_active_connection' = None
    BY <2>3 DEF ConnectionLost, InOld, NothingPreserved, Live
  <2>4. ASSUME NEW l \in LoopId, BackoffElapses(l) \/ ElectionWaitElapses(l)
        PROVE  old_active_connection' \in {old_active_connection, None}
    BY <2>4 DEF BackoffElapses, ElectionWaitElapses, ResetAndStartElection,
       StartTesting, connVars
  <2>5. CASE ExtendElection \/ CompleteElection \/ Disconnect
    BY <2>5 DEF ExtendElection, CompleteElection, ElectionFails, Elect,
       OldAfterElection, Disconnect, NothingPreserved, connVars
  <2>6. CASE DiagnosticsTick
    BY <2>6 DEF DiagnosticsTick, NothingPreserved, connVars
  <2> QED
    BY <2>1, <2>2, <2>3, <2>4, <2>5, <2>6
    DEF Next, NothingPreserved, vars, connVars
<1> QED
  BY <1>1, <1>2 DEF NothingPreserved, ReelectionHelps

(* Where at most one server is configured, the session in use is that of    *)
(* the elected connection without further ado (check_rtt_degradation starts *)
(* no re-election then).                                                    *)
THEOREM SessionOfOnlyServer ==
    ASSUME \A S \in Configured : ~(Cardinality(S) > 1)
    PROVE  Spec => []OwnSessionIsElected
<1>1. Init => NothingPreserved
  BY DEF Init, NothingPreserved, ReelectionHelps
<1>2. NothingPreserved => OldHasSession
  BY DEF NothingPreserved, OldHasSession
<1> QED
  BY <1>1, <1>2, NothingPreservedStep, ManagerInvariant, SessionIsElected, PTL
  DEF Spec
=============================================================================
