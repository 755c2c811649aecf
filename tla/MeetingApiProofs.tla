--------------------------- MODULE MeetingApiProofs ---------------------------
(***************************************************************************)
(* Proofs about MeetingApi: for any set of users, any number of requests   *)
(* in flight and any number of rows, the rows of a room stay sound however *)
(* the statements of the handlers interleave and wherever they are cut     *)
(* off.                                                                    *)
(***************************************************************************)
EXTENDS MeetingApi, TLAPS

\* A row of meetings, a row of meeting_participants and what a handler keeps.
MeetingRow == [state: {"none", "idle", "active", "ended"},
               creator_id: User \cup {NoUser},
               waiting_room_enabled: BOOLEAN,
               deleted: BOOLEAN]
ParticipantRow == [status: Status, is_host: BOOLEAN]
HandlerState == [op: Ops, user: User \cup {NoUser}, target: SUBSET User, pc: Pc,
            m: Meeting \cup {NoMeeting}, seen: BOOLEAN, reply: Reply]

\* The statements of a handler that has read its meeting's row.
HasRow == Pc \ {"idle", "done", "lookup", "create", "update_begin"}
\* The statements inside a transaction.
InTransaction == {"join_commit", "update_commit"}

\* What handler q may rely on: the row it has read still exists and still
\* has the creator it had, and a handler is only where its operation leads.
HandlerSound(q) ==
    /\ q.pc \notin {"idle", "done"} => q.user \in User
    /\ q.pc \in HasRow => q.m \in Meeting /\ meetings[q.m].state # "none"
    /\ q.pc = "lookup" => q.op \notin {"open", "close"}
    /\ q.pc = "create" => q.op = "join"
    /\ q.pc \in {"activate", "publish_activated", "upsert_host"} =>
           q.op = "join" /\ meetings[q.m].creator_id = q.user
    /\ q.pc \in {"join_begin", "join_commit"} =>
           q.op = "join" /\ meetings[q.m].creator_id # q.user
    /\ q.pc \in {"update_begin", "update_commit"} => q.op \in {"open", "close"}
HandlersSound == \A r \in Request : HandlerSound(request[r])

\* A row is locked by a handler that is inside a transaction on it.
LockIsInside ==
    \A m \in Meeting :
        lock[m] # NoRequest =>
            /\ request[lock[m]].m = m
            /\ request[lock[m]].pc \in InTransaction

\* The other half: who is inside a transaction holds the lock of its row.
TransactionHoldsLock ==
    \A r \in Request :
        request[r].pc \in InTransaction => lock[request[r].m] = r

\* What SELECT ... FOR UPDATE read is still so when the join commits.
SeenIsCurrent ==
    \A r \in Request :
        request[r].pc = "join_commit" =>
            request[r].seen = meetings[request[r].m].waiting_room_enabled

\* A meeting was created by a user.
CreatorsExist ==
    \A m \in Meeting : meetings[m].state # "none" =>
                           meetings[m].creator_id \in User

\* Nobody takes part in a meeting that was never created.
UnusedIsEmpty ==
    \A m \in Unused : \A u \in User : StatusOf(m, u) = "none"

\* NobodyWaitsOutside of every row, deleted ones and unused ones included.
NobodyWaits ==
    \A m \in Meeting : \A u \in User :
        StatusOf(m, u) = "waiting" => meetings[m].waiting_room_enabled

\* The inductive invariant.
DbInv ==
    /\ TypeOK
    /\ HandlersSound
    /\ LockIsInside
    /\ TransactionHoldsLock
    /\ SeenIsCurrent
    /\ NobodyWaits
Inv ==
    /\ DbInv
    /\ CreatorsExist
    /\ UnusedIsEmpty
    /\ OneLiveMeeting
    /\ ActiveHasHost

\* A step of r leaves the other handlers alone; rows stay, with their creator.
OthersWait(r) == \A q \in Request \ {r} : request'[q] = request[q]
RowsKept ==
    \A m \in Meeting :
        meetings[m].state # "none" =>
            /\ meetings'[m].state # "none"
            /\ meetings'[m].creator_id = meetings[m].creator_id

USE MeetingApiAssumption

(* The type invariant in terms of the three kinds of rows. *)
LEMMA Types ==
    TypeOK <=> /\ meetings \in [Meeting -> MeetingRow]
               /\ participants \in [Meeting -> [User -> ParticipantRow]]
               /\ lock \in [Meeting -> Request \cup {NoRequest}]
               /\ request \in [Request -> HandlerState]
               /\ listening \subseteq User \X Event
               /\ inbox \subseteq User \X Event
               /\ cut \subseteq Meeting
BY DEF TypeOK, MeetingRow, ParticipantRow, HandlerState

(* An answered handler is done and has forgotten its row. *)
LEMMA AnswerFacts ==
    ASSUME request \in [Request -> HandlerState],
           NEW r \in Request, NEW reply \in Reply, Answer(r, reply)
    PROVE  /\ request' \in [Request -> HandlerState]
           /\ request'[r].pc = "done"
           /\ OthersWait(r)
<1>1. [Idle EXCEPT !.op = request[r].op, !.user = request[r].user,
                   !.pc = "done", !.reply = reply] \in HandlerState
  BY DEF Idle, HandlerState, Pc, Ops
<1> QED
  BY <1>1 DEF Answer, OthersWait, Idle

(* Going to the next statement changes nothing else of the handler. *)
LEMMA GotoFacts ==
    ASSUME request \in [Request -> HandlerState],
           NEW r \in Request, NEW pc \in Pc, Goto(r, pc)
    PROVE  /\ request' \in [Request -> HandlerState]
           /\ request'[r] = [request[r] EXCEPT !.pc = pc]
           /\ OthersWait(r)
BY DEF Goto, HandlerState, OthersWait

(* SetStatus changes the status of the named participants of one meeting. *)
LEMMA SetStatusFacts ==
    ASSUME participants \in [Meeting -> [User -> ParticipantRow]],
           NEW m \in Meeting, NEW us, NEW status \in Status,
           SetStatus(m, us, status)
    PROVE  /\ participants' \in [Meeting -> [User -> ParticipantRow]]
           /\ \A n \in Meeting, u \in User :
                  StatusOf(n, u)' = IF n = m /\ u \in us THEN status
                                                         ELSE StatusOf(n, u)
<1> DEFINE new == [u \in User |-> IF u \in us
                                  THEN [participants[m][u] EXCEPT !.status = status]
                                  ELSE participants[m][u]]
<1>1. participants' = [participants EXCEPT ![m] = new]
  BY DEF SetStatus
<1>2. new \in [User -> ParticipantRow]
  BY DEF ParticipantRow
<1>3. \A u \in User : new[u].status = IF u \in us THEN status
                                                 ELSE StatusOf(m, u)
  BY DEF ParticipantRow, StatusOf
<1> HIDE DEF new
<1> QED
  BY <1>1, <1>2, <1>3 DEF StatusOf

(* A publication reaches listeners only. *)
LEMMA PublishFacts ==
    ASSUME listening \subseteq User \X Event, inbox \subseteq User \X Event,
           NEW event, NEW us, Publish(event, us)
    PROVE  inbox' \subseteq User \X Event
<1>1. PICK got \in SUBSET listening : inbox' = inbox \cup got
  BY DEF Publish
<1> QED
  BY <1>1

(* Where a handler goes when it has found its meeting. *)
LEMMA AfterLookupFacts ==
    ASSUME NEW q \in HandlerState, q.op \notin {"open", "close"},
           NEW m \in Meeting
    PROVE  LET next == AfterLookup(q, m)
               host == meetings[m].creator_id = q.user
           IN /\ next \notin Pc => next \in Reply
              /\ next \in Pc => next \in HasRow \ (InTransaction
                     \cup {"publish_activated", "update_begin"})
              /\ next \in {"activate", "upsert_host"} => q.op = "join" /\ host
              /\ next = "join_begin" => q.op = "join" /\ ~host
<1>1. q.op \in Ops
  BY DEF HandlerState
<1>2. CASE q.op = "join"
  BY <1>2 DEF AfterLookup, Pc, Reply, Status, HasRow, InTransaction
<1>3. CASE q.op \in {"status", "leave"}
  BY <1>3 DEF AfterLookup, Pc, Reply, Status, HasRow, InTransaction
<1>4. CASE q.op \in {"waiting", "admit", "admit_all", "reject"}
  BY <1>4 DEF AfterLookup, Pc, Reply, Status, HasRow, InTransaction
<1>5. CASE q.op \in {"end", "delete"}
  BY <1>5 DEF AfterLookup, Pc, Reply, Status, HasRow, InTransaction
<1> QED
  BY <1>1, <1>2, <1>3, <1>4, <1>5 DEF Ops

-----------------------------------------------------------------------------
(* What handlers rely on survives a step of another handler. *)
LEMMA HandlersStep ==
    ASSUME HandlersSound, NEW r \in Request, OthersWait(r), RowsKept,
           HandlerSound(request[r])'
    PROVE  HandlersSound'
<1> SUFFICES ASSUME NEW q \in Request, q # r
             PROVE  HandlerSound(request[q])'
  BY DEF HandlersSound
<1>1. request'[q] = request[q] /\ HandlerSound(request[q])
  BY DEF OthersWait, HandlersSound
<1>2. request[q].pc \in HasRow =>
          /\ meetings'[request[q].m].state # "none"
          /\ meetings'[request[q].m].creator_id =
                 meetings[request[q].m].creator_id
  BY <1>1 DEF HandlerSound, RowsKept
<1> QED
  BY <1>1, <1>2 DEF HandlerSound, HasRow, Pc

(* The locks are as they should be after a step outside transactions that *)
(* does not change the setting of a locked row.                           *)
LEMMA LocksStep ==
    ASSUME TypeOK, LockIsInside, TransactionHoldsLock, SeenIsCurrent,
           HandlersSound,
           NEW r \in Request, OthersWait(r), UNCHANGED lock,
           request[r].pc \notin InTransaction,
           request'[r].pc \notin InTransaction,
           \A m \in Meeting :
               lock[m] # NoRequest =>
                   meetings'[m].waiting_room_enabled =
                       meetings[m].waiting_room_enabled
    PROVE  /\ LockIsInside'
           /\ TransactionHoldsLock'
           /\ SeenIsCurrent'
<1>1. LockIsInside'
  BY DEF TypeOK, LockIsInside, OthersWait, InTransaction
<1>2. TransactionHoldsLock'
  BY DEF TransactionHoldsLock, OthersWait
<1>3. SeenIsCurrent'
  <2> SUFFICES ASSUME NEW q \in Request, request'[q].pc = "join_commit"
               PROVE  request'[q].seen =
                          meetings'[request'[q].m].waiting_room_enabled
    BY DEF SeenIsCurrent
  <2>1. q # r /\ request'[q] = request[q]
    BY DEF OthersWait, InTransaction
  <2>2. lock[request[q].m] = q /\ request[q].m \in Meeting
    BY <2>1 DEF TransactionHoldsLock, InTransaction, HandlersSound,
                HandlerSound, HasRow, Pc
  <2> QED
    BY <2>1, <2>2 DEF SeenIsCurrent
<1> QED
  BY <1>1, <1>2, <1>3

(* An active meeting keeps its host through a step of r that neither       *)
(* activates it, nor takes the host out, nor completes a host's request,   *)
(* unless r is then halfway through a host's request.                      *)
LEMMA ActiveStep ==
    ASSUME TypeOK, ActiveHasHost, NEW r \in Request, OthersWait(r), RowsKept,
           cut \subseteq cut',
           \A m \in Meeting :
               m \in Live' /\ meetings'[m].state = "active" =>
                   \/ m \in Live /\ meetings[m].state = "active"
                   \/ Halfway(r, m)',
           \A m \in Meeting :
               (/\ m \in Live' /\ meetings'[m].state = "active"
                /\ \/ StatusOf(m, meetings[m].creator_id) = "admitted"
                   \/ Halfway(r, m)) =>
                   (\/ StatusOf(m, meetings[m].creator_id)' = "admitted"
                    \/ Halfway(r, m)'
                    \/ m \in cut')
    PROVE  ActiveHasHost'
<1> SUFFICES ASSUME NEW m \in Live', meetings'[m].state = "active",
                    ~ Halfway(r, m)', m \notin cut'
             PROVE  \/ StatusOf(m, meetings[m].creator_id)' = "admitted"
                    \/ \E q \in Request : Halfway(q, m)'
  BY DEF ActiveHasHost
<1>1. m \in Meeting /\ m \in Live /\ meetings[m].state = "active"
  BY DEF Live
<1>2. meetings'[m].creator_id = meetings[m].creator_id
  BY <1>1 DEF RowsKept
<1>3. CASE StatusOf(m, meetings[m].creator_id) = "admitted"
  BY <1>1, <1>2, <1>3
<1>4. CASE \E q \in Request : Halfway(q, m)
  <2> PICK q \in Request : Halfway(q, m)
    BY <1>4
  <2>1. CASE q = r
    BY <1>1, <1>2, <2>1
  <2>2. CASE q # r
    <3>1. request'[q] = request[q]
      BY <2>2 DEF OthersWait
    <3>2. Halfway(q, m)'
      BY <1>2, <3>1 DEF Halfway
    <3> QED
      BY <3>2
  <2> QED
    BY <2>1, <2>2
<1> QED
  BY <1>1, <1>3, <1>4 DEF ActiveHasHost

(* A handler that has answered relies on nothing. *)
LEMMA DoneIsSound ==
    ASSUME NEW r \in Request, request'[r].pc = "done"
    PROVE  /\ HandlerSound(request[r])'
           /\ request'[r].pc \notin InTransaction
BY DEF HandlerSound, HasRow, InTransaction

(* A step that changes no row keeps the invariant, if it leads the handler *)
(* to a statement where it belongs and the locks are as they should be.    *)
LEMMA RowsUnchanged ==
    ASSUME Inv, NEW r \in Request,
           UNCHANGED <<meetings, participants, listening>>,
           lock' \in [Meeting -> Request \cup {NoRequest}],
           inbox' \subseteq User \X Event,
           cut \subseteq cut', cut' \subseteq Meeting,
           request' \in [Request -> HandlerState], OthersWait(r),
           HandlerSound(request[r])',
           LockIsInside', TransactionHoldsLock', SeenIsCurrent',
           \A m \in Meeting : Halfway(r, m) => Halfway(r, m)' \/ m \in cut'
    PROVE  Inv'
<1>1. TypeOK'
  BY Types DEF Inv, DbInv, TypeOK, HandlerState
<1>2. RowsKept
  BY DEF RowsKept
<1>3. HandlersSound'
  BY <1>2, HandlersStep DEF Inv, DbInv
<1>4. NobodyWaits' /\ CreatorsExist' /\ UnusedIsEmpty' /\ OneLiveMeeting'
  BY DEF Inv, DbInv, NobodyWaits, CreatorsExist, UnusedIsEmpty,
         OneLiveMeeting, Unused, Live, StatusOf
<1>5. ActiveHasHost'
  <2>1. Live' = Live /\ meetings' = meetings
        /\ \A m \in Meeting : StatusOf(m, meetings[m].creator_id)' =
                              StatusOf(m, meetings[m].creator_id)
    BY DEF Live, StatusOf
  <2> QED
    BY <1>2, <2>1, ActiveStep DEF Inv, DbInv
<1> QED
  BY <1>1, <1>3, <1>4, <1>5 DEF Inv, DbInv

(* A step that only reads the tables, outside transactions. *)
LEMMA QuietStep ==
    ASSUME Inv, NEW r \in Request, UNCHANGED <<dbVars, listening, cut>>,
           inbox' \subseteq User \X Event,
           request' \in [Request -> HandlerState], OthersWait(r),
           HandlerSound(request[r])',
           request[r].pc \notin InTransaction,
           request'[r].pc \notin InTransaction,
           \A m \in Meeting : Halfway(r, m) => Halfway(r, m)'
    PROVE  Inv'
<1>1. LockIsInside' /\ TransactionHoldsLock' /\ SeenIsCurrent'
  BY LocksStep DEF Inv, DbInv, dbVars
<1>2. /\ lock \in [Meeting -> Request \cup {NoRequest}]
      /\ cut \subseteq Meeting
  BY Types DEF Inv, DbInv
<1> QED
  BY <1>1, <1>2, RowsUnchanged DEF dbVars

(* A handler that answers without having written anything. *)
LEMMA QuietAnswer ==
    ASSUME Inv, NEW r \in Request, NEW reply \in Reply, Answer(r, reply),
           UNCHANGED <<dbVars, listening, cut>>,
           inbox' \subseteq User \X Event,
           request[r].pc \notin InTransaction \cup
               {"publish_activated", "upsert_host", "end_meeting"}
    PROVE  Inv'
<1>1. request \in [Request -> HandlerState]
  BY Types DEF Inv, DbInv
<1>2. /\ request' \in [Request -> HandlerState]
      /\ request'[r].pc = "done"
      /\ OthersWait(r)
  BY <1>1, AnswerFacts
<1>3. \A m \in Meeting : ~ Halfway(r, m)
  BY DEF Halfway
<1> QED
  BY <1>2, <1>3, DoneIsSound, QuietStep

(* A handler that goes to its next statement without having written. *)
LEMMA QuietGoto ==
    ASSUME Inv, NEW r \in Request, NEW pc \in Pc \ InTransaction, Goto(r, pc),
           UNCHANGED <<dbVars, listening, cut>>,
           inbox' \subseteq User \X Event,
           request[r].pc \in Pc \ InTransaction,
           HandlerSound([request[r] EXCEPT !.pc = pc]),
           request[r].pc \in {"publish_activated", "upsert_host", "end_meeting"}
               => pc \in {"publish_activated", "upsert_host", "end_meeting"}
    PROVE  Inv'
<1>1. request \in [Request -> HandlerState]
  BY Types DEF Inv, DbInv
<1>2. /\ request' \in [Request -> HandlerState]
      /\ request'[r] = [request[r] EXCEPT !.pc = pc]
      /\ OthersWait(r)
  BY <1>1, GotoFacts
<1>3. /\ request'[r].pc = pc /\ request'[r].m = request[r].m
      /\ request'[r].user = request[r].user
  BY <1>1, <1>2 DEF HandlerState
<1>4. HandlerSound(request[r])'
  BY <1>2 DEF HandlerSound, dbVars
<1>5. \A m \in Meeting : Halfway(r, m) => Halfway(r, m)'
  BY <1>3 DEF Halfway, dbVars
<1> QED
  BY <1>2, <1>3, <1>4, <1>5, QuietStep

(* The first statement of a handler. *)
LEMMA SubmitInv ==
    ASSUME Inv, NEW r \in Request, NEW u \in User, NEW op \in Ops,
           NEW target \in SUBSET User, Submit(r, u, op, target)
    PROVE  Inv'
<1>1. request \in [Request -> HandlerState]
  BY Types DEF Inv, DbInv
<1> DEFINE pc == IF op \in {"open", "close"} THEN "update_begin" ELSE "lookup"
           new == [Idle EXCEPT !.op = op, !.user = u, !.target = target,
                               !.pc = pc]
<1>2. /\ new \in HandlerState
      /\ new.pc = pc /\ new.op = op /\ new.user = u
  BY DEF Idle, HandlerState, Pc, Ops, Reply
<1>3. request' = [request EXCEPT ![r] = new]
  BY DEF Submit
<1> HIDE DEF new
<1>4. /\ request' \in [Request -> HandlerState] /\ request'[r] = new
      /\ OthersWait(r)
  BY <1>1, <1>2, <1>3 DEF OthersWait
<1>5. HandlerSound(request[r])' /\ request'[r].pc \notin InTransaction
  BY <1>2, <1>4 DEF HandlerSound, HasRow, InTransaction
<1>6. /\ request[r].pc \notin InTransaction
      /\ \A m \in Meeting : ~ Halfway(r, m)
  BY DEF Submit, Halfway, InTransaction
<1>7. inbox' \subseteq User \X Event /\ UNCHANGED <<dbVars, listening, cut>>
  BY Types DEF Inv, DbInv, Submit
<1> QED
  BY <1>4, <1>5, <1>6, <1>7, QuietStep

(* Reading the meeting's row. *)
LEMMA LookupInv ==
    ASSUME Inv, NEW r \in Request, LookupFails(r) \/ Lookup(r)
    PROVE  Inv'
<1>1. /\ request \in [Request -> HandlerState]
      /\ inbox \subseteq User \X Event
      /\ HandlerSound(request[r])
  BY Types DEF Inv, DbInv, HandlersSound
<1>2. /\ request[r].pc = "lookup" /\ request[r].user \in User
      /\ request[r].op \notin {"open", "close"}
      /\ UNCHANGED <<dbVars, listening, cut, inbox>>
  BY <1>1 DEF LookupFails, Lookup, At, HandlerSound
<1>3. request[r].pc \in Pc \ InTransaction /\ "create" \in Pc \ InTransaction
  BY <1>2 DEF Pc, InTransaction
<1>4. CASE LookupFails(r) /\ request[r].op = "join"
  <2>1. HandlerSound([request[r] EXCEPT !.pc = "create"])
    BY <1>1, <1>2, <1>4 DEF HandlerSound, HasRow, HandlerState
  <2>2. Goto(r, "create")
    BY <1>4 DEF LookupFails
  <2> QED
    BY <1>1, <1>2, <1>3, <2>1, <2>2, QuietGoto
<1>5. CASE LookupFails(r) /\ request[r].op # "join"
  <2>1. Answer(r, "not_found") /\ "not_found" \in Reply
    BY <1>5 DEF LookupFails, Reply
  <2> QED
    BY <1>1, <1>2, <2>1, QuietAnswer DEF InTransaction
<1>6. CASE Lookup(r)
  <2>1. PICK m \in Live :
            LET next == AfterLookup(request[r], m)
            IN IF next \in Pc
               THEN request' = [request EXCEPT ![r].m = m, ![r].pc = next]
               ELSE Answer(r, next)
    BY <1>6 DEF Lookup
  <2> DEFINE next == AfterLookup(request[r], m)
             host == meetings[m].creator_id = request[r].user
  <2>2. m \in Meeting /\ meetings[m].state # "none"
    BY DEF Live
  <2>3. /\ next \notin Pc => next \in Reply
        /\ next \in Pc => next \in HasRow \ (InTransaction
               \cup {"publish_activated", "update_begin"})
        /\ next \in {"activate", "upsert_host"} =>
               request[r].op = "join" /\ host
        /\ next = "join_begin" => request[r].op = "join" /\ ~host
    BY <1>1, <1>2, <2>2, AfterLookupFacts
  <2> HIDE DEF next
  <2>4. CASE next \notin Pc
    <3>1. Answer(r, next)
      BY <2>1, <2>4 DEF next
    <3> QED
      BY <1>1, <1>2, <2>3, <2>4, <3>1, QuietAnswer DEF InTransaction
  <2>5. CASE next \in Pc
    <3> DEFINE new == [request[r] EXCEPT !.m = m, !.pc = next]
    <3>1. request' = [request EXCEPT ![r] = new]
      BY <1>1, <2>1, <2>5 DEF next
    <3>2. /\ new \in HandlerState /\ new.m = m /\ new.pc = next
          /\ new.op = request[r].op /\ new.user = request[r].user
      BY <1>1, <2>2, <2>5 DEF HandlerState
    <3> HIDE DEF new
    <3>3. /\ request' \in [Request -> HandlerState] /\ request'[r] = new
          /\ OthersWait(r)
      BY <1>1, <3>1, <3>2 DEF OthersWait
    <3>4. meetings' = meetings
      BY <1>2 DEF dbVars
    <3>5. HandlerSound(request[r])' /\ request'[r].pc \notin InTransaction
      BY <1>2, <2>2, <2>3, <2>5, <3>2, <3>3, <3>4
      DEF HandlerSound, HasRow, InTransaction
    <3>6. /\ request[r].pc \notin InTransaction
          /\ \A n \in Meeting : ~ Halfway(r, n)
      BY <1>2 DEF Halfway, InTransaction
    <3> QED
      BY <1>1, <1>2, <3>3, <3>5, <3>6, QuietStep
  <2> QED
    BY <2>4, <2>5
<1> QED
  BY <1>4, <1>5, <1>6

(* The statements that only read or publish. *)
LEMMA ReadOnlyInv ==
    ASSUME Inv, NEW r \in Request,
           \/ PublishActivated(r) \/ PublishWaiting(r) \/ GetStatus(r)
           \/ CountAdmitted(r) \/ RequireHost(r) \/ PublishDecision(r)
    PROVE  Inv'
<1>1. /\ request \in [Request -> HandlerState]
      /\ participants \in [Meeting -> [User -> ParticipantRow]]
      /\ inbox \subseteq User \X Event
      /\ listening \subseteq User \X Event
      /\ HandlerSound(request[r])
  BY Types DEF Inv, DbInv, HandlersSound
<1>2. CASE PublishActivated(r)
  <2>1. inbox' \subseteq User \X Event
    BY <1>1, <1>2, PublishFacts DEF PublishActivated
  <2>2. HandlerSound([request[r] EXCEPT !.pc = "upsert_host"])
    BY <1>1, <1>2
       DEF PublishActivated, At, HandlerSound, HasRow, HandlerState, Pc
  <2> QED
    BY <1>2, <2>1, <2>2, QuietGoto DEF PublishActivated, At, Pc, InTransaction
<1>3. CASE PublishWaiting(r)
  <2>1. inbox' \subseteq User \X Event
    BY <1>1, <1>3, PublishFacts DEF PublishWaiting
  <2> QED
    BY <1>3, <2>1, QuietAnswer
    DEF PublishWaiting, At, Reply, Status, InTransaction
<1>4. CASE GetStatus(r)
  <2>1. /\ request[r].pc = "get_status"
        /\ UNCHANGED <<dbVars, listening, inbox, cut>>
    BY <1>4 DEF GetStatus, At
  <2>2. request[r].m \in Meeting /\ request[r].user \in User
    BY <1>1, <2>1 DEF HandlerSound, HasRow, Pc
  <2>3. StatusOf(request[r].m, request[r].user) \in Status
    BY <1>1, <2>2 DEF StatusOf, ParticipantRow
  <2>4. PICK reply \in Reply : Answer(r, reply)
    BY <1>4, <2>3 DEF GetStatus, Reply, Status
  <2> QED
    BY <1>1, <2>1, <2>4, QuietAnswer DEF InTransaction
<1>5. CASE CountAdmitted(r)
  <2>1. /\ request[r].pc = "count_admitted"
        /\ UNCHANGED <<dbVars, listening, inbox, cut>>
        /\ Goto(r, "end_meeting") \/ Answer(r, "left")
    BY <1>5 DEF CountAdmitted, At
  <2>2. HandlerSound([request[r] EXCEPT !.pc = "end_meeting"])
    BY <1>1, <2>1 DEF HandlerSound, HasRow, HandlerState, Pc
  <2> QED
    BY <1>1, <2>1, <2>2, QuietGoto, QuietAnswer
    DEF Pc, InTransaction, Reply, Status
<1>6. CASE RequireHost(r)
  <2>1. /\ request[r].pc = "require_host"
        /\ UNCHANGED <<dbVars, listening, inbox, cut>>
        /\ Goto(r, "decide") \/ Answer(r, "error")
    BY <1>6 DEF RequireHost, At
  <2>2. HandlerSound([request[r] EXCEPT !.pc = "decide"])
    BY <1>1, <2>1 DEF HandlerSound, HasRow, HandlerState, Pc
  <2> QED
    BY <1>1, <2>1, <2>2, QuietGoto, QuietAnswer
    DEF Pc, InTransaction, Reply
<1>7. CASE PublishDecision(r)
  <2>1. inbox' \subseteq User \X Event
    BY <1>1, <1>7, PublishFacts DEF PublishDecision
  <2> QED
    BY <1>7, <2>1, QuietAnswer DEF PublishDecision, At, Reply, InTransaction
<1> QED
  BY <1>2, <1>3, <1>4, <1>5, <1>6, <1>7

(* The list of those who wait. *)
LEMMA GetWaitingInv ==
    ASSUME Inv, NEW r \in Request, GetWaiting(r)
    PROVE  Inv'
<1>1. /\ request \in [Request -> HandlerState] /\ inbox \subseteq User \X Event
  BY Types DEF Inv, DbInv
<1> DEFINE new == [Idle EXCEPT !.op = "waiting", !.user = request[r].user,
                               !.pc = "done", !.reply = "ok",
                               !.target = In(request[r].m, "waiting")]
<1>2. new \in HandlerState /\ new.pc = "done"
  BY <1>1 DEF Idle, HandlerState, Ops, Pc, Reply, In
<1>3. request' = [request EXCEPT ![r] = new]
  BY DEF GetWaiting
<1> HIDE DEF new
<1>4. /\ request' \in [Request -> HandlerState] /\ request'[r].pc = "done"
      /\ OthersWait(r)
  BY <1>1, <1>2, <1>3 DEF OthersWait
<1>5. /\ request[r].pc \notin InTransaction
      /\ \A m \in Meeting : ~ Halfway(r, m)
      /\ UNCHANGED <<dbVars, listening, inbox, cut>>
  BY DEF GetWaiting, At, Halfway, InTransaction
<1> QED
  BY <1>1, <1>4, <1>5, DoneIsSound, QuietStep

-----------------------------------------------------------------------------
(* A new row, in the place of one that was not used. *)
LEMMA InsertFacts ==
    ASSUME meetings \in [Meeting -> MeetingRow],
           NEW m \in Unused, NEW u \in User, NEW wr \in BOOLEAN,
           Insert(m, u, wr)
    PROVE  /\ meetings' \in [Meeting -> MeetingRow]
           /\ meetings'[m] = Row(u, wr)
           /\ \A n \in Meeting \ {m} : meetings'[n] = meetings[n]
           /\ RowsKept
           /\ Live' = Live \cup {m}
<1>1. m \in Meeting /\ meetings[m].state = "none"
  BY DEF Unused
<1>2. Row(u, wr) \in MeetingRow
  BY DEF Row, MeetingRow
<1>3. /\ meetings' \in [Meeting -> MeetingRow]
      /\ meetings'[m] = Row(u, wr)
      /\ \A n \in Meeting \ {m} : meetings'[n] = meetings[n]
  BY <1>1, <1>2 DEF Insert
<1>4. RowsKept
  BY <1>1, <1>3 DEF RowsKept
<1>5. Live' = Live \cup {m}
  BY <1>1, <1>3 DEF Live, Row
<1> QED
  BY <1>3, <1>4, <1>5

(* What a new row does to everything that is not the request that made it: *)
(* no participant waits in it, no transaction has it, and it is not active. *)
LEMMA NewRowInv ==
    ASSUME Inv, NEW m \in Unused, NEW u \in User, NEW wr \in BOOLEAN,
           Insert(m, u, wr), Live = {}, UNCHANGED <<participants, lock>>
    PROVE  /\ NobodyWaits' /\ CreatorsExist' /\ UnusedIsEmpty' /\ OneLiveMeeting'
           /\ \A n \in Live' : meetings'[n].state # "active"
           /\ lock[m] = NoRequest
<1>1. meetings \in [Meeting -> MeetingRow]
  BY Types DEF Inv, DbInv
<1>2. /\ m \in Meeting /\ meetings'[m] = Row(u, wr)
      /\ \A n \in Meeting \ {m} : meetings'[n] = meetings[n]
      /\ Live' = {m}
  BY <1>1, InsertFacts DEF Unused
<1>3. NobodyWaits'
  BY <1>2 DEF Inv, DbInv, NobodyWaits, UnusedIsEmpty, Unused, StatusOf
<1>4. CreatorsExist' /\ UnusedIsEmpty'
  BY <1>2 DEF Inv, CreatorsExist, UnusedIsEmpty, Unused, StatusOf, Row
<1>5. OneLiveMeeting' /\ \A n \in Live' : meetings'[n].state # "active"
  BY <1>2 DEF OneLiveMeeting, Row
<1>6. lock[m] = NoRequest
  <2> SUFFICES ASSUME lock[m] # NoRequest
               PROVE  FALSE
    OBVIOUS
  <2>1. /\ lock[m] \in Request /\ request[lock[m]].m = m
        /\ request[lock[m]].pc \in InTransaction
    BY <1>2, Types DEF Inv, DbInv, LockIsInside, InTransaction
  <2>2. HandlerSound(request[lock[m]])
    BY <2>1 DEF Inv, DbInv, HandlersSound
  <2> QED
    BY <2>1, <2>2 DEF HandlerSound, Unused, HasRow, InTransaction, Pc
<1> QED
  BY <1>3, <1>4, <1>5, <1>6

(* create_meeting *)
LEMMA CreateMeetingInv ==
    ASSUME Inv, NEW u \in User, NEW wr \in BOOLEAN, CreateMeeting(u, wr)
    PROVE  Inv'
<1>1. PICK m \in Unused : Insert(m, u, wr)
  BY DEF CreateMeeting
<1>2. /\ Live = {}
      /\ UNCHANGED <<participants, lock, request, listening, inbox, cut>>
  BY DEF CreateMeeting
<1>3. /\ NobodyWaits' /\ CreatorsExist' /\ UnusedIsEmpty' /\ OneLiveMeeting'
      /\ \A n \in Live' : meetings'[n].state # "active"
      /\ lock[m] = NoRequest
  BY <1>1, <1>2, NewRowInv
<1>4. /\ meetings' \in [Meeting -> MeetingRow] /\ m \in Meeting
      /\ \A n \in Meeting \ {m} : meetings'[n] = meetings[n]
      /\ RowsKept
  BY <1>1, Types, InsertFacts DEF Inv, DbInv, Unused
<1>5. TypeOK'
  BY <1>2, <1>4, Types DEF Inv, DbInv, TypeOK, MeetingRow
<1>6. HandlersSound'
  <2> SUFFICES ASSUME NEW q \in Request
               PROVE  HandlerSound(request[q])'
    BY DEF HandlersSound
  <2>1. request'[q] = request[q] /\ HandlerSound(request[q])
    BY <1>2 DEF Inv, DbInv, HandlersSound
  <2>2. request[q].pc \in HasRow =>
            /\ meetings'[request[q].m].state # "none"
            /\ meetings'[request[q].m].creator_id =
                   meetings[request[q].m].creator_id
    BY <1>4, <2>1 DEF HandlerSound, RowsKept
  <2> QED
    BY <2>1, <2>2 DEF HandlerSound, HasRow, Pc
<1>7. LockIsInside' /\ TransactionHoldsLock'
  BY <1>2 DEF Inv, DbInv, LockIsInside, TransactionHoldsLock
<1>8. SeenIsCurrent'
  <2> SUFFICES ASSUME NEW q \in Request, request[q].pc = "join_commit"
               PROVE  request[q].seen =
                          meetings'[request[q].m].waiting_room_enabled
    BY <1>2 DEF SeenIsCurrent
  <2>1. lock[request[q].m] = q /\ request[q].m \in Meeting
    BY DEF Inv, DbInv, TransactionHoldsLock, InTransaction, HandlersSound,
           HandlerSound, HasRow, Pc
  <2>2. meetings'[request[q].m] = meetings[request[q].m]
    BY <1>3, <1>4, <2>1
  <2> QED
    BY <2>2 DEF Inv, DbInv, SeenIsCurrent
<1>9. ActiveHasHost'
  BY <1>3 DEF ActiveHasHost
<1> QED
  BY <1>3, <1>5, <1>6, <1>7, <1>8, <1>9 DEF Inv, DbInv

(* join_meeting creates the row it did not find. *)
LEMMA CreateInv ==
    ASSUME Inv, NEW r \in Request, Create(r)
    PROVE  Inv'
<1>1. /\ request \in [Request -> HandlerState]
      /\ inbox \subseteq User \X Event
      /\ HandlerSound(request[r])
  BY Types DEF Inv, DbInv, HandlersSound
<1>2. /\ request[r].pc = "create" /\ request[r].user \in User
      /\ request[r].op = "join"
      /\ UNCHANGED <<participants, lock, listening, inbox, cut>>
  BY <1>1 DEF Create, At, HandlerSound
<1>3. CASE ~ (Live = {} /\ Unused # {})
  <2>1. Answer(r, "error") /\ UNCHANGED meetings /\ "error" \in Reply
    BY <1>3 DEF Create, Reply
  <2> QED
    BY <1>1, <1>2, <2>1, QuietAnswer DEF dbVars, InTransaction
<1>4. CASE Live = {} /\ Unused # {}
  <2>1. PICK m \in Unused :
            /\ Insert(m, request[r].user, TRUE)
            /\ request' = [request EXCEPT ![r].m = m, ![r].pc = "activate"]
    BY <1>4 DEF Create
  <2>2. /\ NobodyWaits' /\ CreatorsExist' /\ UnusedIsEmpty' /\ OneLiveMeeting'
        /\ \A n \in Live' : meetings'[n].state # "active"
        /\ lock[m] = NoRequest
    BY <1>2, <1>4, <2>1, NewRowInv
  <2>3. /\ meetings' \in [Meeting -> MeetingRow] /\ m \in Meeting
        /\ meetings'[m] = Row(request[r].user, TRUE)
        /\ \A n \in Meeting \ {m} : meetings'[n] = meetings[n]
        /\ RowsKept
    BY <1>2, <2>1, Types, InsertFacts DEF Inv, DbInv, Unused
  <2> DEFINE new == [request[r] EXCEPT !.m = m, !.pc = "activate"]
  <2>4. request' = [request EXCEPT ![r] = new]
    BY <1>1, <2>1
  <2>5. /\ new \in HandlerState /\ new.m = m /\ new.pc = "activate"
        /\ new.op = "join" /\ new.user = request[r].user
    <3>1. m \in Meeting /\ "activate" \in Pc
      BY DEF Unused, Pc
    <3> QED
      BY <1>1, <1>2, <3>1 DEF HandlerState
  <2> HIDE DEF new
  <2>6. /\ request' \in [Request -> HandlerState] /\ request'[r] = new
        /\ OthersWait(r)
    BY <1>1, <2>4, <2>5 DEF OthersWait
  <2>7. TypeOK'
    BY <1>2, <2>3, <2>6, Types DEF Inv, DbInv, TypeOK, MeetingRow, HandlerState
  <2>8. HandlersSound'
    <3>1. HandlerSound(request[r])'
      BY <1>2, <2>3, <2>5, <2>6 DEF HandlerSound, HasRow, Row
    <3> QED
      BY <2>3, <2>6, <3>1, HandlersStep DEF Inv, DbInv
  <2>9. LockIsInside' /\ TransactionHoldsLock' /\ SeenIsCurrent'
    <3>1. /\ request[r].pc \notin InTransaction
          /\ request'[r].pc \notin InTransaction
      BY <1>2, <2>5, <2>6 DEF InTransaction
    <3>2. \A n \in Meeting :
              lock[n] # NoRequest => meetings'[n] = meetings[n]
      BY <2>2, <2>3
    <3> QED
      BY <1>2, <2>6, <3>1, <3>2, LocksStep DEF Inv, DbInv
  <2>10. ActiveHasHost'
    BY <2>2 DEF ActiveHasHost
  <2> QED
    BY <2>2, <2>7, <2>8, <2>9, <2>10 DEF Inv, DbInv
<1> QED
  BY <1>3, <1>4

(* Activating or ending a meeting changes the state of its row alone. *)
LEMMA StateFacts ==
    ASSUME meetings \in [Meeting -> MeetingRow],
           NEW m \in Meeting, meetings[m].state # "none",
           NEW state \in {"active", "ended"},
           meetings' = [meetings EXCEPT ![m].state = state]
    PROVE  /\ meetings' \in [Meeting -> MeetingRow]
           /\ RowsKept /\ Live' = Live /\ Unused' = Unused
           /\ meetings'[m].state = state
           /\ \A n \in Meeting \ {m} : meetings'[n] = meetings[n]
           /\ \A n \in Meeting :
                  /\ meetings'[n].waiting_room_enabled =
                         meetings[n].waiting_room_enabled
                  /\ meetings'[n].creator_id = meetings[n].creator_id
<1> DEFINE new == [meetings[m] EXCEPT !.state = state]
<1>1. meetings' = [meetings EXCEPT ![m] = new]
  OBVIOUS
<1>2. /\ new \in MeetingRow /\ new.state = state
      /\ new.creator_id = meetings[m].creator_id
      /\ new.waiting_room_enabled = meetings[m].waiting_room_enabled
      /\ new.deleted = meetings[m].deleted
  BY DEF MeetingRow
<1> HIDE DEF new
<1>3. /\ meetings' \in [Meeting -> MeetingRow] /\ meetings'[m] = new
      /\ \A n \in Meeting \ {m} : meetings'[n] = meetings[n]
  BY <1>1, <1>2
<1>4. RowsKept /\ Live' = Live /\ Unused' = Unused
  BY <1>2, <1>3 DEF RowsKept, Live, Unused
<1> QED
  BY <1>2, <1>3, <1>4

(* What activating or ending a meeting keeps, whatever the handler does   *)
(* next, as long as it is not inside a transaction.                        *)
LEMMA StateInv ==
    ASSUME Inv, NEW r \in Request,
           NEW m \in Meeting, meetings[m].state # "none",
           NEW state \in {"active", "ended"},
           meetings' = [meetings EXCEPT ![m].state = state],
           UNCHANGED <<participants, lock, listening, inbox, cut>>,
           request' \in [Request -> HandlerState], OthersWait(r),
           HandlerSound(request[r])',
           request[r].pc \notin InTransaction,
           request'[r].pc \notin InTransaction,
           \A n \in Meeting : Halfway(r, n) =>
               Halfway(r, n)' \/ meetings'[n].state # "active",
           state = "active" => Halfway(r, m)'
    PROVE  Inv'
<1>1. /\ meetings' \in [Meeting -> MeetingRow]
      /\ RowsKept /\ Live' = Live /\ Unused' = Unused
      /\ meetings'[m].state = state
      /\ \A n \in Meeting \ {m} : meetings'[n] = meetings[n]
      /\ \A n \in Meeting :
             /\ meetings'[n].waiting_room_enabled =
                    meetings[n].waiting_room_enabled
             /\ meetings'[n].creator_id = meetings[n].creator_id
  BY StateFacts, Types DEF Inv, DbInv
<1>2. TypeOK'
  BY <1>1, Types DEF Inv, DbInv, TypeOK, MeetingRow, HandlerState
<1>3. HandlersSound'
  BY <1>1, HandlersStep DEF Inv, DbInv
<1>4. LockIsInside' /\ TransactionHoldsLock' /\ SeenIsCurrent'
  BY <1>1, LocksStep DEF Inv, DbInv
<1>5. NobodyWaits' /\ CreatorsExist' /\ UnusedIsEmpty' /\ OneLiveMeeting'
  BY <1>1 DEF Inv, DbInv, NobodyWaits, CreatorsExist, Unused, UnusedIsEmpty,
              OneLiveMeeting, StatusOf
<1>6. ActiveHasHost'
  <2>1. \A n \in Meeting : StatusOf(n, meetings[n].creator_id)' =
                           StatusOf(n, meetings[n].creator_id)
    BY <1>1 DEF StatusOf
  <2>2. \A n \in Meeting :
            n \in Live' /\ meetings'[n].state = "active" =>
                \/ n \in Live /\ meetings[n].state = "active"
                \/ Halfway(r, n)'
    BY <1>1
  <2> QED
    BY <1>1, <2>1, <2>2, ActiveStep DEF Inv, DbInv
<1> QED
  BY <1>2, <1>3, <1>4, <1>5, <1>6 DEF Inv, DbInv

(* join_meeting activates the host's meeting. *)
LEMMA ActivateInv ==
    ASSUME Inv, NEW r \in Request, Activate(r)
    PROVE  Inv'
<1> DEFINE m == request[r].m
<1>1. /\ request \in [Request -> HandlerState]
      /\ HandlerSound(request[r])
      /\ request[r].pc = "activate"
  BY Types DEF Inv, DbInv, HandlersSound, Activate, At
<1>2. /\ m \in Meeting /\ meetings[m].state # "none"
      /\ meetings[m].creator_id = request[r].user
      /\ request[r].op = "join" /\ request[r].user \in User
  BY <1>1 DEF HandlerSound, HasRow, Pc
<1>3. /\ meetings' = [meetings EXCEPT ![m].state = "active"]
      /\ UNCHANGED <<participants, lock, listening, inbox, cut>>
      /\ Goto(r, "publish_activated")
  BY DEF Activate
<1>4. /\ request' \in [Request -> HandlerState]
      /\ request'[r] = [request[r] EXCEPT !.pc = "publish_activated"]
      /\ OthersWait(r)
  BY <1>1, <1>3, GotoFacts DEF Pc
<1>5. /\ request'[r].pc = "publish_activated" /\ request'[r].m = m
      /\ request'[r].user = request[r].user /\ request'[r].op = "join"
  BY <1>1, <1>2, <1>4 DEF HandlerState
<1>6. /\ meetings'[m].state = "active"
      /\ meetings'[m].creator_id = meetings[m].creator_id
  BY <1>2, <1>3, StateFacts, Types DEF Inv, DbInv
<1>7. HandlerSound(request[r])' /\ Halfway(r, m)'
  BY <1>2, <1>5, <1>6 DEF HandlerSound, HasRow, Halfway
<1>8. \A n \in Meeting : ~ Halfway(r, n)
  BY <1>1 DEF Halfway
<1> QED
  BY <1>1, <1>2, <1>3, <1>4, <1>5, <1>7, <1>8, StateInv DEF InTransaction

(* end_meeting_handler and leave_meeting end the meeting. *)
LEMMA EndMeetingInv ==
    ASSUME Inv, NEW r \in Request, EndMeeting(r)
    PROVE  Inv'
<1> DEFINE m == request[r].m
<1>1. /\ request \in [Request -> HandlerState]
      /\ HandlerSound(request[r])
      /\ request[r].pc = "end_meeting"
  BY Types DEF Inv, DbInv, HandlersSound, EndMeeting, At
<1>2. m \in Meeting /\ meetings[m].state # "none"
  BY <1>1 DEF HandlerSound, HasRow, Pc
<1>3. /\ meetings' = [meetings EXCEPT ![m].state = "ended"]
      /\ UNCHANGED <<participants, lock, listening, inbox, cut>>
  BY DEF EndMeeting
<1>4. PICK reply \in Reply : Answer(r, reply)
  BY DEF EndMeeting, Reply, Status
<1>5. /\ request' \in [Request -> HandlerState] /\ request'[r].pc = "done"
      /\ OthersWait(r)
  BY <1>1, <1>4, AnswerFacts
<1>6. meetings'[m].state = "ended"
  BY <1>2, <1>3, StateFacts, Types DEF Inv, DbInv
<1>7. \A n \in Meeting : Halfway(r, n) => meetings'[n].state # "active"
  BY <1>6 DEF Halfway
<1> QED
  BY <1>1, <1>2, <1>3, <1>5, <1>7, DoneIsSound, StateInv DEF InTransaction

(* delete_meeting hides the row. *)
LEMMA SoftDeleteInv ==
    ASSUME Inv, NEW r \in Request, SoftDelete(r)
    PROVE  Inv'
<1> DEFINE mine == {m \in Live : meetings[m].creator_id = request[r].user}
<1>1. /\ request \in [Request -> HandlerState]
      /\ meetings \in [Meeting -> MeetingRow]
      /\ request[r].pc = "soft_delete"
  BY Types DEF Inv, DbInv, SoftDelete, At
<1>2. /\ meetings' = [m \in Meeting |->
             IF m \in mine THEN [meetings[m] EXCEPT !.deleted = TRUE]
                           ELSE meetings[m]]
      /\ UNCHANGED <<participants, lock, listening, inbox, cut>>
      /\ Answer(r, "ok") /\ "ok" \in Reply
  BY DEF SoftDelete, Reply
<1>3. /\ request' \in [Request -> HandlerState] /\ request'[r].pc = "done"
      /\ OthersWait(r)
  BY <1>1, <1>2, AnswerFacts
<1>4. /\ meetings' \in [Meeting -> MeetingRow]
      /\ \A m \in Meeting :
             /\ meetings'[m].state = meetings[m].state
             /\ meetings'[m].creator_id = meetings[m].creator_id
             /\ meetings'[m].waiting_room_enabled =
                    meetings[m].waiting_room_enabled
             /\ meetings[m].deleted => meetings'[m].deleted
  <2>1. ASSUME NEW m \in Meeting
        PROVE  /\ meetings'[m] \in MeetingRow
               /\ meetings'[m].state = meetings[m].state
               /\ meetings'[m].creator_id = meetings[m].creator_id
               /\ meetings'[m].waiting_room_enabled =
                      meetings[m].waiting_room_enabled
               /\ meetings[m].deleted => meetings'[m].deleted
    <3>1. CASE m \in mine
      BY <1>1, <1>2, <3>1 DEF MeetingRow
    <3>2. CASE m \notin mine
      BY <1>1, <1>2, <3>2
    <3> QED
      BY <3>1, <3>2
  <2> QED
    BY <1>2, <2>1
<1>5. RowsKept /\ Live' \subseteq Live /\ Unused' = Unused
  BY <1>4 DEF RowsKept, Live, Unused
<1>6. TypeOK'
  BY <1>2, <1>3, <1>4, Types DEF Inv, DbInv, TypeOK, MeetingRow, HandlerState
<1>7. HandlersSound'
  BY <1>3, <1>5, DoneIsSound, HandlersStep DEF Inv, DbInv
<1>8. LockIsInside' /\ TransactionHoldsLock' /\ SeenIsCurrent'
  BY <1>1, <1>2, <1>3, <1>4, DoneIsSound, LocksStep
  DEF Inv, DbInv, InTransaction
<1>9. NobodyWaits' /\ CreatorsExist' /\ UnusedIsEmpty' /\ OneLiveMeeting'
  BY <1>2, <1>4, <1>5
  DEF Inv, DbInv, NobodyWaits, CreatorsExist, Unused, UnusedIsEmpty,
      OneLiveMeeting, StatusOf
<1>10. ActiveHasHost'
  <2>1. /\ \A n \in Meeting : StatusOf(n, meetings[n].creator_id)' =
                              StatusOf(n, meetings[n].creator_id)
        /\ \A n \in Meeting : ~ Halfway(r, n)
        /\ cut' = cut
    BY <1>1, <1>2, <1>4 DEF StatusOf, Halfway
  <2> QED
    BY <1>3, <1>4, <1>5, <2>1, ActiveStep DEF Inv, DbInv
<1> QED
  BY <1>6, <1>7, <1>8, <1>9, <1>10 DEF Inv, DbInv

-----------------------------------------------------------------------------
(* A statement that changes the participants of one meeting, makes nobody *)
(* wait and leaves the host in, or r on its way to end the meeting.        *)
LEMMA StatusStep ==
    ASSUME Inv, NEW r \in Request,
           NEW m \in Meeting, meetings[m].state # "none",
           participants' \in [Meeting -> [User -> ParticipantRow]],
           \A n \in Meeting, u \in User :
               \/ StatusOf(n, u)' = StatusOf(n, u)
               \/ n = m /\ StatusOf(n, u)' # "waiting",
           UNCHANGED <<meetings, lock, listening, inbox, cut>>,
           request' \in [Request -> HandlerState], OthersWait(r),
           HandlerSound(request[r])',
           request[r].pc \notin InTransaction,
           request'[r].pc \notin InTransaction,
           \A n \in Meeting :
               StatusOf(n, meetings[n].creator_id) = "admitted"
                   \/ Halfway(r, n) =>
               StatusOf(n, meetings[n].creator_id)' = "admitted"
                   \/ Halfway(r, n)' \/ meetings[n].state # "active"
    PROVE  Inv'
<1>1. TypeOK'
  BY Types DEF Inv, DbInv, TypeOK, ParticipantRow, HandlerState
<1>2. RowsKept /\ Live' = Live /\ Unused' = Unused
  BY DEF RowsKept, Live, Unused
<1>3. HandlersSound'
  BY <1>2, HandlersStep DEF Inv, DbInv
<1>4. LockIsInside' /\ TransactionHoldsLock' /\ SeenIsCurrent'
  BY LocksStep DEF Inv, DbInv
<1>5. NobodyWaits'
  BY DEF Inv, DbInv, NobodyWaits
<1>6. CreatorsExist' /\ UnusedIsEmpty' /\ OneLiveMeeting'
  BY <1>2 DEF Inv, CreatorsExist, Unused, UnusedIsEmpty, OneLiveMeeting
<1>7. ActiveHasHost'
  BY <1>2, ActiveStep DEF Inv, DbInv
<1> QED
  BY <1>1, <1>3, <1>4, <1>5, <1>6, <1>7 DEF Inv, DbInv

(* join_meeting lets the host in. *)
LEMMA UpsertHostInv ==
    ASSUME Inv, NEW r \in Request, UpsertHost(r)
    PROVE  Inv'
<1>1. /\ request \in [Request -> HandlerState]
      /\ participants \in [Meeting -> [User -> ParticipantRow]]
      /\ HandlerSound(request[r])
      /\ request[r].pc = "upsert_host"
  BY Types DEF Inv, DbInv, HandlersSound, UpsertHost, At
<1>2. PICK m \in Meeting, u \in User :
          /\ m = request[r].m /\ u = request[r].user
          /\ meetings[m].state # "none" /\ meetings[m].creator_id = u
  BY <1>1 DEF HandlerSound, HasRow, Pc
<1>3. /\ participants' = [participants EXCEPT ![m][u] =
                              [status |-> "admitted", is_host |-> TRUE]]
      /\ UNCHANGED <<meetings, lock, listening, inbox, cut>>
      /\ Answer(r, "host") /\ "host" \in Reply
  BY <1>2 DEF UpsertHost, Reply
<1>4. /\ request' \in [Request -> HandlerState] /\ request'[r].pc = "done"
      /\ OthersWait(r)
  BY <1>1, <1>3, AnswerFacts
<1>5. /\ participants' \in [Meeting -> [User -> ParticipantRow]]
      /\ StatusOf(m, u)' = "admitted"
      /\ \A n \in Meeting, v \in User :
             n # m \/ v # u => StatusOf(n, v)' = StatusOf(n, v)
  <2>1. [status |-> "admitted", is_host |-> TRUE] \in ParticipantRow
    BY DEF ParticipantRow, Status
  <2>2. participants' = [participants EXCEPT ![m] = [@ EXCEPT ![u] =
                             [status |-> "admitted", is_host |-> TRUE]]]
    BY <1>3
  <2> QED
    BY <1>1, <1>2, <2>1, <2>2 DEF StatusOf
<1>6. \A n \in Meeting : Halfway(r, n) => n = m
  BY <1>2 DEF Halfway
<1>7. \A n \in Meeting :
          StatusOf(n, meetings[n].creator_id) = "admitted" \/ Halfway(r, n) =>
          StatusOf(n, meetings[n].creator_id)' = "admitted"
              \/ meetings[n].state # "active"
  <2> SUFFICES ASSUME NEW n \in Meeting, meetings[n].state = "active",
                      \/ StatusOf(n, meetings[n].creator_id) = "admitted"
                      \/ Halfway(r, n)
               PROVE  StatusOf(n, meetings[n].creator_id)' = "admitted"
    OBVIOUS
  <2>1. meetings[n].creator_id \in User /\ meetings' = meetings
    BY <1>3 DEF Inv, CreatorsExist
  <2> QED
    BY <1>2, <1>5, <1>6, <2>1 DEF StatusOf
<1>8. \A n \in Meeting, v \in User :
          \/ StatusOf(n, v)' = StatusOf(n, v)
          \/ n = m /\ StatusOf(n, v)' # "waiting"
  BY <1>5
<1> QED
  BY <1>1, <1>2, <1>3, <1>4, <1>5, <1>7, <1>8, DoneIsSound, StatusStep
  DEF InTransaction

(* leave_meeting: the host goes on to end the meeting. *)
LEMMA LeaveInv ==
    ASSUME Inv, NEW r \in Request, Leave(r)
    PROVE  Inv'
<1>1. /\ request \in [Request -> HandlerState]
      /\ participants \in [Meeting -> [User -> ParticipantRow]]
      /\ inbox \subseteq User \X Event
      /\ HandlerSound(request[r])
      /\ request[r].pc = "leave"
  BY Types DEF Inv, DbInv, HandlersSound, Leave, At
<1>2. PICK m \in Meeting, u \in User :
          /\ m = request[r].m /\ u = request[r].user
          /\ meetings[m].state # "none"
  BY <1>1 DEF HandlerSound, HasRow, Pc
<1>3. UNCHANGED <<meetings, lock, listening, inbox, cut>>
  BY DEF Leave
<1>4. CASE StatusOf(m, u) \notin {"admitted", "waiting"}
  <2>1. Answer(r, "error") /\ UNCHANGED participants /\ "error" \in Reply
    BY <1>2, <1>4 DEF Leave, Reply
  <2> QED
    BY <1>1, <1>3, <2>1, QuietAnswer DEF InTransaction, dbVars
<1>5. CASE StatusOf(m, u) \in {"admitted", "waiting"}
  <2>1. PICK pc \in Pc :
            /\ SetStatus(m, {u}, "left") /\ Goto(r, pc)
            /\ pc = IF meetings[m].creator_id = u THEN "end_meeting"
                                                  ELSE "count_admitted"
    BY <1>2, <1>5 DEF Leave, IsHost, Pc
  <2>2. /\ participants' \in [Meeting -> [User -> ParticipantRow]]
        /\ \A n \in Meeting, v \in User :
               StatusOf(n, v)' = IF n = m /\ v \in {u} THEN "left"
                                                       ELSE StatusOf(n, v)
    BY <1>1, <1>2, <2>1, SetStatusFacts DEF Status
  <2>3. /\ request' \in [Request -> HandlerState]
        /\ request'[r] = [request[r] EXCEPT !.pc = pc]
        /\ OthersWait(r)
    BY <1>1, <2>1, GotoFacts
  <2>4. request'[r].pc = pc /\ request'[r].m = m /\ request'[r].user = u
    BY <1>1, <1>2, <2>3 DEF HandlerState
  <2>5. HandlerSound(request[r])' /\ request'[r].pc \notin InTransaction
    BY <1>2, <1>3, <2>1, <2>4 DEF HandlerSound, HasRow, InTransaction
  <2>6. \A n \in Meeting : ~ Halfway(r, n)
    BY <1>1 DEF Halfway
  <2>7. \A n \in Meeting :
            StatusOf(n, meetings[n].creator_id) = "admitted" =>
            \/ StatusOf(n, meetings[n].creator_id)' = "admitted"
            \/ Halfway(r, n)' \/ meetings[n].state # "active"
    <3> SUFFICES ASSUME NEW n \in Meeting, meetings[n].state = "active",
                        StatusOf(n, meetings[n].creator_id) = "admitted"
                 PROVE  \/ StatusOf(n, meetings[n].creator_id)' = "admitted"
                        \/ Halfway(r, n)'
      OBVIOUS
    <3>1. meetings[n].creator_id \in User /\ meetings' = meetings
      BY <1>3 DEF Inv, CreatorsExist
    <3>2. CASE n = m /\ meetings[n].creator_id = u
      BY <2>1, <2>4, <3>1, <3>2 DEF Halfway
    <3>3. CASE ~ (n = m /\ meetings[n].creator_id = u)
      BY <2>2, <3>1, <3>3 DEF StatusOf
    <3> QED
      BY <3>2, <3>3
  <2>8. \A n \in Meeting, v \in User :
            \/ StatusOf(n, v)' = StatusOf(n, v)
            \/ n = m /\ StatusOf(n, v)' # "waiting"
    BY <2>2
  <2>9. request[r].pc \notin InTransaction
    BY <1>1 DEF InTransaction
  <2>10. meetings[m].state # "none" /\ OthersWait(r)
    BY <1>2, <2>3
  <2> QED
    BY <1>3, <2>2, <2>3, <2>5, <2>6, <2>7, <2>8, <2>9, <2>10, StatusStep
<1> QED
  BY <1>4, <1>5

(* admit_participant, admit_all and reject_participant decide about those *)
(* who wait, and the host does not.                                        *)
LEMMA DecideInv ==
    ASSUME Inv, NEW r \in Request, Decide(r)
    PROVE  Inv'
<1> DEFINE q == request[r]
           us == Decided(q)
           status == IF q.op = "reject" THEN "rejected" ELSE "admitted"
<1>1. /\ request \in [Request -> HandlerState]
      /\ participants \in [Meeting -> [User -> ParticipantRow]]
      /\ HandlerSound(q)
      /\ q.pc = "decide"
  BY Types DEF Inv, DbInv, HandlersSound, Decide, At
<1>2. /\ q.m \in Meeting /\ q.user \in User /\ meetings[q.m].state # "none"
  BY <1>1 DEF HandlerSound, HasRow, Pc
<1>3. /\ UNCHANGED <<meetings, lock, listening, inbox, cut>>
      /\ SetStatus(q.m, us, status)
  BY DEF Decide
<1>4. /\ participants' \in [Meeting -> [User -> ParticipantRow]]
      /\ \A n \in Meeting, v \in User :
             StatusOf(n, v)' = IF n = q.m /\ v \in us THEN status
                                                      ELSE StatusOf(n, v)
  BY <1>1, <1>2, <1>3, SetStatusFacts DEF Status
<1>5. us \subseteq User /\ \A v \in us : StatusOf(q.m, v) = "waiting"
  BY DEF Decided, In
<1>6. /\ request' \in [Request -> HandlerState] /\ OthersWait(r)
      /\ HandlerSound(request[r])' /\ request'[r].pc \notin InTransaction
  <2> HIDE DEF us
  <2>1. CASE Answer(r, "error")
    BY <1>1, <2>1, AnswerFacts, DoneIsSound DEF Reply
  <2>2. CASE request' = [request EXCEPT ![r].target = us,
                                        ![r].pc = "publish_decision"]
    <3> DEFINE new == [q EXCEPT !.target = us, !.pc = "publish_decision"]
    <3>1. q \in HandlerState /\ us \in SUBSET User
      BY <1>1, <1>5
    <3>2. "publish_decision" \in Pc
      BY DEF Pc
    <3>3. /\ new \in HandlerState /\ new.pc = "publish_decision" /\ new.m = q.m
          /\ new.user = q.user
      <4> HIDE DEF q
      <4>1. new.pc = "publish_decision" /\ new.m = q.m /\ new.user = q.user
        BY <3>1 DEF HandlerState
      <4>2. new \in HandlerState
        BY <3>1, <3>2 DEF HandlerState
      <4> QED
        BY <4>1, <4>2
    <3> request' = [request EXCEPT ![r] = new]
      BY <2>2
    <3> HIDE DEF new
    <3>4. /\ request' \in [Request -> HandlerState] /\ request'[r] = new
          /\ OthersWait(r)
      BY <1>1, <3>3 DEF OthersWait
    <3> QED
      BY <1>2, <1>3, <3>3, <3>4 DEF HandlerSound, HasRow, InTransaction
  <2> QED
    BY <2>1, <2>2 DEF Decide, us
<1>7. \A n \in Meeting : ~ Halfway(r, n)
  BY <1>1 DEF Halfway
<1>8. \A n \in Meeting :
          StatusOf(n, meetings[n].creator_id) = "admitted" =>
          \/ StatusOf(n, meetings[n].creator_id)' = "admitted"
          \/ meetings[n].state # "active"
  <2> SUFFICES ASSUME NEW n \in Meeting, meetings[n].state = "active",
                      StatusOf(n, meetings[n].creator_id) = "admitted"
               PROVE  StatusOf(n, meetings[n].creator_id)' = "admitted"
    OBVIOUS
  <2>1. meetings[n].creator_id \in User /\ meetings' = meetings
    BY <1>3 DEF Inv, CreatorsExist
  <2>2. ~ (n = q.m /\ meetings[n].creator_id \in us)
    BY <1>5
  <2> QED
    BY <1>4, <2>1, <2>2 DEF StatusOf
<1>9. \A n \in Meeting, v \in User :
          \/ StatusOf(n, v)' = StatusOf(n, v)
          \/ n = q.m /\ StatusOf(n, v)' # "waiting"
  BY <1>4
<1> QED
  BY <1>1, <1>2, <1>3, <1>4, <1>6, <1>7, <1>8, <1>9, StatusStep
  DEF InTransaction

-----------------------------------------------------------------------------
(* The transactions.  A transaction begins by taking the lock of its row... *)
LEMMA AcquireStep ==
    ASSUME TypeOK, LockIsInside, TransactionHoldsLock, SeenIsCurrent,
           HandlersSound,
           NEW r \in Request, NEW m \in Meeting, Unlocked(m),
           lock' = [lock EXCEPT ![m] = r], UNCHANGED meetings, OthersWait(r),
           request[r].pc \notin InTransaction,
           request'[r].pc \in InTransaction, request'[r].m = m,
           request'[r].pc = "join_commit" =>
               request'[r].seen = meetings[m].waiting_room_enabled
    PROVE  /\ lock' \in [Meeting -> Request \cup {NoRequest}]
           /\ LockIsInside' /\ TransactionHoldsLock' /\ SeenIsCurrent'
<1>1. lock \in [Meeting -> Request \cup {NoRequest}]
  BY DEF TypeOK
<1>2. /\ lock' \in [Meeting -> Request \cup {NoRequest}]
      /\ lock'[m] = r
      /\ \A n \in Meeting \ {m} : lock'[n] = lock[n]
  BY <1>1
<1>3. LockIsInside'
  BY <1>1, <1>2 DEF LockIsInside, OthersWait, InTransaction
<1>4. \A q \in Request \ {r} :
          request[q].pc \in InTransaction =>
              request[q].m \in Meeting \ {m} /\ lock[request[q].m] = q
  BY DEF HandlersSound, HandlerSound, HasRow, Pc, InTransaction,
         TransactionHoldsLock, Unlocked
<1>5. TransactionHoldsLock'
  BY <1>2, <1>4 DEF TransactionHoldsLock, OthersWait
<1>6. SeenIsCurrent'
  BY DEF SeenIsCurrent, OthersWait
<1> QED
  BY <1>2, <1>3, <1>5, <1>6

(* ... and ends by releasing it; only then is the setting it read changed. *)
LEMMA ReleaseStep ==
    ASSUME TypeOK, LockIsInside, TransactionHoldsLock, SeenIsCurrent,
           HandlersSound,
           NEW r \in Request, NEW m \in Meeting, request[r].m = m,
           request[r].pc \in InTransaction,
           lock' = [lock EXCEPT ![m] = NoRequest], OthersWait(r),
           request'[r].pc \notin InTransaction,
           \A n \in Meeting \ {m} : meetings'[n] = meetings[n]
    PROVE  /\ lock' \in [Meeting -> Request \cup {NoRequest}]
           /\ LockIsInside' /\ TransactionHoldsLock' /\ SeenIsCurrent'
<1>1. lock \in [Meeting -> Request \cup {NoRequest}]
  BY DEF TypeOK
<1>2. /\ lock' \in [Meeting -> Request \cup {NoRequest}]
      /\ lock'[m] = NoRequest
      /\ \A n \in Meeting \ {m} : lock'[n] = lock[n]
  BY <1>1
<1>3. LockIsInside'
  <2> SUFFICES ASSUME NEW n \in Meeting, lock'[n] # NoRequest
               PROVE  /\ request'[lock'[n]].m = n
                      /\ request'[lock'[n]].pc \in InTransaction
    BY DEF LockIsInside, InTransaction
  <2>1. /\ n # m /\ lock'[n] = lock[n] /\ lock[n] \in Request
        /\ request[lock[n]].m = n
        /\ request[lock[n]].pc \in InTransaction
    BY <1>1, <1>2 DEF LockIsInside, InTransaction
  <2>2. request'[lock[n]] = request[lock[n]]
    BY <2>1 DEF OthersWait
  <2> QED
    BY <2>1, <2>2
<1>4. \A q \in Request \ {r} :
          request[q].pc \in InTransaction =>
              request[q].m \in Meeting \ {m} /\ lock[request[q].m] = q
  BY DEF HandlersSound, HandlerSound, HasRow, Pc, InTransaction,
         TransactionHoldsLock
<1>5. TransactionHoldsLock'
  BY <1>2, <1>4 DEF TransactionHoldsLock, OthersWait
<1>6. SeenIsCurrent'
  <2> SUFFICES ASSUME NEW q \in Request, request'[q].pc = "join_commit"
               PROVE  request'[q].seen =
                          meetings'[request'[q].m].waiting_room_enabled
    BY DEF SeenIsCurrent
  <2>1. q # r /\ request'[q] = request[q] /\ request[q].pc \in InTransaction
    BY DEF OthersWait, InTransaction
  <2>2. meetings'[request[q].m] = meetings[request[q].m]
    BY <1>4, <2>1
  <2> QED
    BY <2>1, <2>2 DEF SeenIsCurrent
<1> QED
  BY <1>2, <1>3, <1>5, <1>6

(* join_attendee reads the setting FOR UPDATE. *)
LEMMA JoinBeginInv ==
    ASSUME Inv, NEW r \in Request, JoinBegin(r)
    PROVE  Inv'
<1>1. /\ request \in [Request -> HandlerState]
      /\ meetings \in [Meeting -> MeetingRow]
      /\ inbox \subseteq User \X Event /\ cut \subseteq Meeting
      /\ HandlerSound(request[r])
      /\ request[r].pc = "join_begin"
  BY Types DEF Inv, DbInv, HandlersSound, JoinBegin, At
<1>2. PICK m \in Meeting :
          /\ m = request[r].m /\ meetings[m].state # "none"
          /\ request[r].op = "join" /\ request[r].user \in User
          /\ meetings[m].creator_id # request[r].user
  BY <1>1 DEF HandlerSound, HasRow, Pc
<1> DEFINE seen == meetings[m].waiting_room_enabled
           new == [request[r] EXCEPT !.pc = "join_commit", !.seen = seen]
<1>3. /\ Unlocked(m) /\ lock' = [lock EXCEPT ![m] = r]
      /\ request' = [request EXCEPT ![r] = new]
      /\ UNCHANGED <<meetings, participants, listening, inbox, cut>>
  BY <1>2 DEF JoinBegin
<1>4. /\ new \in HandlerState /\ new.pc = "join_commit" /\ new.m = m
      /\ new.seen = seen /\ new.op = "join" /\ new.user = request[r].user
  <2>1. "join_commit" \in Pc /\ seen \in BOOLEAN
    BY <1>1 DEF Pc, MeetingRow
  <2> QED
    BY <1>1, <1>2, <2>1 DEF HandlerState
<1> HIDE DEF new
<1>5. /\ request' \in [Request -> HandlerState] /\ request'[r] = new
      /\ OthersWait(r)
  BY <1>1, <1>3, <1>4 DEF OthersWait
<1>6. HandlerSound(request[r])'
  BY <1>2, <1>3, <1>4, <1>5 DEF HandlerSound, HasRow
<1>7. /\ request[r].pc \notin InTransaction
      /\ request'[r].pc \in InTransaction
      /\ \A n \in Meeting : ~ Halfway(r, n)
  BY <1>1, <1>4, <1>5 DEF Halfway, InTransaction
<1>8. /\ lock' \in [Meeting -> Request \cup {NoRequest}]
      /\ LockIsInside' /\ TransactionHoldsLock' /\ SeenIsCurrent'
  BY <1>3, <1>4, <1>5, <1>7, AcquireStep DEF Inv, DbInv
<1> QED
  BY <1>1, <1>3, <1>5, <1>6, <1>7, <1>8, RowsUnchanged

(* update_meeting locks the row of the caller's live meeting. *)
LEMMA UpdateBeginInv ==
    ASSUME Inv, NEW r \in Request, UpdateBegin(r)
    PROVE  Inv'
<1> DEFINE mine == {m \in Live : meetings[m].creator_id = request[r].user}
<1>1. /\ request \in [Request -> HandlerState]
      /\ inbox \subseteq User \X Event /\ cut \subseteq Meeting
      /\ HandlerSound(request[r])
      /\ request[r].pc = "update_begin"
      /\ UNCHANGED <<meetings, participants, listening, inbox, cut>>
  BY Types DEF Inv, DbInv, HandlersSound, UpdateBegin, At
<1>2. request[r].user \in User /\ request[r].op \in {"open", "close"}
  BY <1>1 DEF HandlerSound
<1>3. CASE mine = {}
  <2>1. Answer(r, "error") /\ UNCHANGED lock /\ "error" \in Reply
    BY <1>3 DEF UpdateBegin, Reply
  <2> QED
    BY <1>1, <2>1, QuietAnswer DEF InTransaction, dbVars
<1>4. CASE mine # {}
  <2>1. PICK m \in mine :
            /\ lock' = [lock EXCEPT ![m] = r]
            /\ request' = [request EXCEPT ![r].m = m,
                                          ![r].pc = "update_commit"]
            /\ Unlocked(m)
    BY <1>4 DEF UpdateBegin
  <2>2. m \in Meeting /\ meetings[m].state # "none"
    BY DEF Live
  <2> DEFINE new == [request[r] EXCEPT !.m = m, !.pc = "update_commit"]
  <2>3. /\ new \in HandlerState /\ new.pc = "update_commit" /\ new.m = m
        /\ new.op = request[r].op /\ new.user = request[r].user
    <3>1. "update_commit" \in Pc
      BY DEF Pc
    <3> QED
      BY <1>1, <2>2, <3>1 DEF HandlerState
  <2>4. request' = [request EXCEPT ![r] = new]
    BY <1>1, <2>1
  <2> HIDE DEF new
  <2>5. /\ request' \in [Request -> HandlerState] /\ request'[r] = new
        /\ OthersWait(r)
    BY <1>1, <2>3, <2>4 DEF OthersWait
  <2>6. HandlerSound(request[r])'
    BY <1>1, <1>2, <2>2, <2>3, <2>5 DEF HandlerSound, HasRow
  <2>7. /\ request[r].pc \notin InTransaction
        /\ request'[r].pc \in InTransaction
        /\ request'[r].pc # "join_commit"
        /\ \A n \in Meeting : ~ Halfway(r, n)
    BY <1>1, <2>3, <2>5 DEF Halfway, InTransaction
  <2>8. /\ lock' \in [Meeting -> Request \cup {NoRequest}]
        /\ LockIsInside' /\ TransactionHoldsLock' /\ SeenIsCurrent'
    BY <1>1, <2>1, <2>2, <2>3, <2>5, <2>7, AcquireStep DEF Inv, DbInv
  <2> QED
    BY <1>1, <2>5, <2>6, <2>7, <2>8, RowsUnchanged
<1> QED
  BY <1>3, <1>4

(* join_attendee: the attendee waits if and only if the waiting room is     *)
(* still enabled.                                                          *)
LEMMA JoinCommitInv ==
    ASSUME Inv, NEW r \in Request, JoinCommit(r)
    PROVE  Inv'
<1>1. /\ request \in [Request -> HandlerState]
      /\ participants \in [Meeting -> [User -> ParticipantRow]]
      /\ HandlerSound(request[r])
      /\ request[r].pc = "join_commit"
      /\ UNCHANGED <<meetings, listening, inbox, cut>>
  BY Types DEF Inv, DbInv, HandlersSound, JoinCommit, At
<1>2. PICK m \in Meeting, u \in User :
          /\ m = request[r].m /\ u = request[r].user
          /\ meetings[m].state # "none" /\ meetings[m].creator_id # u
  BY <1>1 DEF HandlerSound, HasRow, Pc
<1>3. request[r].seen = meetings[m].waiting_room_enabled
  BY <1>1, <1>2 DEF Inv, DbInv, SeenIsCurrent
<1>4. PICK status \in {"waiting", "admitted"} :
          /\ SetStatus(m, {u}, status)
          /\ status = "waiting" => request[r].seen
          /\ Goto(r, "publish_waiting") \/ Answer(r, "admitted")
  BY <1>2 DEF JoinCommit
<1>5. lock' = [lock EXCEPT ![m] = NoRequest]
  BY <1>2 DEF JoinCommit
<1>6. /\ participants' \in [Meeting -> [User -> ParticipantRow]]
      /\ \A n \in Meeting, v \in User :
             StatusOf(n, v)' = IF n = m /\ v \in {u} THEN status
                                                     ELSE StatusOf(n, v)
  BY <1>1, <1>4, SetStatusFacts DEF Status
<1>7. /\ request' \in [Request -> HandlerState] /\ OthersWait(r)
      /\ HandlerSound(request[r])' /\ request'[r].pc \notin InTransaction
  <2>1. CASE Answer(r, "admitted")
    BY <1>1, <2>1, AnswerFacts, DoneIsSound DEF Reply, Status
  <2>2. CASE Goto(r, "publish_waiting")
    <3>1. /\ request' \in [Request -> HandlerState]
          /\ request'[r] = [request[r] EXCEPT !.pc = "publish_waiting"]
          /\ OthersWait(r)
      BY <1>1, <2>2, GotoFacts DEF Pc
    <3>2. /\ request'[r].pc = "publish_waiting" /\ request'[r].m = m
          /\ request'[r].user = u
      BY <1>1, <1>2, <3>1 DEF HandlerState
    <3> QED
      BY <1>1, <1>2, <3>1, <3>2 DEF HandlerSound, HasRow, InTransaction
  <2> QED
    BY <1>4, <2>1, <2>2
<1>8. /\ lock' \in [Meeting -> Request \cup {NoRequest}]
      /\ LockIsInside' /\ TransactionHoldsLock' /\ SeenIsCurrent'
  BY <1>1, <1>2, <1>5, <1>7, ReleaseStep DEF Inv, DbInv, InTransaction
<1>9. TypeOK'
  BY <1>1, <1>6, <1>7, <1>8, Types
  DEF Inv, DbInv, TypeOK, ParticipantRow, HandlerState
<1>10. RowsKept /\ Live' = Live /\ Unused' = Unused
  BY <1>1 DEF RowsKept, Live, Unused
<1>11. HandlersSound'
  BY <1>7, <1>10, HandlersStep DEF Inv, DbInv
<1>12. NobodyWaits'
  BY <1>1, <1>3, <1>4, <1>6 DEF Inv, DbInv, NobodyWaits
<1>13. CreatorsExist' /\ UnusedIsEmpty' /\ OneLiveMeeting'
  BY <1>1, <1>2, <1>6, <1>10
  DEF Inv, CreatorsExist, Unused, UnusedIsEmpty, OneLiveMeeting
<1>14. ActiveHasHost'
  <2>1. \A n \in Meeting :
            meetings[n].state = "active" =>
                StatusOf(n, meetings[n].creator_id)' =
                    StatusOf(n, meetings[n].creator_id)
    <3> SUFFICES ASSUME NEW n \in Meeting, meetings[n].state = "active"
                 PROVE  StatusOf(n, meetings[n].creator_id)' =
                            StatusOf(n, meetings[n].creator_id)
      OBVIOUS
    <3>1. meetings[n].creator_id \in User /\ meetings' = meetings
      BY <1>1 DEF Inv, CreatorsExist
    <3> QED
      BY <1>2, <1>6, <3>1 DEF StatusOf
  <2>2. \A n \in Meeting : ~ Halfway(r, n)
    BY <1>1 DEF Halfway
  <2> QED
    BY <1>1, <1>7, <1>10, <2>1, <2>2, ActiveStep DEF Inv, DbInv
<1> QED
  BY <1>8, <1>9, <1>11, <1>12, <1>13, <1>14 DEF Inv, DbInv

(* update_waiting_room_enabled: disabling the waiting room lets everybody  *)
(* in who is in it.                                                        *)
LEMMA UpdateCommitInv ==
    ASSUME Inv, NEW r \in Request, UpdateCommit(r)
    PROVE  Inv'
<1>1. /\ request \in [Request -> HandlerState]
      /\ meetings \in [Meeting -> MeetingRow]
      /\ participants \in [Meeting -> [User -> ParticipantRow]]
      /\ HandlerSound(request[r])
      /\ request[r].pc = "update_commit"
      /\ UNCHANGED <<listening, inbox, cut>>
      /\ Answer(r, "ok") /\ "ok" \in Reply
  BY Types DEF Inv, DbInv, HandlersSound, UpdateCommit, At, Reply
<1>2. PICK m \in Meeting :
          /\ m = request[r].m /\ meetings[m].state # "none"
          /\ request[r].op \in {"open", "close"}
  BY <1>1 DEF HandlerSound, HasRow, Pc
<1>3. PICK enabled \in BOOLEAN :
          /\ enabled = (request[r].op = "close")
          /\ meetings' = [meetings EXCEPT ![m].waiting_room_enabled = enabled]
          /\ lock' = [lock EXCEPT ![m] = NoRequest]
  BY <1>2 DEF UpdateCommit
<1>4. /\ participants' \in [Meeting -> [User -> ParticipantRow]]
      /\ \A n \in Meeting, v \in User :
             \/ StatusOf(n, v)' = StatusOf(n, v)
             \/ /\ n = m /\ StatusOf(n, v) = "waiting"
                /\ StatusOf(n, v)' = "admitted"
      /\ ~ enabled => \A v \in User : StatusOf(m, v)' # "waiting"
  <2>1. CASE request[r].op = "open"
    <3> DEFINE us == In(m, "waiting")
    <3>1. SetStatus(m, us, "admitted")
      BY <1>2, <2>1 DEF UpdateCommit
    <3>2. us = {v \in User : StatusOf(m, v) = "waiting"}
      BY DEF In
    <3> HIDE DEF us
    <3>3. /\ participants' \in [Meeting -> [User -> ParticipantRow]]
          /\ \A n \in Meeting, v \in User :
                 StatusOf(n, v)' = IF n = m /\ v \in us THEN "admitted"
                                                        ELSE StatusOf(n, v)
      BY <1>1, <3>1, SetStatusFacts DEF Status
    <3> QED
      BY <3>2, <3>3
  <2>2. CASE request[r].op = "close"
    <3>1. UNCHANGED participants /\ enabled
      BY <1>3, <2>2 DEF UpdateCommit
    <3> QED
      BY <1>1, <3>1 DEF StatusOf
  <2> QED
    BY <1>2, <2>1, <2>2
<1>5. /\ meetings' \in [Meeting -> MeetingRow]
      /\ meetings'[m].waiting_room_enabled = enabled
      /\ \A n \in Meeting \ {m} : meetings'[n] = meetings[n]
      /\ \A n \in Meeting :
             /\ meetings'[n].state = meetings[n].state
             /\ meetings'[n].creator_id = meetings[n].creator_id
             /\ meetings'[n].deleted = meetings[n].deleted
  <2> DEFINE new == [meetings[m] EXCEPT !.waiting_room_enabled = enabled]
  <2>1. /\ new \in MeetingRow /\ new.waiting_room_enabled = enabled
        /\ new.state = meetings[m].state
        /\ new.creator_id = meetings[m].creator_id
        /\ new.deleted = meetings[m].deleted
    BY <1>1 DEF MeetingRow
  <2>2. meetings' = [meetings EXCEPT ![m] = new]
    BY <1>3
  <2> HIDE DEF new
  <2> QED
    BY <1>1, <2>1, <2>2
<1>6. /\ request' \in [Request -> HandlerState] /\ request'[r].pc = "done"
      /\ OthersWait(r)
  BY <1>1, AnswerFacts
<1>7. HandlerSound(request[r])' /\ request'[r].pc \notin InTransaction
  BY <1>6, DoneIsSound
<1>8. /\ lock' \in [Meeting -> Request \cup {NoRequest}]
      /\ LockIsInside' /\ TransactionHoldsLock' /\ SeenIsCurrent'
  BY <1>1, <1>2, <1>3, <1>5, <1>6, <1>7, ReleaseStep
  DEF Inv, DbInv, InTransaction
<1>9. TypeOK'
  BY <1>1, <1>4, <1>5, <1>6, <1>8, Types
  DEF Inv, DbInv, TypeOK, MeetingRow, ParticipantRow, HandlerState
<1>10. RowsKept /\ Live' = Live /\ Unused' = Unused
  BY <1>5 DEF RowsKept, Live, Unused
<1>11. HandlersSound'
  BY <1>6, <1>7, <1>10, HandlersStep DEF Inv, DbInv
<1>12. NobodyWaits'
  <2> SUFFICES ASSUME NEW n \in Meeting, NEW v \in User,
                      StatusOf(n, v)' = "waiting"
               PROVE  meetings'[n].waiting_room_enabled
    BY DEF NobodyWaits
  <2>1. StatusOf(n, v) = "waiting" /\ (n = m => enabled)
    BY <1>4
  <2> QED
    BY <1>5, <2>1 DEF Inv, DbInv, NobodyWaits
<1>13. CreatorsExist' /\ UnusedIsEmpty' /\ OneLiveMeeting'
  BY <1>2, <1>4, <1>5, <1>10
  DEF Inv, CreatorsExist, Unused, UnusedIsEmpty, OneLiveMeeting
<1>14. ActiveHasHost'
  <2>1. \A n \in Meeting :
            /\ meetings[n].state = "active"
            /\ StatusOf(n, meetings[n].creator_id) = "admitted"
            => StatusOf(n, meetings[n].creator_id)' = "admitted"
    <3> SUFFICES ASSUME NEW n \in Meeting, meetings[n].state = "active",
                        StatusOf(n, meetings[n].creator_id) = "admitted"
                 PROVE  StatusOf(n, meetings[n].creator_id)' = "admitted"
      OBVIOUS
    <3>1. /\ meetings[n].creator_id \in User
          /\ meetings'[n].creator_id = meetings[n].creator_id
      BY <1>5 DEF Inv, CreatorsExist
    <3> QED
      BY <1>4, <3>1 DEF StatusOf
  <2>2. \A n \in Meeting : ~ Halfway(r, n)
    BY <1>1 DEF Halfway
  <2> QED
    BY <1>1, <1>5, <1>6, <1>10, <2>1, <2>2, ActiveStep DEF Inv, DbInv
<1> QED
  BY <1>8, <1>9, <1>11, <1>12, <1>13, <1>14 DEF Inv, DbInv

(* A handler that is cut off gives its lock back. *)
LEMMA CutOffInv ==
    ASSUME Inv, NEW r \in Request, CutOff(r)
    PROVE  Inv'
<1>1. /\ request \in [Request -> HandlerState]
      /\ lock \in [Meeting -> Request \cup {NoRequest}]
      /\ inbox \subseteq User \X Event /\ cut \subseteq Meeting
      /\ UNCHANGED <<meetings, participants, listening, inbox>>
      /\ Answer(r, "error") /\ "error" \in Reply
      /\ lock' = [n \in Meeting |-> IF lock[n] = r THEN NoRequest ELSE lock[n]]
  BY Types DEF Inv, DbInv, CutOff, Reply
<1>2. /\ request' \in [Request -> HandlerState] /\ request'[r].pc = "done"
      /\ OthersWait(r)
  BY <1>1, AnswerFacts
<1>3. HandlerSound(request[r])' /\ request'[r].pc \notin InTransaction
  BY <1>2, DoneIsSound
<1>4. lock' \in [Meeting -> Request \cup {NoRequest}]
  BY <1>1
<1>5. LockIsInside'
  BY <1>1, <1>2 DEF Inv, DbInv, LockIsInside, OthersWait
<1>6. TransactionHoldsLock'
  <2> SUFFICES ASSUME NEW q \in Request, request'[q].pc \in InTransaction
               PROVE  lock'[request'[q].m] = q
    BY DEF TransactionHoldsLock
  <2>1. q # r /\ request'[q] = request[q]
    BY <1>2, <1>3 DEF OthersWait
  <2>2. request[q].m \in Meeting /\ lock[request[q].m] = q
    BY <2>1 DEF Inv, DbInv, TransactionHoldsLock, HandlersSound, HandlerSound,
                HasRow, InTransaction, Pc
  <2> QED
    BY <1>1, <2>1, <2>2
<1>7. SeenIsCurrent'
  BY <1>1, <1>2 DEF Inv, DbInv, SeenIsCurrent, OthersWait
<1>8. /\ cut \subseteq cut' /\ cut' \subseteq Meeting
      /\ \A n \in Meeting : Halfway(r, n) => n \in cut'
  <2>1. cut' = IF request[r].m \in Meeting /\ Halfway(r, request[r].m)
               THEN cut \cup {request[r].m} ELSE cut
    BY DEF CutOff
  <2>2. \A n \in Meeting : Halfway(r, n) => n = request[r].m
    BY DEF Halfway
  <2> QED
    BY <1>1, <2>1, <2>2
<1> QED
  BY <1>1, <1>2, <1>3, <1>4, <1>5, <1>6, <1>7, <1>8, RowsUnchanged

-----------------------------------------------------------------------------
(* Initially there are no rows and no requests. *)
LEMMA InvInit == Init => Inv
<1> SUFFICES ASSUME Init
             PROVE  Inv
  OBVIOUS
<1>1. NoRow \in MeetingRow /\ NoParticipant \in ParticipantRow
      /\ Idle \in HandlerState
  BY DEF NoRow, MeetingRow, NoParticipant, ParticipantRow, Status, Idle,
         HandlerState, Ops, Pc, Reply
<1>2. TypeOK
  BY <1>1, Types DEF Init
<1>3. /\ \A m \in Meeting : /\ meetings[m].state = "none"
                            /\ ~ meetings[m].deleted
                            /\ lock[m] = NoRequest
                            /\ \A u \in User : StatusOf(m, u) = "none"
      /\ \A r \in Request : request[r].pc = "idle"
  BY DEF Init, NoRow, NoParticipant, Idle, StatusOf
<1>4. HandlersSound
  BY <1>3 DEF HandlersSound, HandlerSound, HasRow
<1>5. LockIsInside /\ TransactionHoldsLock /\ SeenIsCurrent
  BY <1>3 DEF LockIsInside, TransactionHoldsLock, SeenIsCurrent,
              InTransaction
<1>6. NobodyWaits /\ CreatorsExist /\ UnusedIsEmpty
  BY <1>3 DEF NobodyWaits, CreatorsExist, UnusedIsEmpty, Unused
<1>7. OneLiveMeeting /\ ActiveHasHost
  BY <1>3 DEF OneLiveMeeting, ActiveHasHost, Live
<1> QED
  BY <1>2, <1>4, <1>5, <1>6, <1>7 DEF Inv, DbInv

(* Every step of a handler keeps the invariant, and so does cutting it off. *)
LEMMA HandlerInv ==
    ASSUME Inv, NEW r \in Request, Step(r) \/ CutOff(r)
    PROVE  Inv'
BY LookupInv, CreateInv, ActivateInv, UpsertHostInv, JoinBeginInv,
   JoinCommitInv, LeaveInv, EndMeetingInv, SoftDeleteInv, GetWaitingInv,
   DecideInv, UpdateBeginInv, UpdateCommitInv, ReadOnlyInv, CutOffInv DEF Step

(* Every step keeps the invariant. *)
LEMMA InvStep == Inv /\ [Next]_vars => Inv'
<1> SUFFICES ASSUME Inv, [Next]_vars
             PROVE  Inv'
  OBVIOUS
<1>1. ASSUME NEW u \in User, NEW wr \in BOOLEAN, CreateMeeting(u, wr)
      PROVE  Inv'
  BY <1>1, CreateMeetingInv
<1>2. ASSUME NEW r \in Request, NEW u \in User,
             \/ \E op \in Offered \ {"admit", "reject"} : Submit(r, u, op, {})
             \/ \E op \in Offered \cap {"admit", "reject"}, t \in User :
                    Submit(r, u, op, {t})
      PROVE  Inv'
  <2>1. PICK op \in Ops, target \in SUBSET User : Submit(r, u, op, target)
    BY <1>2 DEF Ops
  <2> QED
    BY <2>1, SubmitInv
<1>3. ASSUME NEW r \in Request, Step(r) \/ CutOff(r)
      PROVE  Inv'
  BY <1>3, HandlerInv
<1>4. CASE UNCHANGED vars
  BY <1>4 DEF vars, dbVars, Inv, DbInv, TypeOK, HandlersSound, HandlerSound,
              LockIsInside, TransactionHoldsLock, SeenIsCurrent, NobodyWaits,
              CreatorsExist, UnusedIsEmpty, OneLiveMeeting, ActiveHasHost,
              Live, Unused, StatusOf, Halfway
<1> QED
  BY <1>1, <1>2, <1>3, <1>4 DEF Next

(* The invariant holds in every state. *)
THEOREM MeetingInvariant == Spec => []Inv
BY InvInit, InvStep, PTL DEF Spec

(* For any number of users, requests and rows: rows and handlers have their *)
(* types, and a room never has two live meetings, although join_meeting     *)
(* creates the row long after it found none.                                *)
THEOREM MeetingsAreSound == Spec => []MeetingsSound
<1>1. Inv => MeetingsSound
  BY DEF Inv, DbInv, MeetingsSound
<1> QED
  BY <1>1, MeetingInvariant, PTL

(* An attendee who joins while the host disables the waiting room is not   *)
(* left waiting in it, whichever of the two transactions comes first.      *)
THEOREM NobodyIsLeftWaiting == Spec => []NobodyWaitsOutside
<1>1. Inv => NobodyWaitsOutside
  BY DEF Inv, DbInv, NobodyWaits, NobodyWaitsOutside, Live, In
<1> QED
  BY <1>1, MeetingInvariant, PTL

(* A meeting is active without its host only while, or after, a request of  *)
(* the host stopped between its two statements.                             *)
THEOREM ActiveMeetingsHaveHosts == Spec => []ActiveHasHost
<1>1. Inv => ActiveHasHost
  BY DEF Inv
<1> QED
  BY <1>1, MeetingInvariant, PTL

-----------------------------------------------------------------------------
(* Whose status changes from "rejected" or "left" has a join of his own     *)
(* under way: the UPDATE of a decision, of a departure and of the setting   *)
(* name only those who wait or are in.                                      *)
LEMMA DecisionsStep ==
    ASSUME Inv, [Next]_vars, NEW m \in Meeting, NEW u \in User,
           StatusOf(m, u) \in {"rejected", "left"},
           StatusOf(m, u)' # StatusOf(m, u)
    PROVE  \E r \in Request : /\ request[r].user = u
                              /\ request[r].op = "join"
                              /\ request[r].m = m
                              /\ request'[r] # request[r]
<1>1. /\ request \in [Request -> HandlerState]
      /\ participants \in [Meeting -> [User -> ParticipantRow]]
      /\ participants' # participants
  BY Types DEF Inv, DbInv, StatusOf
<1>2. PICK r \in Request :
          UpsertHost(r) \/ JoinCommit(r) \/ Leave(r) \/ Decide(r)
              \/ UpdateCommit(r)
  BY <1>1 DEF Next, vars, dbVars, Step, CreateMeeting, Submit, LookupFails,
     Lookup, Create, Activate, PublishActivated, JoinBegin, PublishWaiting,
     GetStatus, CountAdmitted, EndMeeting, SoftDelete, RequireHost, GetWaiting,
     PublishDecision, UpdateBegin, CutOff
<1>3. HandlerSound(request[r])
  BY DEF Inv, DbInv, HandlersSound
<1>4. CASE UpsertHost(r)
  <2>1. /\ request[r].pc = "upsert_host" /\ request[r].op = "join"
        /\ participants' = [participants EXCEPT
               ![request[r].m][request[r].user] =
                   [status |-> "admitted", is_host |-> TRUE]]
        /\ Answer(r, "host") /\ "host" \in Reply
    BY <1>3, <1>4 DEF UpsertHost, At, HandlerSound, Reply
  <2>2. request'[r].pc = "done"
    BY <1>1, <2>1, AnswerFacts
  <2>3. m = request[r].m /\ u = request[r].user
    BY <1>1, <2>1 DEF StatusOf
  <2> QED
    BY <2>1, <2>2, <2>3
<1>5. CASE JoinCommit(r)
  <2>1. request[r].pc = "join_commit"
    BY <1>5 DEF JoinCommit, At
  <2>2. request[r].m \in Meeting /\ request[r].op = "join"
    BY <1>3, <2>1 DEF HandlerSound, HasRow, Pc
  <2>3. PICK status \in Status :
          SetStatus(request[r].m, {request[r].user}, status)
    BY <1>5 DEF JoinCommit, Status
  <2>4. m = request[r].m /\ u = request[r].user
    BY <1>1, <2>2, <2>3, SetStatusFacts
  <2>5. request'[r].pc \in {"done", "publish_waiting"}
    <3>1. CASE Goto(r, "publish_waiting")
      <4>1. request'[r] = [request[r] EXCEPT !.pc = "publish_waiting"]
        BY <1>1, <3>1, GotoFacts DEF Pc
      <4> QED
        BY <1>1, <4>1 DEF HandlerState
    <3>2. CASE Answer(r, "admitted")
      BY <1>1, <3>2, AnswerFacts DEF Reply, Status
    <3> QED
      BY <1>5, <3>1, <3>2 DEF JoinCommit
  <2> QED
    BY <2>1, <2>2, <2>4, <2>5
<1>6. CASE Leave(r)
  <2>1. request[r].m \in Meeting
    BY <1>3, <1>6 DEF Leave, At, HandlerSound, HasRow, Pc
  <2>2. /\ StatusOf(request[r].m, request[r].user) \in {"admitted", "waiting"}
        /\ SetStatus(request[r].m, {request[r].user}, "left")
    BY <1>1, <1>6 DEF Leave
  <2> QED
    BY <1>1, <2>1, <2>2, SetStatusFacts DEF Status
<1>7. CASE Decide(r)
  <2>1. request[r].m \in Meeting
    BY <1>3, <1>7 DEF Decide, At, HandlerSound, HasRow, Pc
  <2>2. PICK us \in SUBSET In(request[r].m, "waiting"), status \in Status :
            SetStatus(request[r].m, us, status)
    BY <1>7 DEF Decide, Decided, Status
  <2>3. m = request[r].m /\ u \in us
    BY <1>1, <2>1, <2>2, SetStatusFacts
  <2> QED
    BY <2>2, <2>3 DEF In
<1>8. CASE UpdateCommit(r)
  <2>1. request[r].m \in Meeting
    BY <1>3, <1>8 DEF UpdateCommit, At, HandlerSound, HasRow, Pc
  <2>2. SetStatus(request[r].m, In(request[r].m, "waiting"), "admitted")
    BY <1>1, <1>8 DEF UpdateCommit
  <2>3. m = request[r].m /\ u \in In(request[r].m, "waiting")
    BY <1>1, <2>1, <2>2, SetStatusFacts DEF Status
  <2> QED
    BY <2>3 DEF In
<1> QED
  BY <1>2, <1>4, <1>5, <1>6, <1>7, <1>8

(* Who was rejected or has left comes back by a join of his own only. *)
THEOREM DecisionsStand == Spec => DecisionsAreFinal
<1> DEFINE Final ==
        \A m \in Meeting, u \in User :
            StatusOf(m, u) \in {"rejected", "left"}
                /\ StatusOf(m, u)' # StatusOf(m, u) =>
                    \E r \in Request : /\ request[r].user = u
                                       /\ request[r].op = "join"
                                       /\ request[r].m = m
                                       /\ request'[r] # request[r]
<1>1. Inv /\ [Next]_vars => [Final]_vars
  BY DecisionsStep
<1>2. Spec => [][Final]_vars
  BY <1>1, MeetingInvariant, PTL DEF Spec
<1> QED
  BY <1>2 DEF DecisionsAreFinal
=============================================================================
