-------------------------- MODULE MeetingPageProofs ---------------------------
(***************************************************************************)
(* Proofs about MeetingPage: the pages keep what MeetingApiProofs shows of *)
(* the rows, now with pages that listen, lose connections and read their   *)
(* answers late, and no answer puts a page into a state it does not know.  *)
(***************************************************************************)
EXTENDS MeetingPage, MeetingApiProofs

\* The pages' part of the type invariant.
PagesOK ==
    /\ page \in [User -> PageStatus]
    /\ is_owner \in [User -> BOOLEAN]
    /\ call \in [User -> {"prejoin", "joined", "hung_up"}]
    /\ observer \in [User -> {"off", "connecting", "on"}]
    /\ room_observer \in [User -> {"off", "connecting", "on"}]
    /\ waiting_list \in [User -> SUBSET User]

\* The inductive invariant.
PageInv == Inv /\ PagesOK

\* What pages do to requests: a request that was answered, or never used, is
\* taken for a new one or forgotten.
RequestsOfPages ==
    \A r \in Request :
        \/ request'[r] = request[r]
        \/ /\ request[r].pc \in {"idle", "done"}
           /\ \/ request'[r].pc = "idle"
              \/ request'[r].pc = "lookup" /\ request'[r].user \in User
                  /\ request'[r].op \notin {"open", "close"}
              \/ request'[r].pc = "update_begin" /\ request'[r].user \in User
                  /\ request'[r].op \in {"open", "close"}

(* A page that takes an answer or sends a request disturbs no handler that  *)
(* is at work.                                                              *)
LEMMA PageStep ==
    ASSUME Inv, UNCHANGED <<dbVars, cut>>,
           listening' \subseteq User \X Event, inbox' \subseteq User \X Event,
           request' \in [Request -> HandlerState], RequestsOfPages
    PROVE  Inv'
<1>1. TypeOK'
  BY Types DEF Inv, DbInv, dbVars, TypeOK, HandlerState
<1>2. /\ meetings' = meetings /\ participants' = participants /\ lock' = lock
      /\ cut' = cut
  BY DEF dbVars
<1>3. \A r \in Request :
          request[r].pc \notin {"idle", "done"} => request'[r] = request[r]
  BY DEF RequestsOfPages
<1>4. \A r \in Request :
          request'[r].pc \notin {"idle", "lookup", "update_begin"} =>
              request'[r] = request[r]
  BY DEF RequestsOfPages
<1>5. HandlersSound'
  <2> SUFFICES ASSUME NEW r \in Request
               PROVE  HandlerSound(request[r])'
    BY DEF HandlersSound
  <2>1. CASE request'[r] = request[r]
    BY <1>2, <2>1 DEF Inv, DbInv, HandlersSound, HandlerSound
  <2>2. CASE request'[r] # request[r]
    BY <2>2 DEF RequestsOfPages, HandlerSound, HasRow
  <2> QED
    BY <2>1, <2>2
<1>6. LockIsInside'
  <2> SUFFICES ASSUME NEW m \in Meeting, lock[m] # NoRequest
               PROVE  /\ request'[lock[m]].m = m
                      /\ request'[lock[m]].pc \in InTransaction
    BY <1>2 DEF LockIsInside
  <2>1. /\ lock[m] \in Request /\ request[lock[m]].m = m
        /\ request[lock[m]].pc \in InTransaction
    BY Types DEF Inv, DbInv, LockIsInside, InTransaction
  <2> QED
    BY <1>3, <2>1 DEF InTransaction
<1>7. TransactionHoldsLock' /\ SeenIsCurrent'
  BY <1>2, <1>4
  DEF Inv, DbInv, TransactionHoldsLock, SeenIsCurrent, InTransaction
<1>8. NobodyWaits' /\ CreatorsExist' /\ UnusedIsEmpty' /\ OneLiveMeeting'
  BY <1>2 DEF Inv, DbInv, NobodyWaits, CreatorsExist, UnusedIsEmpty,
              OneLiveMeeting, Unused, Live, StatusOf
<1>9. ActiveHasHost'
  BY <1>2, <1>3 DEF Inv, ActiveHasHost, Live, StatusOf, Halfway
<1> QED
  BY <1>1, <1>5, <1>6, <1>7, <1>8, <1>9 DEF Inv, DbInv

(* A page's request is one of the requests, and its two are different. *)
LEMMA PageReqFacts ==
    ASSUME NEW u \in User
    PROVE  /\ PageReq(u) \in Request /\ PollReq(u) \in Request
           /\ PageReq(u) # PollReq(u)
BY PageAssumption DEF PageReq, PollReq

(* Forgetting an answer. *)
LEMMA ReleaseFacts ==
    ASSUME request \in [Request -> HandlerState], NEW r \in Request,
           At(r, "done"), Release(r)
    PROVE  request' \in [Request -> HandlerState] /\ RequestsOfPages
<1>1. Idle \in HandlerState /\ Idle.pc = "idle"
  BY DEF Idle, HandlerState, Ops, Pc, Reply
<1> QED
  BY <1>1 DEF Release, RequestsOfPages, At

(* A request that starts by reading the meeting's row. *)
LEMMA LookupRequest ==
    ASSUME request \in [Request -> HandlerState], NEW r \in Request,
           request[r].pc \in {"idle", "done"},
           NEW u \in User, NEW op \in Ops \ {"open", "close"},
           request' = [request EXCEPT ![r] =
               [Idle EXCEPT !.op = op, !.user = u, !.pc = "lookup"]]
    PROVE  request' \in [Request -> HandlerState] /\ RequestsOfPages
<1> DEFINE new == [Idle EXCEPT !.op = op, !.user = u, !.pc = "lookup"]
<1>1. /\ new \in HandlerState /\ new.pc = "lookup" /\ new.user = u
      /\ new.op = op
  BY DEF Idle, HandlerState, Pc, Reply
<1> HIDE DEF new
<1>2. request' = [request EXCEPT ![r] = new]
  BY DEF new
<1> QED
  BY <1>1, <1>2 DEF RequestsOfPages

(* What a page listens to are events, and what a page that changes its     *)
(* connections has still to receive it had to receive before.              *)
LEMMA ListenFacts ==
    ASSUME listening \subseteq User \X Event, inbox \subseteq User \X Event,
           NEW u \in User, NEW o, NEW ro, NEW joined,
           Listen(u, Hears(u, o, ro, joined))
    PROVE  listening' \subseteq User \X Event /\ inbox' \subseteq User \X Event
<1>1. Hears(u, o, ro, joined) \subseteq User \X Event
  BY DEF Hears
<1>2. /\ listening' \subseteq listening \cup Hears(u, o, ro, joined)
      /\ inbox' \subseteq inbox
  BY DEF Listen
<1> QED
  BY <1>1, <1>2

(* A page that shows another status has statuses, connections, a call and  *)
(* a list of their types.                                                  *)
LEMMA ShowFacts ==
    ASSUME PagesOK, listening \subseteq User \X Event,
           inbox \subseteq User \X Event,
           NEW u \in User, NEW p \in PageStatus,
           NEW o \in {"off", "connecting", "on"},
           NEW ro \in {"off", "connecting", "on"}, Show(u, p, o, ro)
    PROVE  /\ page' \in [User -> PageStatus]
           /\ observer' \in [User -> {"off", "connecting", "on"}]
           /\ room_observer' \in [User -> {"off", "connecting", "on"}]
           /\ call' \in [User -> {"prejoin", "joined", "hung_up"}]
           /\ waiting_list' \in [User -> SUBSET User]
           /\ listening' \subseteq User \X Event
           /\ inbox' \subseteq User \X Event
<1> DEFINE c == IF p = "admitted" THEN call[u] ELSE "prejoin"
<1>1. Listen(u, Hears(u, o, ro, c = "joined"))
  BY DEF Show
<1>2. listening' \subseteq User \X Event /\ inbox' \subseteq User \X Event
  BY <1>1, ListenFacts
<1>3. /\ page' \in [User -> PageStatus]
      /\ observer' \in [User -> {"off", "connecting", "on"}]
      /\ room_observer' \in [User -> {"off", "connecting", "on"}]
  BY DEF Show, PagesOK
<1>4. call' \in [User -> {"prejoin", "joined", "hung_up"}]
  <2>1. c \in {"prejoin", "joined", "hung_up"}
    BY DEF PagesOK
  <2> QED
    BY <2>1 DEF Show, PagesOK
<1>5. waiting_list' \in [User -> SUBSET User]
  <2>1. PICK us \in SUBSET User :
            waiting_list' = [waiting_list EXCEPT ![u] = us]
    BY DEF Show, PagesOK
  <2> QED
    BY <2>1 DEF PagesOK
<1> QED
  BY <1>2, <1>3, <1>4, <1>5

(* Entering the meeting and showing another status keep the pages' types. *)
LEMMA EnterFacts ==
    ASSUME PagesOK, listening \subseteq User \X Event,
           inbox \subseteq User \X Event, NEW u \in User,
           NEW owner \in BOOLEAN, Enter(u, owner)
    PROVE  /\ PagesOK'
           /\ listening' \subseteq User \X Event
           /\ inbox' \subseteq User \X Event
<1>1. "admitted" \in PageStatus /\ Show(u, "admitted", "off", "off")
  BY DEF Enter, PageStatus
<1>2. is_owner' \in [User -> BOOLEAN]
  BY DEF Enter, PagesOK
<1> QED
  BY <1>1, <1>2, ShowFacts DEF PagesOK

(* So does showing another status. *)
LEMMA ShowStatusFacts ==
    ASSUME PagesOK, listening \subseteq User \X Event,
           inbox \subseteq User \X Event,
           NEW u \in User, NEW p \in PageStatus,
           NEW o \in {"off", "connecting", "on"},
           NEW ro \in {"off", "connecting", "on"}, ShowStatus(u, p, o, ro)
    PROVE  /\ PagesOK'
           /\ listening' \subseteq User \X Event
           /\ inbox' \subseteq User \X Event
<1>1. Show(u, p, o, ro) /\ UNCHANGED is_owner
  BY DEF ShowStatus
<1> QED
  BY <1>1, ShowFacts DEF PagesOK

(* Leaving the page. *)
LEMMA CloseFacts ==
    ASSUME PagesOK, listening \subseteq User \X Event,
           inbox \subseteq User \X Event, NEW u \in User, Close(u)
    PROVE  /\ PagesOK'
           /\ listening' \subseteq User \X Event
           /\ inbox' \subseteq User \X Event
<1>1. "closed" \in PageStatus /\ Show(u, "closed", "off", "off")
  BY DEF Close, PageStatus
<1>2. is_owner' \in [User -> BOOLEAN]
  BY DEF Close, PagesOK
<1> QED
  BY <1>1, <1>2, ShowFacts DEF PagesOK

-----------------------------------------------------------------------------
(* What the invariant says of the variables the pages share with the server. *)
LEMMA PageTypes ==
    ASSUME PageInv
    PROVE  /\ Inv /\ PagesOK
           /\ request \in [Request -> HandlerState]
           /\ listening \subseteq User \X Event
           /\ inbox \subseteq User \X Event
BY Types DEF PageInv, Inv, DbInv

(* An answer that changes what the page shows. *)
LEMMA ShownAnswer ==
    ASSUME PageInv, NEW u \in User,
           \/ JoinAnswered(u) \/ RejoinAnswered(u) \/ StatusAnswered(u)
    PROVE  PageInv'
<1>1. /\ Inv /\ PagesOK
      /\ request \in [Request -> HandlerState]
      /\ listening \subseteq User \X Event
      /\ inbox \subseteq User \X Event
  BY PageTypes
<1>2. PICK r \in Request : At(r, "done") /\ Release(r)
  BY PageReqFacts DEF JoinAnswered, RejoinAnswered, StatusAnswered, Answered
<1>3. request' \in [Request -> HandlerState] /\ RequestsOfPages
  BY <1>1, <1>2, ReleaseFacts
<1>4. UNCHANGED <<dbVars, cut>>
  BY DEF JoinAnswered, RejoinAnswered, StatusAnswered
<1>5. Observe(room_observer[u]) \in {"off", "connecting", "on"}
  BY <1>1 DEF Observe, PagesOK
<1>6. \/ \E owner \in BOOLEAN : Enter(u, owner)
      \/ \E p \in PageStatus, o \in {"off", "connecting", "on"},
            ro \in {"off", "connecting", "on"} : ShowStatus(u, p, o, ro)
      \/ UNCHANGED <<pageVars, listening, inbox>>
  <2>1. CASE JoinAnswered(u)
    <3> DEFINE reply == request[PageReq(u)].reply
    <3>1. CASE reply \in {"admitted", "host"}
      BY <2>1, <3>1 DEF JoinAnswered
    <3>2. CASE reply = "waiting_for_meeting"
      BY <2>1, <3>2 DEF JoinAnswered, PageStatus
    <3>3. CASE reply = "waiting"
      BY <2>1, <3>3 DEF JoinAnswered, PageStatus
    <3>4. CASE reply \notin {"admitted", "host", "waiting_for_meeting",
                             "waiting"}
      BY <2>1, <3>4 DEF JoinAnswered, PageStatus
    <3> QED
      BY <3>1, <3>2, <3>3, <3>4
  <2>2. CASE RejoinAnswered(u)
    <3> DEFINE reply == request[PageReq(u)].reply
    <3>1. CASE reply \in {"admitted", "host"}
      BY <2>2, <3>1 DEF RejoinAnswered
    <3>2. CASE reply = "waiting"
      BY <1>5, <2>2, <3>2 DEF RejoinAnswered, PageStatus
    <3>3. CASE reply \notin {"admitted", "host", "waiting"}
      BY <2>2, <3>3 DEF RejoinAnswered, PageStatus
    <3> QED
      BY <3>1, <3>2, <3>3
  <2>3. CASE StatusAnswered(u)
    <3> DEFINE reply == request[PollReq(u)].reply
    <3>1. CASE reply = "admitted"
      BY <2>3, <3>1 DEF StatusAnswered
    <3>2. CASE reply = "rejected"
      BY <2>3, <3>2 DEF StatusAnswered, PageStatus
    <3>3. CASE reply \notin {"admitted", "rejected"}
      BY <2>3, <3>3 DEF StatusAnswered
    <3> QED
      BY <3>1, <3>2, <3>3
  <2> QED
    BY <2>1, <2>2, <2>3
<1>7. /\ PagesOK' /\ listening' \subseteq User \X Event
      /\ inbox' \subseteq User \X Event
  <2>1. CASE \E owner \in BOOLEAN : Enter(u, owner)
    BY <1>1, <2>1, EnterFacts
  <2>2. CASE \E p \in PageStatus, o \in {"off", "connecting", "on"},
                ro \in {"off", "connecting", "on"} : ShowStatus(u, p, o, ro)
    BY <1>1, <2>2, ShowStatusFacts
  <2>3. CASE UNCHANGED <<pageVars, listening, inbox>>
    BY <1>1, <2>3 DEF PagesOK, pageVars
  <2> QED
    BY <1>6, <2>1, <2>2, <2>3
<1> QED
  BY <1>1, <1>3, <1>4, <1>7, PageStep DEF PageInv

(* The other answers: to the menu, to a departure, the list of those who    *)
(* wait, and answers nobody reads any more.                                 *)
LEMMA OtherAnswer ==
    ASSUME PageInv, NEW u \in User,
           \/ WaitingAnswered(u) \/ MenuAnswered(u) \/ LeaveAnswered(u)
           \/ Unread(u, PageReq(u)) \/ Unread(u, PollReq(u))
    PROVE  PageInv'
<1>1. /\ Inv /\ PagesOK
      /\ request \in [Request -> HandlerState]
      /\ listening \subseteq User \X Event
      /\ inbox \subseteq User \X Event
  BY PageTypes
<1>2. PICK r \in Request : At(r, "done") /\ Release(r)
  BY PageReqFacts DEF WaitingAnswered, MenuAnswered, LeaveAnswered, Unread,
                      Answered
<1>3. request' \in [Request -> HandlerState] /\ RequestsOfPages
  BY <1>1, <1>2, ReleaseFacts
<1>4. UNCHANGED <<dbVars, cut>>
  BY DEF WaitingAnswered, MenuAnswered, LeaveAnswered, Unread
<1>5. /\ PagesOK' /\ listening' \subseteq User \X Event
      /\ inbox' \subseteq User \X Event
  <2>1. CASE WaitingAnswered(u)
    <3>1. request[PollReq(u)].target \in SUBSET User
      BY <1>1, PageReqFacts DEF HandlerState
    <3>2. PICK us \in SUBSET User :
              waiting_list' = [waiting_list EXCEPT ![u] = us]
      <4>1. waiting_list[u] \in SUBSET User
        BY <1>1 DEF PagesOK
      <4>2. CASE request[PollReq(u)].reply = "ok"
        BY <2>1, <3>1, <4>2 DEF WaitingAnswered
      <4>3. CASE request[PollReq(u)].reply = "not_found"
        BY <2>1, <4>3 DEF WaitingAnswered
      <4>4. CASE request[PollReq(u)].reply \notin {"ok", "not_found"}
        BY <2>1, <4>1, <4>4 DEF WaitingAnswered
      <4> QED
        BY <4>2, <4>3, <4>4
    <3>3. UNCHANGED <<listening, inbox, page, is_owner, call, observer,
                      room_observer>>
      BY <2>1 DEF WaitingAnswered
    <3> QED
      BY <1>1, <3>2, <3>3 DEF PagesOK
  <2>2. CASE LeaveAnswered(u)
    BY <1>1, <2>2, CloseFacts DEF LeaveAnswered
  <2>3. CASE MenuAnswered(u) \/ Unread(u, PageReq(u)) \/ Unread(u, PollReq(u))
    BY <1>1, <2>3 DEF MenuAnswered, Unread, PagesOK, pageVars
  <2> QED
    BY <2>1, <2>2, <2>3
<1> QED
  BY <1>1, <1>3, <1>4, <1>5, PageStep DEF PageInv

(* The answer to a decision is followed by a request for the list. *)
LEMMA DecisionAnswer ==
    ASSUME PageInv, NEW u \in User, DecisionAnswered(u)
    PROVE  PageInv'
<1>1. /\ Inv /\ PagesOK
      /\ request \in [Request -> HandlerState]
      /\ listening \subseteq User \X Event
      /\ inbox \subseteq User \X Event
  BY PageTypes
<1> DEFINE new == [Idle EXCEPT !.op = "waiting", !.user = u, !.pc = "lookup"]
<1>2. /\ new \in HandlerState /\ new.pc = "lookup" /\ new.user = u
      /\ new.op = "waiting" /\ Idle \in HandlerState /\ Idle.pc = "idle"
  BY DEF Idle, HandlerState, Pc, Reply, Ops
<1> HIDE DEF new
<1>3. PICK r \in Request, q \in Request :
          /\ request[r].pc = "done" /\ request[q].pc = "idle" /\ r # q
          /\ request' = [request EXCEPT ![r] = Idle, ![q] = new]
  BY PageReqFacts DEF DecisionAnswered, At, Free, new
<1>4. request' \in [Request -> HandlerState] /\ RequestsOfPages
  BY <1>1, <1>2, <1>3 DEF RequestsOfPages
<1>5. UNCHANGED <<dbVars, listening, inbox, cut, pageVars>>
  BY DEF DecisionAnswered
<1> QED
  BY <1>1, <1>4, <1>5, PageStep DEF PageInv, PagesOK, pageVars

(* Requests the user or a timer sends. *)
LEMMA SentRequest ==
    ASSUME PageInv, NEW u \in User,
           \/ Open(u) \/ Poll(u) \/ ClickLeave(u)
           \/ \E op \in {"open", "close", "end", "delete"} : HostMenu(u, op)
           \/ \E op \in Offered \cap {"admit", "reject", "admit_all"} :
                  \E us \in SUBSET waiting_list[u] : ClickDecision(u, op, us)
    PROVE  PageInv'
<1>1. Inv /\ PagesOK
  BY PageTypes
<1>2. PICK r \in Request, op \in Ops, target \in SUBSET User :
          Submit(r, u, op, target)
  BY <1>1, PageReqFacts
  DEF Open, Poll, ClickLeave, HostMenu, ClickDecision, Ops, PagesOK
<1>3. Inv'
  BY <1>1, <1>2, SubmitInv
<1>4. PagesOK'
  <2>1. CASE Open(u)
    BY <1>1, <2>1 DEF Open, PagesOK, PageStatus
  <2>2. CASE UNCHANGED pageVars
    BY <1>1, <2>2 DEF PagesOK, pageVars
  <2>3. CASE \E us \in SUBSET waiting_list[u] :
                 /\ waiting_list' = [waiting_list EXCEPT ![u] = @ \ us]
                 /\ UNCHANGED <<page, is_owner, call, observer, room_observer>>
    BY <1>1, <2>3 DEF PagesOK
  <2> QED
    BY <2>1, <2>2, <2>3 DEF Poll, ClickLeave, HostMenu, ClickDecision
<1> QED
  BY <1>3, <1>4 DEF PageInv

(* What connections do: they come up, and events arrive on them. *)
LEMMA ConnectionStep ==
    ASSUME PageInv, NEW u \in User,
           \/ MeetingActivated(u) \/ \E event \in Event : DecisionPush(u, event)
           \/ ObserverConnected(u) \/ RoomObserverConnected(u)
           \/ JoinCall(u) \/ FetchWaiting(u) \/ HangUp(u) \/ GoAway(u)
    PROVE  PageInv'
<1>1. /\ Inv /\ PagesOK
      /\ request \in [Request -> HandlerState]
      /\ listening \subseteq User \X Event
      /\ inbox \subseteq User \X Event
  BY PageTypes
<1>2. UNCHANGED <<dbVars, cut>>
  BY DEF MeetingActivated, DecisionPush, ObserverConnected,
         RoomObserverConnected, JoinCall, FetchWaiting, HangUp, GoAway
<1>3. request' \in [Request -> HandlerState] /\ RequestsOfPages
  <2>1. CASE UNCHANGED request
    BY <1>1, <2>1 DEF RequestsOfPages
  <2>2. CASE \E r \in Request, op \in Ops \ {"open", "close"} :
                 /\ request[r].pc \in {"idle", "done"}
                 /\ request' = [request EXCEPT ![r] =
                        [Idle EXCEPT !.op = op, !.user = u, !.pc = "lookup"]]
    BY <1>1, <2>2, LookupRequest
  <2> QED
    BY <2>1, <2>2, PageReqFacts
    DEF MeetingActivated, DecisionPush, ObserverConnected,
        RoomObserverConnected, JoinCall, FetchWaiting, HangUp, GoAway, Free,
        At, Ops
<1>4. /\ PagesOK' /\ listening' \subseteq User \X Event
      /\ inbox' \subseteq User \X Event
  <2>1. /\ page[u] \in PageStatus /\ observer[u] \in {"off", "connecting", "on"}
        /\ room_observer[u] \in {"off", "connecting", "on"}
    BY <1>1 DEF PagesOK
  <2>2. CASE GoAway(u)
    BY <1>1, <2>2, CloseFacts DEF GoAway
  <2>3. CASE \E p \in PageStatus, o \in {"off", "connecting", "on"},
                ro \in {"off", "connecting", "on"} : ShowStatus(u, p, o, ro)
    BY <1>1, <2>3, ShowStatusFacts
  <2>4. CASE UNCHANGED <<listening, pageVars>> /\ inbox' \subseteq inbox
    BY <1>1, <2>4 DEF PagesOK, pageVars
  <2>5. CASE MeetingActivated(u) \/ ObserverConnected(u)
                 \/ RoomObserverConnected(u)
    BY <2>1, <2>3, <2>5
    DEF MeetingActivated, ObserverConnected, RoomObserverConnected
  <2>6. CASE FetchWaiting(u)
    BY <2>4, <2>6 DEF FetchWaiting
  <2>7. CASE \E event \in Event : DecisionPush(u, event)
    BY <2>3, <2>4, <2>7 DEF DecisionPush, PageStatus
  <2>8. CASE JoinCall(u) \/ HangUp(u)
    <3>1. PICK joined \in BOOLEAN :
              Listen(u, Hears(u, observer[u], room_observer[u], joined))
      BY <2>8 DEF JoinCall, HangUp
    <3>2. listening' \subseteq User \X Event /\ inbox' \subseteq User \X Event
      BY <1>1, <3>1, ListenFacts
    <3>3. PagesOK'
      BY <1>1, <2>8 DEF JoinCall, HangUp, PagesOK
    <3> QED
      BY <3>2, <3>3
  <2> QED
    BY <2>2, <2>5, <2>6, <2>7, <2>8
<1> QED
  BY <1>1, <1>2, <1>3, <1>4, PageStep DEF PageInv

-----------------------------------------------------------------------------
(* Every step of the server or a page keeps the invariant. *)
LEMMA PageInvStep == PageInv /\ [PageNext]_allVars => PageInv'
<1> SUFFICES ASSUME PageInv, [PageNext]_allVars
             PROVE  PageInv'
  OBVIOUS
<1>1. Inv /\ PagesOK
  BY DEF PageInv
<1>2. ASSUME NEW r \in Request, ServerStep(r)
      PROVE  PageInv'
  BY <1>1, <1>2, HandlerInv DEF ServerStep, PageInv, PagesOK, pageVars
<1>3. ASSUME NEW u \in User, CreateByHost(u)
      PROVE  PageInv'
  BY <1>1, <1>3, CreateMeetingInv DEF CreateByHost, PageInv, PagesOK, pageVars
<1>4. ASSUME NEW u \in User, Handler(u)
      PROVE  PageInv'
  BY <1>4, ShownAnswer, OtherAnswer, DecisionAnswer DEF Handler
<1>5. CASE UNCHANGED allVars
  <2>1. UNCHANGED vars /\ UNCHANGED pageVars
    BY <1>5 DEF allVars
  <2>2. Inv'
    BY <1>1, <2>1, InvStep
  <2> QED
    BY <1>1, <2>1, <2>2 DEF PageInv, PagesOK, pageVars
<1> QED
  BY <1>2, <1>3, <1>4, <1>5, SentRequest, ConnectionStep DEF PageNext

(* The invariant of the server's rows and of the pages holds in every state. *)
THEOREM PageInvariant == PageSpec => []PageInv
<1>1. PageInit => PageInv
  BY InvInit DEF PageInit, PageInv, PagesOK, PageStatus
<1> QED
  BY <1>1, PageInvStep, PTL DEF PageSpec

(* No answer, however late, leaves a page in a state it does not know. *)
THEOREM PagesKeepTypes == PageSpec => []PageTypeOK
<1>1. PageInv => PageTypeOK
  BY DEF PageInv, Inv, DbInv, PagesOK, PageTypeOK
<1> QED
  BY <1>1, PageInvariant, PTL

(* With pages that listen and retry, too, a room has one live meeting at    *)
(* most, nobody is left waiting where there is no waiting room, and an      *)
(* active meeting has its host.                                             *)
THEOREM PagesKeepMeetings ==
    PageSpec => [](OneLiveMeeting /\ NobodyWaitsOutside /\ ActiveHasHost)
<1>1. PageInv => OneLiveMeeting /\ NobodyWaitsOutside /\ ActiveHasHost
  BY DEF PageInv, Inv, DbInv, NobodyWaits, NobodyWaitsOutside, Live, In
<1> QED
  BY <1>1, PageInvariant, PTL
=============================================================================
