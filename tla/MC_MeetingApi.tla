--------------------------- MODULE MC_MeetingApi ---------------------------
(***************************************************************************)
(* Users and requests are interchangeable.  The view leaves out what no    *)
(* step and no property reads again:                                       *)
(*  - answers (an answered request and an unused one allow the same steps) *)
(*    and what a request is about with nothing left but a read or a        *)
(*    publication (here nobody listens);                                   *)
(*  - who asks for a status, who decides, once the host was required, and  *)
(*    who toggles the waiting room, once the row is locked;                *)
(*  - which row a deletion read (soft_delete looks for it again);          *)
(*  - the state of deleted meetings, and all of those that no request is   *)
(*    about.                                                               *)
(***************************************************************************)
EXTENDS MeetingApi, TLC

Symmetry == Permutations(User) \cup Permutations(Request)

\* A request whose last step changes no row.
LastReads(q) ==
    \/ q.pc \in {"publish_waiting", "publish_decision", "get_status"}
    \/ q.pc = "decide" /\ q.op = "waiting"

Pending(q) ==
    CASE q.pc = "done" -> Idle
      [] LastReads(q) -> [Idle EXCEPT !.pc = "get_status"]
      [] q.pc = "soft_delete" -> [q EXCEPT !.m = NoMeeting]
      [] q.op = "status" \/ q.pc \in {"decide", "update_commit"} ->
             [q EXCEPT !.user = NoUser]
      [] OTHER -> q

Gone(m) ==
    meetings[m].deleted /\ \A r \in Request : Pending(request[r]).m # m

RowView(m) ==
    IF ~meetings[m].deleted
    THEN <<meetings[m], participants[m], lock[m], m \in cut>>
    ELSE IF Gone(m) THEN <<>>
    ELSE <<[meetings[m] EXCEPT !.state = "ended"], participants[m], lock[m]>>

View == <<[m \in Meeting |-> RowView(m)],
          [r \in Request |-> Pending(request[r])]>>
=============================================================================
