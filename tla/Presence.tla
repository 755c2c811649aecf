------------------------------- MODULE Presence -------------------------------
(***************************************************************************)
(* What the relay server promises the other participants of a meeting, and *)
(* ChatServer implements: how the sessions of a user follow each other and *)
(* which of these changes are announced, without the maps, messages and    *)
(* timers it takes.                                                        *)
(*                                                                         *)
(* A session is outside, or about to return in place of one that was lost  *)
(* (back), then in the meeting.  The session a user lost last, away if it  *)
(* was in the meeting and failed if it never was, is waited for; then it   *)
(* is over.                                                                *)
(***************************************************************************)
CONSTANTS Session, Identity

VARIABLES
    who,     \* the identity of a session
    stage,   \* how far it has got
    joined,  \* sessions announced as PARTICIPANT_JOINED
    left     \* sessions announced as PARTICIPANT_LEFT

presenceVars == <<who, stage, joined, left>>

Waited == {"away", "failed"}

(* The session, if any, that is waited for when s is the user's next. *)
WaitedFor(s) ==
    {t \in Session \ {s} :
        /\ stage[t] \in Waited
        /\ who[t].server = who[s].server
        /\ who[t].room = who[s].room
        /\ who[t].user = who[s].user}

PresenceInit ==
    /\ who \in [Session -> Identity]
    /\ stage = [s \in Session |-> "out"]
    /\ joined = {}
    /\ left = {}

(* The session gets to a stage, and it is over with others. *)
Moves(s, to, over) ==
    stage' = [t \in Session |-> IF t = s THEN to
                                ELSE IF t \in over THEN "over"
                                ELSE stage[t]]

(* A session takes the place of the one its user lost. *)
Return(s) ==
    /\ stage[s] = "out"
    /\ WaitedFor(s) # {}
    /\ Moves(s, "back", WaitedFor(s))
    /\ UNCHANGED <<who, joined, left>>

(* A session enters the meeting: it is announced, unless it returns or is   *)
(* an observer's.                                                           *)
Enter(s) ==
    /\ stage[s] \in {"out", "back"}
    /\ Moves(s, "in", {})
    /\ joined' = IF stage[s] = "back" \/ who[s].observer THEN joined
                 ELSE joined \cup {s}
    /\ UNCHANGED <<who, left>>

(* A participant's session is lost, and waited for in place of any other. *)
Lose(s) ==
    /\ stage[s] \in {"out", "back", "in"}
    /\ ~who[s].observer
    /\ Moves(s, IF stage[s] = "in" THEN "away" ELSE "failed", WaitedFor(s))
    /\ UNCHANGED <<who, joined, left>>

(* An observer's session is over at once and unannounced. *)
Vanish(s) ==
    /\ stage[s] \in {"out", "back", "in"}
    /\ who[s].observer
    /\ Moves(s, "over", {})
    /\ UNCHANGED <<who, joined, left>>

(* A session is no longer waited for: it is announced that it left, if it   *)
(* was in the meeting.                                                      *)
GiveUp(s) ==
    /\ stage[s] \in Waited
    /\ Moves(s, "over", {})
    /\ left' = IF stage[s] = "away" THEN left \cup {s} ELSE left
    /\ UNCHANGED <<who, joined>>

PresenceNext ==
    \E s \in Session :
        Return(s) \/ Enter(s) \/ Lose(s) \/ Vanish(s) \/ GiveUp(s)

PresenceSpec == PresenceInit /\ [][PresenceNext]_presenceVars
=============================================================================
