----------------------------- MODULE RelaySession -----------------------------
(***************************************************************************)
(* What the relay keeps for the session of one receiver (SessionLogic in   *)
(* actix-api/src/actors/session_logic.rs, with packet_handler.rs): the     *)
(* limiter of its keyframe requests and the CongestionTracker that counts, *)
(* per sender, the packets its full outbound channel dropped.              *)
(*                                                                         *)
(* Instants are kept as their ages; a last_notify of None is one long ago. *)
(* A count of drops stops at the threshold it is compared with.            *)
(***************************************************************************)
EXTENDS RoomSessions

CONSTANTS
    CONGESTION_DROP_THRESHOLD,     \* 5 in the code
    CONGESTION_WINDOW,             \* 1000 ms
    CONGESTION_NOTIFY_MIN_INTERVAL,\* 1000 ms
    StaleThreshold,                \* CONGESTION_WINDOW * 10
    CLEANUP_INTERVAL,              \* 100
    KEYFRAME_REQUEST_MAX_PER_SEC,  \* 2
    KEYFRAME_REQUEST_WINDOW        \* 1000 ms

ASSUME CongestionAssumption ==
    /\ CONGESTION_DROP_THRESHOLD \in Nat \ {0}
    /\ CONGESTION_WINDOW \in Nat
    /\ CONGESTION_NOTIFY_MIN_INTERVAL \in Nat \ {0}
    /\ StaleThreshold \in Nat
    /\ CLEANUP_INTERVAL \in Nat \ {0}
ASSUME LimiterAssumption ==
    /\ KEYFRAME_REQUEST_MAX_PER_SEC \in Nat \ {0}
    /\ KEYFRAME_REQUEST_WINDOW \in Nat

(* The notification interval is no longer than an entry is kept. *)
ASSUME StaleAssumption ==
    /\ CONGESTION_WINDOW <= StaleThreshold
    /\ CONGESTION_NOTIFY_MIN_INTERVAL <= StaleThreshold + 1

VARIABLES
    limiter,      \* [count, window]: requests forwarded, age of window_start
    senders,      \* sender -> [drops, window, notify]
    total_drops,  \* modulo CLEANUP_INTERVAL
    forwarded,    \* history: requests forwarded in so many last ticks
    dropped,      \* history: drops of a sender in so many last ticks
    notified,     \* history: age of the last notification of a sender
    closest       \* history: least interval of two notifications of a sender

trackerVars == <<senders, total_drops, dropped, notified, closest>>
limiterVars == <<limiter, forwarded>>
relayVars == <<trackerVars, limiterVars>>

(* Twice the threshold less one: see CongestionIsReported. *)
EnoughDrops == 2 * CONGESTION_DROP_THRESHOLD - 1

(* The age of a notification that is no longer remembered. *)
LongAgo == CONGESTION_WINDOW + CONGESTION_NOTIFY_MIN_INTERVAL

RelayInit ==
    /\ limiter = [count |-> 0, window |-> 0]
    /\ senders = [s \in {} |-> 0]
    /\ total_drops = 0
    /\ forwarded = [a \in 0 .. KEYFRAME_REQUEST_WINDOW |-> 0]
    /\ dropped = [s \in Sender |-> [a \in 0 .. CONGESTION_WINDOW |-> 0]]
    /\ notified = [s \in Sender |-> LongAgo]
    /\ closest = LongAgo

-----------------------------------------------------------------------------
(* Packets from the receiver's client *)

(* KeyframeRequestLimiter::allow resets a window that has elapsed. *)
Window ==
    IF limiter.window > KEYFRAME_REQUEST_WINDOW
    THEN [count |-> 0, window |-> 0]
    ELSE limiter

Allows == Window.count < KEYFRAME_REQUEST_MAX_PER_SEC

(* handle_inbound of a KEYFRAME_REQUEST of a session that is no observer:   *)
(* it is forwarded if the limiter allows it.                                *)
HandleKeyframeRequest ==
    /\ limiter' = IF Allows THEN [Window EXCEPT !.count = @ + 1] ELSE Window
    /\ forwarded' = IF Allows
                    THEN [a \in DOMAIN forwarded |-> forwarded[a] + 1]
                    ELSE forwarded

-----------------------------------------------------------------------------
(* Packets dropped on the way to the receiver's client *)

(* Every CLEANUP_INTERVAL drops the stale entries are removed. *)
IsCleanup == (total_drops + 1) % CLEANUP_INTERVAL = 0

Kept_None == {s \in DOMAIN senders : ~IsCleanup}

Kept ==
    {s \in DOMAIN senders : IsCleanup => senders[s].window <= StaleThreshold}

(* The entry of a sender, a new one if there is none. *)
Entry(s) ==
    IF s \in Kept THEN senders[s]
    ELSE [drops |-> 0, window |-> 0, notify |-> CONGESTION_NOTIFY_MIN_INTERVAL]

(* The drop is counted, in a new window if the entry's has elapsed. *)
Counted_NotFirst(s) ==
    IF Entry(s).window > CONGESTION_WINDOW
    THEN [drops |-> 0, window |-> 0, notify |-> Entry(s).notify]
    ELSE [Entry(s) EXCEPT !.drops = Least(@ + 1, CONGESTION_DROP_THRESHOLD)]

Counted(s) ==
    IF Entry(s).window > CONGESTION_WINDOW
    THEN [drops |-> 1, window |-> 0, notify |-> Entry(s).notify]
    ELSE [Entry(s) EXCEPT !.drops = Least(@ + 1, CONGESTION_DROP_THRESHOLD)]

(* record_drop returns the sender: it is to be notified. *)
Notifies(s) ==
    /\ Counted(s).drops >= CONGESTION_DROP_THRESHOLD
    /\ Counted(s).notify >= CONGESTION_NOTIFY_MIN_INTERVAL

RecordDrop(s) ==
    /\ total_drops' = (total_drops + 1) % CLEANUP_INTERVAL
    /\ senders' =
           [t \in Kept \cup {s} |->
               IF t # s THEN senders[t]
               ELSE IF Notifies(s)
               THEN [drops |-> 0, window |-> 0, notify |-> 0]
               ELSE Counted(s)]
    /\ dropped' = [dropped EXCEPT ![s] =
                      [a \in 0 .. CONGESTION_WINDOW |->
                          Least(dropped[s][a] + 1, EnoughDrops)]]
    /\ notified' = IF Notifies(s) THEN [notified EXCEPT ![s] = 0] ELSE notified
    /\ closest' = IF Notifies(s) THEN Least(closest, notified[s]) ELSE closest

-----------------------------------------------------------------------------
(* Time *)

(* What happened in so many last ticks did so in one tick more; of the tick *)
(* that begins there is nothing yet.                                        *)
Older(history) ==
    [a \in DOMAIN history |-> IF a = 0 THEN 0 ELSE history[a - 1]]

RelayTick ==
    /\ limiter' = [limiter EXCEPT
                      !.window = Aged(@, KEYFRAME_REQUEST_WINDOW + 1)]
    /\ senders' =
           [s \in DOMAIN senders |->
               [senders[s] EXCEPT
                   !.window = Aged(@, StaleThreshold + 1),
                   !.notify = Aged(@, CONGESTION_NOTIFY_MIN_INTERVAL)]]
    /\ forwarded' = Older(forwarded)
    /\ dropped' = [s \in Sender |-> Older(dropped[s])]
    /\ notified' = [s \in Sender |-> Aged(notified[s], LongAgo)]
    /\ UNCHANGED <<total_drops, closest>>

-----------------------------------------------------------------------------
(* The session on its own: any packet may be a request, any be dropped. *)

RelayNext ==
    \/ HandleKeyframeRequest /\ UNCHANGED trackerVars
    \/ \E s \in Sender : RecordDrop(s) /\ UNCHANGED limiterVars
    \/ RelayTick

RelaySpec == RelayInit /\ [][RelayNext]_relayVars

-----------------------------------------------------------------------------
(* Properties *)

(* The type of the session's state. *)
RelayTypeOK ==
    /\ limiter \in [count : 0 .. KEYFRAME_REQUEST_MAX_PER_SEC,
                    window : 0 .. KEYFRAME_REQUEST_WINDOW + 1]
    /\ DOMAIN senders \subseteq Sender
    /\ senders \in [DOMAIN senders ->
                       [drops : 0 .. CONGESTION_DROP_THRESHOLD,
                        window : 0 .. StaleThreshold + 1,
                        notify : 0 .. CONGESTION_NOTIFY_MIN_INTERVAL]]
    /\ total_drops \in 0 .. CLEANUP_INTERVAL - 1
    /\ forwarded \in [0 .. KEYFRAME_REQUEST_WINDOW -> Nat]
    /\ dropped \in [Sender -> [0 .. CONGESTION_WINDOW -> Nat]]
    /\ notified \in [Sender -> 0 .. LongAgo]
    /\ closest \in 0 .. LongAgo

(* "The notification is rate-limited per sender session" (on_outbound_drop): *)
(* two CONGESTION notifications of a sender are never less than             *)
(* CONGESTION_NOTIFY_MIN_INTERVAL apart, although the cleanup of stale      *)
(* entries forgets when the last one was sent.                              *)
NotifySpacing == closest >= CONGESTION_NOTIFY_MIN_INTERVAL

(* Congestion is noticed wherever the windows happen to begin: when a       *)
(* sender lost 2 * CONGESTION_DROP_THRESHOLD - 1 packets within a           *)
(* CONGESTION_WINDOW (the threshold itself is not enough: the window may    *)
(* end in between), it was notified during that time, or so shortly before  *)
(* that the rate limit held the notification back.                          *)
CongestionIsReported ==
    \A s \in Sender :
        dropped[s][CONGESTION_WINDOW] >= EnoughDrops => notified[s] < LongAgo

(* The limiter counts in consecutive windows, not in "a sliding window": in *)
(* any span of a window it forwards at most twice                           *)
(* KEYFRAME_REQUEST_MAX_PER_SEC requests.                                   *)
ForwardBound ==
    forwarded[KEYFRAME_REQUEST_WINDOW] <= 2 * KEYFRAME_REQUEST_MAX_PER_SEC
=============================================================================
