---------------------------- MODULE FeedbackProofs ----------------------------
(***************************************************************************)
(* Proofs about the relay's session (RelaySession) and about MediaFeedback,*)
(* where clients, losses and delays drive it, for any number of senders    *)
(* and any windows and thresholds that satisfy the assumptions.            *)
(*                                                                         *)
(* The session: the notifications of a sender are rate-limited, congestion *)
(* is reported, and forwarded requests are bounded.  None of these is      *)
(* inductive.  The cleanup of stale entries forgets when a sender was last *)
(* notified; RecentIsKept says that an entry whose notification is recent  *)
(* is not stale.  DropsAreCounted and WindowCounts relate what a window    *)
(* counts to what happened in each number of last ticks: a window that has *)
(* elapsed holds everything that is still recent.                          *)
(*                                                                         *)
(* The whole implements its session, so that these hold in it, too.  The   *)
(* client's peers are sound in it, because a peer that is not active was   *)
(* silent for one check more than it has missed (SilenceCounts).           *)
(***************************************************************************)
EXTENDS MediaFeedback, TLAPS

(* The entry of a sender that was notified recently is there and knows when *)
(* (record_drop).                                                           *)
RecentIsKept ==
    \A s \in Sender :
        notified[s] < CONGESTION_NOTIFY_MIN_INTERVAL =>
            /\ s \in DOMAIN senders
            /\ senders[s].notify = notified[s]
            /\ senders[s].window <= notified[s]

SpacingInv == RelayTypeOK /\ RecentIsKept /\ NotifySpacing

-----------------------------------------------------------------------------
(* Ages *)

(* An age, limited or not, stays within its limit (Aged). *)
LEMMA AgedType ==
    ASSUME NEW limit \in Nat, NEW age \in 0 .. limit
    PROVE  Aged(age, limit) \in 0 .. limit
BY DEF Aged, Least

(* The history of the last ticks is one again when it is a tick older. *)
LEMMA OlderType ==
    ASSUME NEW limit \in Nat, NEW history \in [0 .. limit -> Nat]
    PROVE  Older(history) \in [0 .. limit -> Nat]
BY DEF Older

-----------------------------------------------------------------------------
(* The entry of a sender *)

Item == [drops : 0 .. CONGESTION_DROP_THRESHOLD,
         window : 0 .. StaleThreshold + 1,
         notify : 0 .. CONGESTION_NOTIFY_MIN_INTERVAL]

(* What record_drop makes of an entry is an entry. *)
LEMMA CountedType ==
    ASSUME RelayTypeOK, NEW s \in Sender
    PROVE  /\ Entry(s) \in Item
           /\ Counted(s) \in Item
           /\ Counted(s).notify = Entry(s).notify
           /\ Counted(s).window <= Entry(s).window
<1>1. Entry(s) \in Item
  BY CongestionAssumption DEF RelayTypeOK, Entry, Item, Kept
<1>2. /\ Entry(s).drops \in 0 .. CONGESTION_DROP_THRESHOLD
      /\ Entry(s).window \in 0 .. StaleThreshold + 1
      /\ Entry(s).notify \in 0 .. CONGESTION_NOTIFY_MIN_INTERVAL
  BY <1>1 DEF Item
<1>3. Least(Entry(s).drops + 1, CONGESTION_DROP_THRESHOLD)
          \in 0 .. CONGESTION_DROP_THRESHOLD
  BY <1>2, CongestionAssumption DEF Least
<1>4. CASE Entry(s).window > CONGESTION_WINDOW
  BY <1>1, <1>2, <1>4, CongestionAssumption DEF Counted, Item
<1>5. CASE ~(Entry(s).window > CONGESTION_WINDOW)
  <2>1. Counted(s) =
            [drops |-> Least(Entry(s).drops + 1, CONGESTION_DROP_THRESHOLD),
             window |-> Entry(s).window, notify |-> Entry(s).notify]
    BY <1>1, <1>5 DEF Counted, Item
  <2> QED
    BY <1>1, <1>2, <1>3, <2>1, CongestionAssumption DEF Item
<1> QED
  BY <1>4, <1>5

(* The cleanup removes no entry of a sender that was notified recently, so  *)
(* it is notified again only when the interval has passed.                  *)
LEMMA RecentEntry ==
    ASSUME SpacingInv, NEW s \in Sender,
           notified[s] < CONGESTION_NOTIFY_MIN_INTERVAL
    PROVE  /\ s \in Kept
           /\ ~Notifies(s)
<1>1. /\ s \in DOMAIN senders
      /\ senders[s].notify = notified[s]
      /\ senders[s].window <= notified[s]
  BY DEF SpacingInv, RecentIsKept
<1>2. senders[s].window \in Nat /\ notified[s] \in Nat
  BY <1>1, CongestionAssumption DEF SpacingInv, RelayTypeOK, LongAgo
<1>3. senders[s].window <= StaleThreshold
  BY <1>1, <1>2, CongestionAssumption, StaleAssumption
<1>4. s \in Kept
  BY <1>1, <1>3 DEF Kept
<1>5. Counted(s).notify = notified[s]
  BY <1>1, <1>4, CountedType DEF SpacingInv, Entry
<1> QED
  BY <1>2, <1>4, <1>5, CongestionAssumption DEF Notifies

-----------------------------------------------------------------------------
(* Steps *)

(* A keyframe request only concerns the limiter (KeyframeRequestLimiter). *)
LEMMA RequestStep ==
    ASSUME SpacingInv, HandleKeyframeRequest, UNCHANGED trackerVars
    PROVE  SpacingInv'
<1>1. limiter' \in [count : 0 .. KEYFRAME_REQUEST_MAX_PER_SEC,
                    window : 0 .. KEYFRAME_REQUEST_WINDOW + 1]
  <2> DEFINE Limiter == [count : 0 .. KEYFRAME_REQUEST_MAX_PER_SEC,
                         window : 0 .. KEYFRAME_REQUEST_WINDOW + 1]
  <2>1. Window \in Limiter
    BY LimiterAssumption DEF SpacingInv, RelayTypeOK, Window
  <2>2. CASE Allows
    <3>1. Window.count + 1 \in 0 .. KEYFRAME_REQUEST_MAX_PER_SEC
      BY <2>1, <2>2, LimiterAssumption DEF Allows
    <3>2. limiter' = [count |-> Window.count + 1, window |-> Window.window]
      BY <2>1, <2>2 DEF HandleKeyframeRequest
    <3> QED
      BY <2>1, <3>1, <3>2
  <2>3. CASE ~Allows
    BY <2>1, <2>3 DEF HandleKeyframeRequest
  <2> QED
    BY <2>2, <2>3
<1>2. forwarded' \in [0 .. KEYFRAME_REQUEST_WINDOW -> Nat]
  BY LimiterAssumption DEF SpacingInv, RelayTypeOK, HandleKeyframeRequest
<1> QED
  BY <1>1, <1>2
     DEF SpacingInv, RelayTypeOK, RecentIsKept, NotifySpacing, trackerVars

(* A drop (record_drop): the invariant survives the cleanup it may start. *)
LEMMA DropStep ==
    ASSUME SpacingInv, NEW s \in Sender, RecordDrop(s), UNCHANGED limiterVars
    PROVE  SpacingInv'
<1> USE CongestionAssumption
<1>1. RelayTypeOK
  BY DEF SpacingInv
<1>2. /\ DOMAIN senders' = Kept \cup {s}
      /\ \A t \in Kept \ {s} : senders'[t] = senders[t]
      /\ senders'[s] = IF Notifies(s)
                       THEN [drops |-> 0, window |-> 0, notify |-> 0]
                       ELSE Counted(s)
  BY DEF RecordDrop
<1>3. Kept \subseteq DOMAIN senders
  BY DEF Kept
<1>4. LongAgo \in Nat /\ CONGESTION_NOTIFY_MIN_INTERVAL <= LongAgo
  BY DEF LongAgo
<1>5. RelayTypeOK'
  <2>1. senders'[s] \in Item
    BY <1>1, <1>2, CountedType, StaleAssumption DEF Item
  <2>2. DOMAIN senders' \subseteq Sender
    BY <1>1, <1>2, <1>3 DEF RelayTypeOK
  <2>3. \A t \in Kept \ {s} : senders'[t] \in Item
    BY <1>1, <1>2, <1>3 DEF RelayTypeOK, Item
  <2>4. senders' = [t \in DOMAIN senders' |-> senders'[t]]
    BY <1>2 DEF RecordDrop
  <2>5. senders' \in [DOMAIN senders' -> Item]
    BY <1>2, <2>1, <2>3, <2>4
  <2>6. total_drops' \in 0 .. CLEANUP_INTERVAL - 1
    BY <1>1 DEF RelayTypeOK, RecordDrop
  <2>7. dropped' \in [Sender -> [0 .. CONGESTION_WINDOW -> Nat]]
    <3>1. ASSUME NEW a \in 0 .. CONGESTION_WINDOW
          PROVE  Least(dropped[s][a] + 1, EnoughDrops) \in Nat
      <4>1. dropped[s][a] \in Nat
        BY <1>1 DEF RelayTypeOK
      <4>2. EnoughDrops \in Nat
        BY CongestionAssumption DEF EnoughDrops
      <4> QED
        BY <4>1, <4>2 DEF Least
    <3>2. [a \in 0 .. CONGESTION_WINDOW |->
              Least(dropped[s][a] + 1, EnoughDrops)]
              \in [0 .. CONGESTION_WINDOW -> Nat]
      BY <3>1
    <3> QED
      BY <1>1, <3>2 DEF RelayTypeOK, RecordDrop
  <2>8. notified' \in [Sender -> 0 .. LongAgo]
    BY <1>1, <1>4 DEF RelayTypeOK, RecordDrop
  <2>9. closest' \in 0 .. LongAgo
    BY <1>1, <1>4 DEF RelayTypeOK, RecordDrop, Least
  <2> QED
    BY <1>1, <2>2, <2>5, <2>6, <2>7, <2>8, <2>9
       DEF RelayTypeOK, Item, limiterVars
<1>6. RecentIsKept'
  <2> SUFFICES ASSUME NEW t \in Sender,
                      notified'[t] < CONGESTION_NOTIFY_MIN_INTERVAL
               PROVE  /\ t \in DOMAIN senders'
                      /\ senders'[t].notify = notified'[t]
                      /\ senders'[t].window <= notified'[t]
    BY DEF RecentIsKept
  <2>1. CASE t = s /\ Notifies(s)
    BY <1>1, <1>2, <2>1 DEF RecordDrop, RelayTypeOK
  <2>2. CASE ~(t = s /\ Notifies(s))
    <3>1. notified'[t] = notified[t]
      BY <1>1, <2>2 DEF RecordDrop, RelayTypeOK
    <3>2. t \in Kept
      BY <3>1, RecentEntry
    <3>3. /\ senders[t].notify = notified[t]
          /\ senders[t].window <= notified[t]
      BY <3>1 DEF SpacingInv, RecentIsKept
    <3>4. CASE t # s
      BY <1>2, <3>1, <3>2, <3>3, <3>4
    <3>5. CASE t = s
      <4>1. senders'[s] = Counted(s) /\ Entry(s) = senders[s]
        BY <1>2, <2>2, <3>2, <3>5 DEF Entry
      <4>2. /\ Counted(s).notify = Entry(s).notify
            /\ Counted(s).window <= Entry(s).window
            /\ Counted(s).window \in Nat /\ Entry(s).window \in Nat
        BY <1>1, CountedType, StaleAssumption DEF Item
      <4>3. notified[s] \in Nat
        BY <1>1, <1>4 DEF RelayTypeOK
      <4> QED
        BY <1>2, <3>1, <3>3, <3>5, <4>1, <4>2, <4>3
    <3> QED
      BY <3>4, <3>5
  <2> QED
    BY <2>1, <2>2
<1>7. NotifySpacing'
  <2>1. CASE Notifies(s)
    <3>1. ~(notified[s] < CONGESTION_NOTIFY_MIN_INTERVAL)
      BY <2>1, RecentEntry
    <3>2. notified[s] \in Nat /\ closest \in Nat
      BY <1>1, <1>4 DEF RelayTypeOK
    <3> QED
      BY <2>1, <3>1, <3>2 DEF RecordDrop, NotifySpacing, SpacingInv, Least
  <2>2. CASE ~Notifies(s)
    BY <2>2 DEF RecordDrop, NotifySpacing, SpacingInv
  <2> QED
    BY <2>1, <2>2
<1> QED
  BY <1>5, <1>6, <1>7 DEF SpacingInv

(* Time passes: an entry and the notification it knows of age together. *)
LEMMA TickStep ==
    ASSUME SpacingInv, RelayTick
    PROVE  SpacingInv'
<1> USE CongestionAssumption, LimiterAssumption
<1>1. RelayTypeOK
  BY DEF SpacingInv
<1>2. LongAgo \in Nat /\ CONGESTION_NOTIFY_MIN_INTERVAL <= LongAgo
  BY DEF LongAgo
<1>3. /\ DOMAIN senders' = DOMAIN senders
      /\ \A s \in DOMAIN senders :
            senders'[s] =
                [drops |-> senders[s].drops,
                 window |-> Aged(senders[s].window, StaleThreshold + 1),
                 notify |-> Aged(senders[s].notify,
                                 CONGESTION_NOTIFY_MIN_INTERVAL)]
  BY <1>1 DEF RelayTick, RelayTypeOK
<1>4. RelayTypeOK'
  <2>1. limiter' \in [count : 0 .. KEYFRAME_REQUEST_MAX_PER_SEC,
                      window : 0 .. KEYFRAME_REQUEST_WINDOW + 1]
    <3>1. KEYFRAME_REQUEST_WINDOW + 1 \in Nat
      OBVIOUS
    <3> QED
      BY <1>1, <3>1, AgedType DEF RelayTypeOK, RelayTick
  <2>2. \A s \in DOMAIN senders : senders'[s] \in Item
    <3>1. StaleThreshold + 1 \in Nat
      OBVIOUS
    <3> QED
      BY <1>1, <1>3, <3>1, AgedType DEF RelayTypeOK, Item
  <2>3. senders' \in [DOMAIN senders' -> Item]
    BY <1>3, <2>2 DEF RelayTick
  <2>4. forwarded' \in [0 .. KEYFRAME_REQUEST_WINDOW -> Nat]
    BY <1>1, OlderType DEF RelayTypeOK, RelayTick
  <2>5. dropped' \in [Sender -> [0 .. CONGESTION_WINDOW -> Nat]]
    BY <1>1, OlderType DEF RelayTypeOK, RelayTick
  <2>6. notified' \in [Sender -> 0 .. LongAgo]
    BY <1>1, <1>2, AgedType DEF RelayTypeOK, RelayTick
  <2> QED
    BY <1>1, <1>3, <2>1, <2>3, <2>4, <2>5, <2>6
       DEF RelayTypeOK, Item, RelayTick
<1>5. RecentIsKept'
  <2> SUFFICES ASSUME NEW s \in Sender,
                      notified'[s] < CONGESTION_NOTIFY_MIN_INTERVAL
               PROVE  /\ s \in DOMAIN senders'
                      /\ senders'[s].notify = notified'[s]
                      /\ senders'[s].window <= notified'[s]
    BY DEF RecentIsKept
  <2>1. notified[s] \in Nat /\ notified'[s] = Aged(notified[s], LongAgo)
    <3>1. notified \in [Sender -> 0 .. LongAgo]
      BY <1>1 DEF RelayTypeOK
    <3>2. notified' = [t \in Sender |-> Aged(notified[t], LongAgo)]
      BY DEF RelayTick
    <3> QED
      BY <1>2, <3>1, <3>2
  <2>2. /\ notified[s] < CONGESTION_NOTIFY_MIN_INTERVAL
        /\ notified'[s] = notified[s] + 1
    BY <1>2, <2>1 DEF Aged, Least
  <2>3. /\ s \in DOMAIN senders
        /\ senders[s].notify = notified[s]
        /\ senders[s].window <= notified[s]
    BY <2>2 DEF SpacingInv, RecentIsKept
  <2>4. senders[s].window \in Nat
    BY <1>1, <2>3 DEF RelayTypeOK
  <2> QED
    BY <1>3, <2>1, <2>2, <2>3, <2>4 DEF Aged, Least
<1> QED
  BY <1>4, <1>5 DEF SpacingInv, NotifySpacing, RelayTick

-----------------------------------------------------------------------------
(* Theorems *)

(* A new session (SessionLogic::new) satisfies the invariant. *)
LEMMA RelayInitOK == RelayInit => SpacingInv
<1> SUFFICES ASSUME RelayInit PROVE SpacingInv
  OBVIOUS
<1> USE CongestionAssumption, LimiterAssumption
<1>1. LongAgo \in Nat /\ CONGESTION_NOTIFY_MIN_INTERVAL <= LongAgo
  BY DEF LongAgo
<1>2. RelayTypeOK
  BY <1>1 DEF RelayInit, RelayTypeOK
<1>3. RecentIsKept
  BY <1>1 DEF RelayInit, RecentIsKept
<1> QED
  BY <1>1, <1>2, <1>3 DEF RelayInit, SpacingInv, NotifySpacing

(* Every step of the session preserves the invariant. *)
LEMMA RelayStep == SpacingInv /\ [RelayNext]_relayVars => SpacingInv'
<1> SUFFICES ASSUME SpacingInv, [RelayNext]_relayVars PROVE SpacingInv'
  OBVIOUS
<1>1. CASE HandleKeyframeRequest /\ UNCHANGED trackerVars
  BY <1>1, RequestStep
<1>2. ASSUME NEW s \in Sender, RecordDrop(s), UNCHANGED limiterVars
      PROVE  SpacingInv'
  BY <1>2, DropStep
<1>3. CASE RelayTick
  BY <1>3, TickStep
<1>4. CASE UNCHANGED relayVars
  BY <1>4 DEF SpacingInv, RelayTypeOK, RecentIsKept, NotifySpacing, relayVars,
              trackerVars, limiterVars
<1> QED
  BY <1>1, <1>2, <1>3, <1>4 DEF RelayNext

(* The strengthened invariant of the session's tracker and limiter. *)
THEOREM RelayInvariant == RelaySpec => []SpacingInv
BY RelayInitOK, RelayStep, PTL DEF RelaySpec

(* The session's state is well typed: no count or age leaves its range. *)
THEOREM RelayTypeCorrect == RelaySpec => []RelayTypeOK
<1>1. SpacingInv => RelayTypeOK
  BY DEF SpacingInv
<1> QED
  BY <1>1, RelayInvariant, PTL

(* "The notification is rate-limited per sender session": for every setting *)
(* of the tracker in which the notification interval is no longer than a    *)
(* stale entry is kept, two notifications of a sender are at least the      *)
(* interval apart.                                                          *)
THEOREM RelayNotifySpacing == RelaySpec => []NotifySpacing
<1>1. SpacingInv => NotifySpacing
  BY DEF SpacingInv
<1> QED
  BY <1>1, RelayInvariant, PTL

-----------------------------------------------------------------------------
(* The bound of the limiter *)

(* Of the requests forwarded in the last a ticks, a shorter time than the   *)
(* window is old, all are in its count; before the window, at most one      *)
(* window full of them can be as recent.                                    *)
WindowCounts ==
    \A a \in 0 .. KEYFRAME_REQUEST_WINDOW :
        forwarded[a] <= IF a < limiter.window THEN limiter.count
                        ELSE limiter.count + KEYFRAME_REQUEST_MAX_PER_SEC

(* A request (KeyframeRequestLimiter::allow): what is recent when a window  *)
(* is reset was all in the window before.                                   *)
LEMMA RequestCounts ==
    ASSUME RelayTypeOK, WindowCounts, HandleKeyframeRequest
    PROVE  WindowCounts'
<1> USE LimiterAssumption
<1>1. /\ limiter.count \in 0 .. KEYFRAME_REQUEST_MAX_PER_SEC
      /\ limiter.window \in 0 .. KEYFRAME_REQUEST_WINDOW + 1
      /\ DOMAIN forwarded = 0 .. KEYFRAME_REQUEST_WINDOW
      /\ \A a \in 0 .. KEYFRAME_REQUEST_WINDOW : forwarded[a] \in Nat
  BY DEF RelayTypeOK
<1>2. CASE limiter.window > KEYFRAME_REQUEST_WINDOW
  <2>1. Window = [count |-> 0, window |-> 0] /\ Allows
    BY <1>2 DEF Window, Allows
  <2>2. /\ limiter' = [count |-> 1, window |-> 0]
        /\ forwarded' = [a \in 0 .. KEYFRAME_REQUEST_WINDOW |->
                            forwarded[a] + 1]
    BY <1>1, <2>1 DEF HandleKeyframeRequest
  <2>3. \A a \in 0 .. KEYFRAME_REQUEST_WINDOW : forwarded[a] <= limiter.count
    BY <1>1, <1>2 DEF WindowCounts
  <2> QED
    BY <1>1, <2>2, <2>3 DEF WindowCounts
<1>3. CASE ~(limiter.window > KEYFRAME_REQUEST_WINDOW)
  <2>1. Window = limiter
    BY <1>3 DEF Window
  <2>2. CASE Allows
    <3>1. /\ limiter'.count = limiter.count + 1
          /\ limiter'.window = limiter.window
          /\ forwarded' = [a \in 0 .. KEYFRAME_REQUEST_WINDOW |->
                              forwarded[a] + 1]
      BY <1>1, <2>1, <2>2 DEF HandleKeyframeRequest, RelayTypeOK
    <3> QED
      BY <1>1, <3>1 DEF WindowCounts
  <2>3. CASE ~Allows
    BY <2>1, <2>3 DEF HandleKeyframeRequest, WindowCounts
  <2> QED
    BY <2>2, <2>3
<1> QED
  BY <1>2, <1>3

(* Time passes: the window and what it counts age together. *)
LEMMA TickCounts ==
    ASSUME RelayTypeOK, WindowCounts, RelayTick
    PROVE  WindowCounts'
<1> USE LimiterAssumption
<1>1. /\ limiter.count \in 0 .. KEYFRAME_REQUEST_MAX_PER_SEC
      /\ limiter.window \in 0 .. KEYFRAME_REQUEST_WINDOW + 1
      /\ DOMAIN forwarded = 0 .. KEYFRAME_REQUEST_WINDOW
      /\ \A a \in 0 .. KEYFRAME_REQUEST_WINDOW : forwarded[a] \in Nat
  BY DEF RelayTypeOK
<1>2. /\ limiter'.count = limiter.count
      /\ limiter'.window = Aged(limiter.window, KEYFRAME_REQUEST_WINDOW + 1)
  BY DEF RelayTick, RelayTypeOK
<1>3. /\ limiter'.window \in Nat
      /\ limiter'.window <= limiter.window + 1
  BY <1>1, <1>2 DEF Aged, Least
<1>4. forwarded' = [a \in 0 .. KEYFRAME_REQUEST_WINDOW |->
                       IF a = 0 THEN 0 ELSE forwarded[a - 1]]
  BY <1>1 DEF RelayTick, Older
<1>5. ASSUME NEW a \in 0 .. KEYFRAME_REQUEST_WINDOW
      PROVE  forwarded'[a] <=
                 IF a < limiter'.window THEN limiter'.count
                 ELSE limiter'.count + KEYFRAME_REQUEST_MAX_PER_SEC
  <2>1. CASE a = 0
    BY <1>1, <1>2, <1>4, <2>1
  <2>2. CASE a # 0
    <3>1. /\ a - 1 \in 0 .. KEYFRAME_REQUEST_WINDOW
          /\ forwarded'[a] = forwarded[a - 1]
      BY <1>4, <2>2
    <3>2. forwarded[a - 1] <=
              IF a - 1 < limiter.window THEN limiter.count
              ELSE limiter.count + KEYFRAME_REQUEST_MAX_PER_SEC
      BY <3>1 DEF WindowCounts
    <3>3. a < limiter'.window => a - 1 < limiter.window
      BY <1>1, <1>3
    <3> QED
      BY <1>1, <1>2, <3>1, <3>2, <3>3
  <2> QED
    BY <2>1, <2>2
<1> QED
  BY <1>5 DEF WindowCounts

(* In any span of a window at most twice KEYFRAME_REQUEST_MAX_PER_SEC       *)
(* requests are forwarded, for any maximum and any window: what consecutive *)
(* windows promise, and "a sliding window" would promise half of.           *)
THEOREM RelayForwardBound == RelaySpec => []ForwardBound
<1>1. RelayInit => WindowCounts
  BY LimiterAssumption DEF RelayInit, WindowCounts
<1>2. RelayTypeOK /\ WindowCounts /\ [RelayNext]_relayVars => WindowCounts'
  <2> SUFFICES ASSUME RelayTypeOK, WindowCounts, [RelayNext]_relayVars
               PROVE  WindowCounts'
    OBVIOUS
  <2>1. CASE HandleKeyframeRequest
    BY <2>1, RequestCounts
  <2>2. CASE RelayTick
    BY <2>2, TickCounts
  <2>3. CASE UNCHANGED limiterVars
    BY <2>3 DEF WindowCounts, limiterVars
  <2> QED
    BY <2>1, <2>2, <2>3 DEF RelayNext, relayVars
<1>3. RelayTypeOK /\ WindowCounts => ForwardBound
  <2> SUFFICES ASSUME RelayTypeOK, WindowCounts PROVE ForwardBound
    OBVIOUS
  <2>1. KEYFRAME_REQUEST_WINDOW \in 0 .. KEYFRAME_REQUEST_WINDOW
    BY LimiterAssumption
  <2>2. /\ limiter.count \in 0 .. KEYFRAME_REQUEST_MAX_PER_SEC
        /\ limiter.window \in 0 .. KEYFRAME_REQUEST_WINDOW + 1
        /\ forwarded[KEYFRAME_REQUEST_WINDOW] \in Nat
    BY <2>1 DEF RelayTypeOK
  <2>3. forwarded[KEYFRAME_REQUEST_WINDOW]
            <= limiter.count + KEYFRAME_REQUEST_MAX_PER_SEC
    BY <2>1, <2>2, LimiterAssumption DEF WindowCounts
  <2> QED
    BY <2>2, <2>3, LimiterAssumption DEF ForwardBound
<1> QED
  BY <1>1, <1>2, <1>3, RelayTypeCorrect, PTL DEF RelaySpec

-----------------------------------------------------------------------------
(* Congestion is reported *)

(* The entry of a sender knows no later notification than the last. *)
NotifyIsKnown ==
    \A s \in DOMAIN senders :
        senders[s].notify >= Least(notified[s], CONGESTION_NOTIFY_MIN_INTERVAL)

(* Before a window, fewer drops than the threshold are recent. *)
Before(age, window) ==
    IF age < window THEN 0 ELSE CONGESTION_DROP_THRESHOLD - 1

(* The drops of the last a ticks, when all of these are so long after the   *)
(* last notification that the rate limit held none back: the entry counts   *)
(* those in its window, and none of them reached the threshold.             *)
DropsAreCounted ==
    \A s \in Sender, a \in 0 .. CONGESTION_WINDOW :
        a + CONGESTION_NOTIFY_MIN_INTERVAL <= notified[s] =>
            /\ s \notin DOMAIN senders =>
                   dropped[s][a] <= CONGESTION_DROP_THRESHOLD - 1
            /\ s \in DOMAIN senders =>
                /\ dropped[s][a] > 0 =>
                       senders[s].drops <= CONGESTION_DROP_THRESHOLD - 1
                /\ dropped[s][a] <= senders[s].drops
                                        + Before(a, senders[s].window)

(* The invariant of the tracker's reports. *)
ReportInv == NotifyIsKnown /\ DropsAreCounted

(* What the tracker's state is made of. *)
LEMMA TrackerFields ==
    ASSUME RelayTypeOK
    PROVE  /\ \A s \in DOMAIN senders :
                  /\ senders[s] \in Item
                  /\ senders[s].drops \in 0 .. CONGESTION_DROP_THRESHOLD
                  /\ senders[s].window \in 0 .. StaleThreshold + 1
                  /\ senders[s].notify \in 0 .. CONGESTION_NOTIFY_MIN_INTERVAL
           /\ notified \in [Sender -> 0 .. LongAgo]
           /\ LongAgo \in Nat
           /\ DOMAIN senders \subseteq Sender
           /\ dropped \in [Sender -> [0 .. CONGESTION_WINDOW -> Nat]]
           /\ \A s \in Sender : notified[s] \in Nat
           /\ \A s \in Sender, a \in 0 .. CONGESTION_WINDOW :
                  dropped[s][a] \in Nat
<1>1. LongAgo \in Nat
  BY CongestionAssumption DEF LongAgo
<1>2. \A s \in DOMAIN senders : senders[s] \in Item
  BY DEF RelayTypeOK, Item
<1>3. \A s \in DOMAIN senders :
        /\ senders[s].drops \in 0 .. CONGESTION_DROP_THRESHOLD
        /\ senders[s].window \in 0 .. StaleThreshold + 1
        /\ senders[s].notify \in 0 .. CONGESTION_NOTIFY_MIN_INTERVAL
  BY <1>2 DEF Item
<1>4. /\ notified \in [Sender -> 0 .. LongAgo]
      /\ DOMAIN senders \subseteq Sender
      /\ dropped \in [Sender -> [0 .. CONGESTION_WINDOW -> Nat]]
  BY DEF RelayTypeOK
<1>5. \A s \in Sender : notified[s] \in Nat
  BY <1>1, <1>4
<1>6. \A s \in Sender, a \in 0 .. CONGESTION_WINDOW : dropped[s][a] \in Nat
  BY <1>4
<1> QED
  BY <1>1, <1>2, <1>3, <1>4, <1>5, <1>6

(* An entry whose window has elapsed, or that is removed as stale, or that  *)
(* was never made, leaves fewer recent drops than the threshold.            *)
LEMMA OldWindow ==
    ASSUME RelayTypeOK, DropsAreCounted, NEW s \in Sender,
           NEW a \in 0 .. CONGESTION_WINDOW,
           a + CONGESTION_NOTIFY_MIN_INTERVAL <= notified[s],
           s \in DOMAIN senders => senders[s].window > CONGESTION_WINDOW
    PROVE  dropped[s][a] <= CONGESTION_DROP_THRESHOLD - 1
<1>1. CASE s \notin DOMAIN senders
  BY <1>1 DEF DropsAreCounted
<1>2. CASE s \in DOMAIN senders
  <2>1. /\ senders[s].drops \in 0 .. CONGESTION_DROP_THRESHOLD
        /\ senders[s].window \in 0 .. StaleThreshold + 1
        /\ dropped[s][a] \in Nat
    BY <1>2, TrackerFields
  <2>2. Before(a, senders[s].window) = 0
    BY <1>2, <2>1, CongestionAssumption DEF Before
  <2>3. /\ dropped[s][a] > 0 =>
               senders[s].drops <= CONGESTION_DROP_THRESHOLD - 1
        /\ dropped[s][a] <= senders[s].drops + 0
    BY <1>2, <2>2 DEF DropsAreCounted
  <2> QED
    BY <2>1, <2>3, CongestionAssumption
<1> QED
  BY <1>1, <1>2

(* A drop of a sender (record_drop), as its entry counts it. *)
LEMMA DropOfSender ==
    ASSUME RelayTypeOK, ReportInv, NEW s \in Sender, ~Notifies(s),
           NEW a \in 0 .. CONGESTION_WINDOW,
           a + CONGESTION_NOTIFY_MIN_INTERVAL <= notified[s]
    PROVE  /\ Counted(s).drops <= CONGESTION_DROP_THRESHOLD - 1
           /\ dropped[s][a] + 1
                  <= Counted(s).drops + Before(a, Counted(s).window)
<1> USE CongestionAssumption
<1>1. /\ Entry(s) \in Item /\ Counted(s) \in Item
      /\ Counted(s).notify = Entry(s).notify
  BY CountedType
<1>2. /\ Entry(s).drops \in 0 .. CONGESTION_DROP_THRESHOLD
      /\ Entry(s).window \in 0 .. StaleThreshold + 1
      /\ Entry(s).notify \in 0 .. CONGESTION_NOTIFY_MIN_INTERVAL
      /\ Counted(s).drops \in 0 .. CONGESTION_DROP_THRESHOLD
      /\ dropped[s][a] \in Nat /\ notified[s] \in Nat
  BY <1>1, TrackerFields DEF Item
<1>3. Entry(s).notify >= CONGESTION_NOTIFY_MIN_INTERVAL
  <2>1. CASE s \in Kept
    <3>1. s \in DOMAIN senders /\ Entry(s) = senders[s]
      BY <2>1 DEF Kept, Entry
    <3>2. Least(notified[s], CONGESTION_NOTIFY_MIN_INTERVAL)
              = CONGESTION_NOTIFY_MIN_INTERVAL
      BY <1>2 DEF Least
    <3> QED
      BY <3>1, <3>2 DEF ReportInv, NotifyIsKnown
  <2>2. CASE s \notin Kept
    BY <2>2 DEF Entry
  <2> QED
    BY <2>1, <2>2
<1>4. Counted(s).drops <= CONGESTION_DROP_THRESHOLD - 1
  BY <1>1, <1>2, <1>3 DEF Notifies
<1>5. CASE s \in Kept /\ ~(senders[s].window > CONGESTION_WINDOW)
  <2>1. s \in DOMAIN senders /\ Entry(s) = senders[s]
    BY <1>5 DEF Kept, Entry
  <2>2. /\ Counted(s).drops = Least(Entry(s).drops + 1,
                                    CONGESTION_DROP_THRESHOLD)
        /\ Counted(s).window = Entry(s).window
    BY <1>1, <1>5, <2>1 DEF Counted, Item
  <2>3. Counted(s).drops = Entry(s).drops + 1
    BY <1>2, <1>4, <2>2 DEF Least
  <2>4. dropped[s][a] <= Entry(s).drops + Before(a, Entry(s).window)
    BY <2>1 DEF ReportInv, DropsAreCounted
  <2>5. Before(a, Entry(s).window) \in Nat
    BY DEF Before
  <2>6. Counted(s).drops + Before(a, Counted(s).window)
            = Entry(s).drops + 1 + Before(a, Entry(s).window)
    BY <2>2, <2>3
  <2> QED
    BY <1>2, <1>4, <2>4, <2>5, <2>6
<1>6. CASE ~(s \in Kept /\ ~(senders[s].window > CONGESTION_WINDOW))
  <2>1. s \in DOMAIN senders => senders[s].window > CONGESTION_WINDOW
    BY <1>6, TrackerFields, StaleAssumption DEF Kept
  <2>2. dropped[s][a] <= CONGESTION_DROP_THRESHOLD - 1
    BY <2>1, OldWindow DEF ReportInv
  <2>3. Counted(s).drops = 1 /\ Counted(s).window = 0
    <3>1. CASE s \in Kept
      <4>1. Entry(s) = senders[s] /\ senders[s].window > CONGESTION_WINDOW
        BY <1>6, <3>1 DEF Entry
      <4> QED
        BY <4>1 DEF Counted
    <3>2. CASE s \notin Kept
      <4>1. /\ Entry(s) = [drops |-> 0, window |-> 0,
                           notify |-> CONGESTION_NOTIFY_MIN_INTERVAL]
        BY <3>2 DEF Entry
      <4>2. /\ Counted(s).drops = Least(0 + 1, CONGESTION_DROP_THRESHOLD)
            /\ Counted(s).window = 0
        BY <4>1 DEF Counted
      <4> QED
        BY <4>2 DEF Least
    <3> QED
      BY <3>1, <3>2
  <2>4. Before(a, Counted(s).window) = CONGESTION_DROP_THRESHOLD - 1
    BY <2>3 DEF Before
  <2> QED
    BY <1>2, <1>4, <2>2, <2>3, <2>4
<1> QED
  BY <1>5, <1>6

(* A drop keeps the invariant of the reports: of the sender whose packet it *)
(* is, and of those whose entries the cleanup removes.                      *)
LEMMA DropReports ==
    ASSUME RelayTypeOK, ReportInv, NEW s \in Sender, RecordDrop(s)
    PROVE  ReportInv'
<1> USE CongestionAssumption
<1>1. /\ DOMAIN senders' = Kept \cup {s}
      /\ \A t \in Kept \ {s} : senders'[t] = senders[t]
      /\ senders'[s] = IF Notifies(s)
                       THEN [drops |-> 0, window |-> 0, notify |-> 0]
                       ELSE Counted(s)
  BY DEF RecordDrop
<1>2. /\ \A t \in Sender \ {s} :
            notified'[t] = notified[t] /\ dropped'[t] = dropped[t]
      /\ notified'[s] = IF Notifies(s) THEN 0 ELSE notified[s]
      /\ \A a \in 0 .. CONGESTION_WINDOW :
            dropped'[s][a] = Least(dropped[s][a] + 1, EnoughDrops)
  BY TrackerFields DEF RecordDrop
<1>3. Kept \subseteq DOMAIN senders /\ DOMAIN senders \subseteq Sender
  BY TrackerFields DEF Kept
<1>4. NotifyIsKnown'
  <2> SUFFICES ASSUME NEW t \in DOMAIN senders'
               PROVE  senders'[t].notify
                          >= Least(notified'[t], CONGESTION_NOTIFY_MIN_INTERVAL)
    BY DEF NotifyIsKnown
  <2>1. CASE t # s
    BY <1>1, <1>2, <1>3, <2>1 DEF ReportInv, NotifyIsKnown
  <2>2. CASE t = s /\ Notifies(s)
    BY <1>1, <1>2, <2>2 DEF Least
  <2>3. CASE t = s /\ ~Notifies(s)
    <3>1. senders'[t].notify = Entry(s).notify /\ notified'[t] = notified[s]
      BY <1>1, <1>2, <2>3, CountedType
    <3>2. CASE s \in Kept
      BY <1>3, <3>1, <3>2 DEF Entry, ReportInv, NotifyIsKnown
    <3>3. CASE s \notin Kept
      <4>1. senders'[t].notify = CONGESTION_NOTIFY_MIN_INTERVAL
        BY <3>1, <3>3 DEF Entry
      <4>2. notified[s] \in Nat
        BY TrackerFields
      <4> QED
        BY <3>1, <4>1, <4>2 DEF Least
    <3> QED
      BY <3>2, <3>3
  <2> QED
    BY <2>1, <2>2, <2>3
<1>5. DropsAreCounted'
  <2> SUFFICES ASSUME NEW t \in Sender, NEW a \in 0 .. CONGESTION_WINDOW,
                      a + CONGESTION_NOTIFY_MIN_INTERVAL <= notified'[t]
               PROVE  /\ t \notin DOMAIN senders' =>
                             dropped'[t][a] <= CONGESTION_DROP_THRESHOLD - 1
                      /\ t \in DOMAIN senders' =>
                          /\ dropped'[t][a] > 0 =>
                                 senders'[t].drops
                                     <= CONGESTION_DROP_THRESHOLD - 1
                          /\ dropped'[t][a] <= senders'[t].drops
                                        + Before(a, senders'[t].window)
    BY DEF DropsAreCounted
  <2>1. CASE t # s /\ t \in Kept
    BY <1>1, <1>2, <1>3, <2>1 DEF ReportInv, DropsAreCounted
  <2>2. CASE t # s /\ t \notin Kept
    <3>1. t \in DOMAIN senders => senders[t].window > CONGESTION_WINDOW
      BY <2>2, TrackerFields, StaleAssumption DEF Kept
    <3>2. dropped[t][a] <= CONGESTION_DROP_THRESHOLD - 1
      BY <1>2, <2>2, <3>1, OldWindow DEF ReportInv
    <3> QED
      BY <1>1, <1>2, <2>2, <3>2
  <2>3. CASE t = s /\ Notifies(s)
    BY <1>2, <2>3
  <2>4. CASE t = s /\ ~Notifies(s)
    <3>1. /\ Counted(s).drops <= CONGESTION_DROP_THRESHOLD - 1
          /\ dropped[s][a] + 1
                 <= Counted(s).drops + Before(a, Counted(s).window)
      BY <1>2, <2>4, DropOfSender
    <3>2. /\ Counted(s).drops \in Nat /\ Before(a, Counted(s).window) \in Int
          /\ dropped[s][a] \in Nat /\ EnoughDrops \in Nat
      <4>1. Counted(s) \in Item
        BY CountedType
      <4>2. Counted(s).drops \in Nat /\ Counted(s).window \in Nat
        BY <4>1, StaleAssumption DEF Item
      <4>3. Before(a, Counted(s).window) \in Int
        BY <4>2 DEF Before
      <4>4. dropped[s][a] \in Nat /\ EnoughDrops \in Nat
        BY TrackerFields DEF EnoughDrops
      <4> QED
        BY <4>2, <4>3, <4>4
    <3>3. dropped'[s][a] \in Nat /\ dropped'[s][a] <= dropped[s][a] + 1
      BY <1>2, <3>2 DEF Least
    <3>4. dropped'[s][a] <= Counted(s).drops + Before(a, Counted(s).window)
      BY <3>1, <3>2, <3>3
    <3>5. senders'[s] = Counted(s) /\ s \in DOMAIN senders'
      BY <1>1, <2>4
    <3> QED
      BY <2>4, <3>1, <3>4, <3>5
  <2> QED
    BY <2>1, <2>2, <2>3, <2>4
<1> QED
  BY <1>4, <1>5 DEF ReportInv

(* Time passes: drops, windows and notifications age together. *)
LEMMA TickReports ==
    ASSUME RelayTypeOK, ReportInv, RelayTick
    PROVE  ReportInv'
<1> USE CongestionAssumption
<1>1. /\ DOMAIN senders' = DOMAIN senders
      /\ \A s \in DOMAIN senders :
            /\ senders'[s].drops = senders[s].drops
            /\ senders'[s].window = Aged(senders[s].window, StaleThreshold + 1)
            /\ senders'[s].notify = Aged(senders[s].notify,
                                         CONGESTION_NOTIFY_MIN_INTERVAL)
  BY DEF RelayTick, RelayTypeOK
<1>2. \A s \in Sender :
        /\ notified'[s] \in Nat
        /\ notified'[s] <= notified[s] + 1
  <2>1. ASSUME NEW s \in Sender
        PROVE  notified'[s] = Aged(notified[s], LongAgo)
    BY DEF RelayTick
  <2> QED
    BY <2>1, TrackerFields DEF Aged, Least
<1>3. \A s \in Sender, a \in 0 .. CONGESTION_WINDOW :
        dropped'[s][a] = IF a = 0 THEN 0 ELSE dropped[s][a - 1]
  <2>1. ASSUME NEW s \in Sender
        PROVE  dropped'[s] = Older(dropped[s])
    BY DEF RelayTick
  <2>2. \A s \in Sender : DOMAIN dropped[s] = 0 .. CONGESTION_WINDOW
    BY TrackerFields
  <2>3. ASSUME NEW s \in Sender, NEW a \in 0 .. CONGESTION_WINDOW
        PROVE  dropped'[s][a] = IF a = 0 THEN 0 ELSE dropped[s][a - 1]
    <3>1. Older(dropped[s]) = [c \in 0 .. CONGESTION_WINDOW |->
                                 IF c = 0 THEN 0 ELSE dropped[s][c - 1]]
      BY <2>2 DEF Older
    <3> QED
      BY <2>1, <3>1
  <2> QED
    BY <2>3
<1>4. NotifyIsKnown'
  <2> SUFFICES ASSUME NEW s \in DOMAIN senders
               PROVE  senders'[s].notify
                          >= Least(notified'[s], CONGESTION_NOTIFY_MIN_INTERVAL)
    BY <1>1 DEF NotifyIsKnown
  <2>1. /\ s \in Sender /\ notified[s] \in Nat /\ notified'[s] \in Nat
        /\ notified'[s] <= notified[s] + 1
        /\ senders[s].notify \in 0 .. CONGESTION_NOTIFY_MIN_INTERVAL
    BY <1>2, TrackerFields
  <2>2. senders[s].notify >= Least(notified[s], CONGESTION_NOTIFY_MIN_INTERVAL)
    BY DEF ReportInv, NotifyIsKnown
  <2> QED
    BY <1>1, <2>1, <2>2 DEF Aged, Least
<1>5. DropsAreCounted'
  <2> SUFFICES ASSUME NEW s \in Sender, NEW a \in 0 .. CONGESTION_WINDOW,
                      a + CONGESTION_NOTIFY_MIN_INTERVAL <= notified'[s]
               PROVE  /\ s \notin DOMAIN senders =>
                             dropped'[s][a] <= CONGESTION_DROP_THRESHOLD - 1
                      /\ s \in DOMAIN senders =>
                          /\ dropped'[s][a] > 0 =>
                                 senders'[s].drops
                                     <= CONGESTION_DROP_THRESHOLD - 1
                          /\ dropped'[s][a] <= senders'[s].drops
                                        + Before(a, senders'[s].window)
    BY <1>1 DEF DropsAreCounted
  <2>1. CASE a = 0
    <3>1. dropped'[s][a] = 0
      BY <1>3, <2>1
    <3>2. s \in DOMAIN senders =>
              senders'[s].drops \in Nat /\ Before(a, senders'[s].window) \in Nat
      <4>1. s \in DOMAIN senders => senders'[s].drops \in Nat
        BY <1>1, TrackerFields
      <4>2. Before(a, senders'[s].window) \in Nat
        BY DEF Before
      <4> QED
        BY <4>1, <4>2
    <3> QED
      BY <3>1, <3>2
  <2>2. CASE a # 0
    <3>1. PICK b \in 0 .. CONGESTION_WINDOW : b = a - 1
      BY <2>2
    <3>2. /\ dropped'[s][a] = dropped[s][b] /\ dropped[s][b] \in Nat
          /\ b + CONGESTION_NOTIFY_MIN_INTERVAL <= notified[s]
      BY <1>2, <1>3, <2>2, <3>1, TrackerFields
    <3>3. CASE s \notin DOMAIN senders
      BY <3>2, <3>3 DEF ReportInv, DropsAreCounted
    <3>4. CASE s \in DOMAIN senders
      <4>1. /\ dropped[s][b] > 0 =>
                   senders[s].drops <= CONGESTION_DROP_THRESHOLD - 1
            /\ dropped[s][b] <= senders[s].drops + Before(b, senders[s].window)
        BY <3>2, <3>4 DEF ReportInv, DropsAreCounted
      <4>2. /\ senders[s].window \in Nat /\ senders'[s].window \in Nat
            /\ senders'[s].window <= senders[s].window + 1
            /\ senders[s].drops \in Nat
        BY <1>1, <3>4, TrackerFields, StaleAssumption DEF Aged, Least
      <4>3. /\ Before(b, senders[s].window) \in Nat
            /\ Before(a, senders'[s].window) \in Nat
            /\ Before(b, senders[s].window) <= Before(a, senders'[s].window)
        BY <3>1, <4>2 DEF Before
      <4> QED
        BY <1>1, <3>2, <3>4, <4>1, <4>2, <4>3
    <3> QED
      BY <3>3, <3>4
  <2> QED
    BY <2>1, <2>2
<1> QED
  BY <1>4, <1>5 DEF ReportInv

(* A sender that lost twice the threshold less one packets in a window was  *)
(* told of it in that time, or so shortly before that the rate limit held   *)
(* the notification back, wherever windows begin and entries are cleaned    *)
(* up (record_drop), for any thresholds and any number of senders.          *)
THEOREM RelayReportsCongestion == RelaySpec => []CongestionIsReported
<1> USE CongestionAssumption
<1>1. RelayInit => ReportInv
  <2> SUFFICES ASSUME RelayInit PROVE ReportInv
    OBVIOUS
  <2>1. /\ DOMAIN senders = {}
        /\ \A s \in Sender, a \in 0 .. CONGESTION_WINDOW : dropped[s][a] = 0
    BY DEF RelayInit
  <2> QED
    BY <2>1 DEF ReportInv, NotifyIsKnown, DropsAreCounted
<1>2. RelayTypeOK /\ ReportInv /\ [RelayNext]_relayVars => ReportInv'
  <2> SUFFICES ASSUME RelayTypeOK, ReportInv, [RelayNext]_relayVars
               PROVE  ReportInv'
    OBVIOUS
  <2>1. ASSUME NEW s \in Sender, RecordDrop(s) PROVE ReportInv'
    BY <2>1, DropReports
  <2>2. CASE RelayTick
    BY <2>2, TickReports
  <2>3. CASE UNCHANGED trackerVars
    BY <2>3 DEF ReportInv, NotifyIsKnown, DropsAreCounted, trackerVars
  <2> QED
    BY <2>1, <2>2, <2>3 DEF RelayNext, relayVars
<1>3. RelayTypeOK /\ ReportInv => CongestionIsReported
  <2> SUFFICES ASSUME RelayTypeOK, ReportInv, NEW s \in Sender,
                      dropped[s][CONGESTION_WINDOW] >= EnoughDrops,
                      ~(notified[s] < LongAgo)
               PROVE  FALSE
    BY DEF CongestionIsReported
  <2>1. PICK a \in 0 .. CONGESTION_WINDOW : a = CONGESTION_WINDOW
    OBVIOUS
  <2>2. /\ dropped[s][a] \in Nat
        /\ dropped[s][a] >= 2 * CONGESTION_DROP_THRESHOLD - 1
        /\ a + CONGESTION_NOTIFY_MIN_INTERVAL <= notified[s]
    BY <2>1, TrackerFields DEF EnoughDrops, LongAgo
  <2>3. CASE s \notin DOMAIN senders
    <3>1. dropped[s][a] <= CONGESTION_DROP_THRESHOLD - 1
      BY <2>2, <2>3 DEF ReportInv, DropsAreCounted
    <3> QED
      BY <2>2, <3>1
  <2>4. CASE s \in DOMAIN senders
    <3>1. /\ dropped[s][a] > 0 =>
                 senders[s].drops <= CONGESTION_DROP_THRESHOLD - 1
          /\ dropped[s][a] <= senders[s].drops + Before(a, senders[s].window)
      BY <2>2, <2>4 DEF ReportInv, DropsAreCounted
    <3>2. /\ senders[s].drops \in Nat
          /\ Before(a, senders[s].window) \in Nat
          /\ Before(a, senders[s].window) <= CONGESTION_DROP_THRESHOLD - 1
      BY <2>4, TrackerFields DEF Before
    <3> QED
      BY <2>2, <3>1, <3>2
  <2> QED
    BY <2>3, <2>4
<1> QED
  BY <1>1, <1>2, <1>3, RelayTypeCorrect, PTL DEF RelaySpec

-----------------------------------------------------------------------------
(* The peers of a client (PeerDecode) *)

(* A peer is well typed, and muted exactly while its microphone counts as   *)
(* off.                                                                     *)
PeerSound(p) == p \in Peer /\ p.muted = ~p.enabled["AUDIO"]

(* A peer without a packet since the last check was silent for one check    *)
(* more than it has missed.                                                 *)
SilenceCounts ==
    \A s \in DOMAIN peers :
        ~peers[s].active => silence[s] >= peers[s].missed + 1

(* The inductive invariant of the peers. *)
PeersInv == PeersTypeOK /\ MuteFollowsAudio /\ SilenceCounts

(* The fields of a peer. *)
LEMMA PeerFields ==
    ASSUME NEW p \in Peer
    PROVE  /\ p.enabled \in [Streams -> BOOLEAN] /\ p.muted \in BOOLEAN
           /\ p.heartbeat \in BOOLEAN /\ p.visible \in BOOLEAN
           /\ p.active \in BOOLEAN /\ p.missed \in 0 .. 2
           /\ p.track \in [Numbered -> Track]
           /\ p.enabled["AUDIO"] \in BOOLEAN
BY StreamsAssumption DEF Peer

(* ensure_peer makes a sound peer. *)
LEMMA NewPeerSound == PeerSound(NewPeer) /\ NewPeer.active
<1>1. "none" \in Last
  BY DEF Last
<1>2. KEYFRAME_REQUEST_MIN_INTERVAL \in 0 .. KEYFRAME_REQUEST_MIN_INTERVAL
  BY RequestAssumption
<1>3. [last |-> "none", gap |-> NoGap,
       request |-> KEYFRAME_REQUEST_MIN_INTERVAL] \in Track
  BY <1>1, <1>2 DEF Track
<1>4. [k \in Numbered |-> [last |-> "none", gap |-> NoGap,
                           request |-> KEYFRAME_REQUEST_MIN_INTERVAL]]
          \in [Numbered -> Track]
  BY <1>3
<1>5. [k \in Streams |-> FALSE] \in [Streams -> BOOLEAN]
  OBVIOUS
<1>6. /\ NewPeer \in Peer /\ NewPeer.active
      /\ NewPeer.muted = TRUE /\ NewPeer.enabled = [k \in Streams |-> FALSE]
  <2>1. PICK e \in [Streams -> BOOLEAN] : e = [k \in Streams |-> FALSE]
    BY <1>5
  <2>2. PICK t \in [Numbered -> Track] :
          t = [k \in Numbered |->
                  [last |-> "none", gap |-> NoGap,
                   request |-> KEYFRAME_REQUEST_MIN_INTERVAL]]
    BY <1>4
  <2>3. NewPeer = [enabled |-> e, muted |-> TRUE, heartbeat |-> FALSE,
                   visible |-> TRUE, active |-> TRUE, missed |-> 0,
                   track |-> t]
    BY <2>1, <2>2 DEF NewPeer
  <2>4. NewPeer \in Peer
    BY <2>3 DEF Peer
  <2> QED
    BY <2>1, <2>3, <2>4
<1> QED
  BY <1>6, StreamsAssumption DEF PeerSound

(* track_sequence keeps the type of a track. *)
LEMMA TrackedType ==
    ASSUME NEW t \in Track, NEW isKey, NEW beyond, NEW next \in Last
    PROVE  Tracked(t, isKey, beyond, next) \in Track
<1>1. /\ t.gap \in 0 .. KEYFRAME_REQUEST_TIMEOUT \cup {NoGap}
      /\ t.request \in 0 .. KEYFRAME_REQUEST_MIN_INTERVAL
  BY DEF Track
<1>2. PICK gap \in 0 .. KEYFRAME_REQUEST_TIMEOUT \cup {NoGap} :
        gap = GapAfter(t, isKey, beyond)
  <2>1. 0 \in 0 .. KEYFRAME_REQUEST_TIMEOUT
    BY RequestAssumption
  <2>2. GapAfter(t, isKey, beyond) \in {0, NoGap, t.gap}
    BY Zenon DEF GapAfter
  <2> QED
    BY <1>1, <2>1, <2>2
<1>3. PICK req \in 0 .. KEYFRAME_REQUEST_MIN_INTERVAL :
        req = IF IsDue(t, gap) THEN 0 ELSE t.request
  BY <1>1, RequestAssumption
<1>4. Tracked(t, isKey, beyond, next)
          = [last |-> next, gap |-> gap, request |-> req]
  BY <1>2, <1>3 DEF Tracked
<1> QED
  BY <1>4 DEF Track

(* A frame is tracked. *)
LEMMA WithTrackSound ==
    ASSUME NEW p, PeerSound(p), NEW k, NEW isKey, NEW beyond, NEW next \in Last
    PROVE  PeerSound(WithTrack(p, k, isKey, beyond, next))
<1>1. CASE k \notin Numbered
  BY <1>1 DEF WithTrack
<1>2. CASE k \in Numbered
  <2>1. p \in Peer /\ p.track \in [Numbered -> Track]
    BY PeerFields DEF PeerSound
  <2>2. PICK t \in Track : t = Tracked(p.track[k], isKey, beyond, next)
    BY <1>2, <2>1, TrackedType
  <2>3. PICK ts \in [Numbered -> Track] : ts = [p.track EXCEPT ![k] = t]
    BY <2>1
  <2>4. WithTrack(p, k, isKey, beyond, next) = [p EXCEPT !.track = ts]
    BY <1>2, <2>1, <2>2, <2>3 DEF WithTrack, Peer
  <2>5. /\ [p EXCEPT !.track = ts] \in Peer
        /\ [p EXCEPT !.track = ts].muted = p.muted
        /\ [p EXCEPT !.track = ts].enabled = p.enabled
    BY <2>1 DEF Peer
  <2> QED
    BY <2>4, <2>5 DEF PeerSound
<1> QED
  BY <1>1, <1>2

(* A frame is believed or not (Peer::decode). *)
LEMMA WithFrameSound ==
    ASSUME NEW p, PeerSound(p), NEW k \in Streams
    PROVE  PeerSound(WithFrame(p, k))
<1>1. CASE ~Believes(p, k)
  BY <1>1 DEF WithFrame
<1>2. CASE Believes(p, k)
  <2>1. /\ p \in Peer /\ p.enabled \in [Streams -> BOOLEAN]
        /\ p.muted \in BOOLEAN /\ p.muted = ~p.enabled["AUDIO"]
    BY PeerFields DEF PeerSound
  <2>2. PICK e \in [Streams -> BOOLEAN] : e = [p.enabled EXCEPT ![k] = TRUE]
    BY <2>1
  <2>3. PICK mu \in BOOLEAN : mu = (p.muted /\ k # "AUDIO")
    BY Zenon
  <2>4. WithFrame(p, k) = [p EXCEPT !.enabled = e, !.muted = mu]
    BY <1>2, <2>1, <2>2, <2>3 DEF WithFrame, Peer
  <2>5. /\ [p EXCEPT !.enabled = e, !.muted = mu] \in Peer
        /\ [p EXCEPT !.enabled = e, !.muted = mu].muted = mu
        /\ [p EXCEPT !.enabled = e, !.muted = mu].enabled = e
    BY <2>1 DEF Peer
  <2>6. mu = ~e["AUDIO"]
    <3>1. CASE k = "AUDIO"
      BY <2>1, <2>2, <2>3, <3>1
    <3>2. CASE k # "AUDIO"
      <4>1. e["AUDIO"] = p.enabled["AUDIO"]
        BY <2>1, <2>2, <3>2, StreamsAssumption
      <4> QED
        BY <2>1, <2>3, <3>2, <4>1
    <3> QED
      BY <3>1, <3>2
  <2> QED
    BY <2>4, <2>5, <2>6 DEF PeerSound
<1> QED
  BY <1>1, <1>2

(* A heartbeat sets the streams, and the decoder's muting if it changes. *)
LEMMA WithHeartbeatSound ==
    ASSUME NEW p, PeerSound(p), NEW b \in [Streams -> BOOLEAN]
    PROVE  PeerSound(WithHeartbeat(p, b))
<1>1. /\ p \in Peer /\ p.enabled \in [Streams -> BOOLEAN]
      /\ p.muted \in BOOLEAN /\ p.muted = ~p.enabled["AUDIO"]
      /\ p.enabled["AUDIO"] \in BOOLEAN
  BY PeerFields DEF PeerSound
<1>2. b["AUDIO"] \in BOOLEAN
  BY StreamsAssumption
<1>3. PICK mu \in BOOLEAN :
        mu = IF p.enabled["AUDIO"] # b["AUDIO"] THEN ~b["AUDIO"] ELSE p.muted
  BY <1>1, <1>2
<1>4. WithHeartbeat(p, b) = [p EXCEPT !.heartbeat = TRUE, !.enabled = b,
                                      !.muted = mu]
  BY <1>1, <1>3 DEF WithHeartbeat, Peer
<1>5. /\ WithHeartbeat(p, b) \in Peer
      /\ WithHeartbeat(p, b).muted = mu /\ WithHeartbeat(p, b).enabled = b
  BY <1>1, <1>4 DEF Peer
<1>6. mu = ~b["AUDIO"]
  BY <1>1, <1>2, <1>3
<1> QED
  BY <1>5, <1>6 DEF PeerSound

(* A packet counts as activity. *)
LEMMA ActiveSound ==
    ASSUME NEW p, PeerSound(p)
    PROVE  /\ PeerSound([p EXCEPT !.active = TRUE])
           /\ [p EXCEPT !.active = TRUE].active
<1>1. p \in Peer
  BY DEF PeerSound
<1>2. /\ [p EXCEPT !.active = TRUE] \in Peer
      /\ [p EXCEPT !.active = TRUE].active = TRUE
      /\ [p EXCEPT !.active = TRUE].muted = p.muted
      /\ [p EXCEPT !.active = TRUE].enabled = p.enabled
  BY <1>1 DEF Peer
<1> QED
  BY <1>2 DEF PeerSound

(* The invariant, peer by peer. *)
LEMMA PeersInvIs ==
    PeersInv <=>
        /\ DOMAIN peers \subseteq Sender
        /\ silence \in [Sender -> 0 .. 3]
        /\ \A s \in DOMAIN peers :
            /\ PeerSound(peers[s])
            /\ ~peers[s].active => silence[s] >= peers[s].missed + 1
BY DEF PeersInv, PeersTypeOK, MuteFollowsAudio, SilenceCounts, PeerSound

(* The invariant after a step, peer by peer. *)
LEMMA PeersInvNext ==
    ASSUME DOMAIN peers' \subseteq Sender,
           silence' \in [Sender -> 0 .. 3],
           \A s \in DOMAIN peers' :
               /\ PeerSound(peers'[s])
               /\ ~peers'[s].active => silence'[s] >= peers'[s].missed + 1
    PROVE  PeersInv'
BY DEF PeersInv, PeersTypeOK, MuteFollowsAudio, SilenceCounts, PeerSound

(* One peer is set: after a packet that counts, or to another state of it   *)
(* that has missed as many checks.                                          *)
LEMMA SetPeerInv ==
    ASSUME PeersInv, NEW s \in Sender, NEW p, PeerSound(p), SetPeer(s, p),
           silence' \in {silence, [silence EXCEPT ![s] = 0]},
           \/ p.active
           \/ /\ s \in DOMAIN peers /\ silence' = silence
              /\ p.active = peers[s].active /\ p.missed = peers[s].missed
    PROVE  PeersInv'
<1>1. /\ DOMAIN peers \subseteq Sender
      /\ silence \in [Sender -> 0 .. 3]
      /\ \A t \in DOMAIN peers :
          /\ PeerSound(peers[t])
          /\ ~peers[t].active => silence[t] >= peers[t].missed + 1
  BY PeersInvIs
<1>2. /\ DOMAIN peers' = DOMAIN peers \cup {s} /\ peers'[s] = p
      /\ \A t \in DOMAIN peers \ {s} : peers'[t] = peers[t]
  BY DEF SetPeer
<1>3. /\ silence' \in [Sender -> 0 .. 3]
      /\ \A t \in Sender \ {s} : silence'[t] = silence[t]
  BY <1>1
<1>4. ASSUME NEW t \in DOMAIN peers'
      PROVE  /\ PeerSound(peers'[t])
             /\ ~peers'[t].active => silence'[t] >= peers'[t].missed + 1
  <2>1. CASE t = s
    BY <1>1, <1>2, <2>1
  <2>2. CASE t # s
    BY <1>1, <1>2, <1>3, <1>4, <2>2
  <2> QED
    BY <2>1, <2>2
<1> QED
  BY <1>1, <1>2, <1>3, <1>4, PeersInvNext

(* The peer of a packet is sound. *)
LEMMA EnsuredSound ==
    ASSUME PeersInv, NEW s
    PROVE  /\ PeerSound(Ensured(s))
           /\ \/ Ensured(s).active
              \/ s \in DOMAIN peers /\ Ensured(s) = peers[s]
BY NewPeerSound, PeersInvIs DEF Ensured

(* A frame arrives. *)
LEMMA DecodeFrameInv ==
    ASSUME PeersInv, NEW s \in Sender, NEW k \in Streams, NEW isKey,
           NEW beyond, NEW next \in Last, DecodeFrame(s, k, isKey, beyond, next)
    PROVE  PeersInv'
<1>1. PICK p : /\ p = WithFrame(WithTrack(Ensured(s), k, isKey, beyond, next),
                                k)
               /\ PeerSound(p)
  BY EnsuredSound, WithTrackSound, WithFrameSound
<1>2. PICK q : q = [p EXCEPT !.active = TRUE] /\ PeerSound(q) /\ q.active
  BY <1>1, ActiveSound
<1>3. SetPeer(s, q) /\ silence' = [silence EXCEPT ![s] = 0]
  BY <1>1, <1>2 DEF DecodeFrame
<1> QED
  BY <1>2, <1>3, SetPeerInv

(* A heartbeat arrives. *)
LEMMA DecodeHeartbeatInv ==
    ASSUME PeersInv, NEW s \in Sender, NEW b \in [Streams -> BOOLEAN],
           DecodeHeartbeat(s, b)
    PROVE  PeersInv'
<1>1. PICK p : p = WithHeartbeat(Ensured(s), b) /\ PeerSound(p)
  BY EnsuredSound, WithHeartbeatSound
<1>2. PICK q : q = [p EXCEPT !.active = TRUE] /\ PeerSound(q) /\ q.active
  BY <1>1, ActiveSound
<1>3. SetPeer(s, q) /\ silence' = [silence EXCEPT ![s] = 0]
  BY <1>1, <1>2 DEF DecodeHeartbeat
<1> QED
  BY <1>2, <1>3, SetPeerInv

(* A packet that is not for the decoders arrives. *)
LEMMA OtherPacketInv ==
    ASSUME PeersInv, NEW s \in Sender, OtherPacket(s)
    PROVE  PeersInv'
<1>1. PICK p : /\ p = Ensured(s) /\ PeerSound(p)
               /\ p.active \/ (s \in DOMAIN peers /\ p = peers[s])
  BY EnsuredSound
<1>2. SetPeer(s, p) /\ silence' = silence
  BY <1>1 DEF OtherPacket
<1> QED
  BY <1>1, <1>2, SetPeerInv

(* Peers are removed. *)
LEMMA RemovePeersInv ==
    ASSUME PeersInv, NEW gone, RemovePeers(gone), UNCHANGED silence
    PROVE  PeersInv'
<1>1. /\ DOMAIN peers' = DOMAIN peers \ gone
      /\ \A t \in DOMAIN peers' : peers'[t] = peers[t]
  BY DEF RemovePeers, Restrict
<1> QED
  BY <1>1, PeersInvIs, PeersInvNext

(* A packet cannot be decoded: the peer's decoders are made anew, or the    *)
(* peer is deleted.                                                         *)
LEMMA BadPacketInv ==
    ASSUME PeersInv, NEW s \in Sender, BadPacket(s)
    PROVE  PeersInv'
<1>1. PICK p : /\ p = Ensured(s) /\ PeerSound(p)
               /\ p.active \/ (s \in DOMAIN peers /\ p = peers[s])
  BY EnsuredSound
<1>2. CASE SetPeer(s, [p EXCEPT !.muted = ~p.enabled["AUDIO"]])
           /\ UNCHANGED silence
  <2>1. [p EXCEPT !.muted = ~p.enabled["AUDIO"]] = p
    BY <1>1 DEF PeerSound, Peer
  <2> QED
    BY <1>1, <1>2, <2>1, SetPeerInv
<1>3. CASE RemovePeers({s}) /\ UNCHANGED silence
  BY <1>3, RemovePeersInv
<1> QED
  BY <1>1, <1>2, <1>3 DEF BadPacket

(* A peer is made visible or invisible. *)
LEMMA SetPeerVisibilityInv ==
    ASSUME PeersInv, NEW s \in Sender, SetPeerVisibility(s)
    PROVE  PeersInv'
<1>1. PICK p : /\ p = peers[s] /\ PeerSound(p) /\ s \in DOMAIN peers
  BY PeersInvIs DEF SetPeerVisibility
<1>2. p \in Peer /\ p.visible \in BOOLEAN
  BY <1>1, PeerFields DEF PeerSound
<1>3. PICK v \in BOOLEAN : v = ~p.visible
  BY <1>2, Zenon
<1>4. PICK q : q = [p EXCEPT !.visible = v]
  OBVIOUS
<1>5. /\ q \in Peer /\ q.muted = p.muted /\ q.enabled = p.enabled
      /\ q.active = p.active /\ q.missed = p.missed
  BY <1>2, <1>4 DEF Peer
<1>6. SetPeer(s, q) /\ silence' = silence
  BY <1>1, <1>3, <1>4 DEF SetPeerVisibility
<1>7. PeerSound(q)
  BY <1>1, <1>5 DEF PeerSound
<1> QED
  BY <1>1, <1>5, <1>6, <1>7, SetPeerInv

(* A check of a peer that is not dead: a peer with a packet since the last  *)
(* one has missed none, another one misses one more.                        *)
LEMMA CheckedSound ==
    ASSUME NEW p, PeerSound(p), ~IsDead(p)
    PROVE  /\ PeerSound(Checked(p)) /\ ~Checked(p).active
           /\ Checked(p).missed = IF p.active THEN 0 ELSE p.missed + 1
<1>1. /\ p \in Peer /\ p.active \in BOOLEAN /\ p.missed \in 0 .. 2
  BY PeerFields DEF PeerSound
<1>2. CASE p.active
  <2>1. Checked(p) = [p EXCEPT !.active = FALSE, !.missed = 0]
    BY <1>2 DEF Checked
  <2>2. PICK m \in 0 .. 2 : m = 0
    OBVIOUS
  <2>3. Checked(p) = [p EXCEPT !.active = FALSE, !.missed = m]
    BY <2>1, <2>2
  <2>4. /\ Checked(p) \in Peer
        /\ Checked(p).muted = p.muted /\ Checked(p).enabled = p.enabled
        /\ Checked(p).active = FALSE /\ Checked(p).missed = m
    BY <1>1, <2>3 DEF Peer
  <2> QED
    BY <1>2, <2>2, <2>4 DEF PeerSound
<1>3. CASE ~p.active
  <2>1. PICK m \in 0 .. 2 : m = p.missed + 1
    BY <1>1, <1>3 DEF IsDead
  <2>2. Checked(p) = [p EXCEPT !.missed = m]
    BY <1>1, <1>3, <2>1 DEF Checked, Peer
  <2>3. /\ Checked(p) \in Peer
        /\ Checked(p).muted = p.muted /\ Checked(p).enabled = p.enabled
        /\ Checked(p).active = p.active /\ Checked(p).missed = m
    BY <1>1, <2>2 DEF Peer
  <2> QED
    BY <1>3, <2>1, <2>3 DEF PeerSound
<1> QED
  BY <1>1, <1>2, <1>3

(* The monitor checks every peer. *)
LEMMA RunPeerMonitorInv ==
    ASSUME PeersInv, RunPeerMonitor
    PROVE  PeersInv'
<1>1. /\ DOMAIN peers \subseteq Sender
      /\ silence \in [Sender -> 0 .. 3]
      /\ \A t \in DOMAIN peers :
          /\ PeerSound(peers[t])
          /\ ~peers[t].active => silence[t] >= peers[t].missed + 1
  BY PeersInvIs
<1>2. /\ DOMAIN peers' = {t \in DOMAIN peers : ~IsDead(peers[t])}
      /\ \A t \in DOMAIN peers' : peers'[t] = Checked(peers[t])
      /\ silence' = [s \in Sender |-> Aged(silence[s], 3)]
  BY DEF RunPeerMonitor
<1>3. silence' \in [Sender -> 0 .. 3]
  BY <1>1, <1>2, AgedType
<1>4. ASSUME NEW t \in DOMAIN peers'
      PROVE  /\ PeerSound(peers'[t])
             /\ ~peers'[t].active => silence'[t] >= peers'[t].missed + 1
  <2>1. PICK p : p = peers[t] /\ PeerSound(p) /\ ~IsDead(p)
    BY <1>1, <1>2, <1>4
  <2>2. /\ t \in Sender /\ peers'[t] = Checked(p)
        /\ ~p.active => silence[t] >= p.missed + 1
    BY <1>1, <1>2, <1>4, <2>1
  <2>3. /\ p.missed \in 0 .. 2
        /\ ~p.active => p.missed < 2
    BY <2>1, PeerFields DEF PeerSound, IsDead
  <2>4. /\ silence[t] \in 0 .. 3
        /\ silence'[t] = IF silence[t] + 1 <= 3 THEN silence[t] + 1 ELSE 3
    BY <1>1, <1>2, <2>2 DEF Aged, Least
  <2>5. /\ PeerSound(Checked(p))
        /\ Checked(p).missed = IF p.active THEN 0 ELSE p.missed + 1
    BY <2>1, CheckedSound
  <2>6. silence'[t] >= Checked(p).missed + 1
    <3>1. CASE p.active
      <4>1. Checked(p).missed = 0 /\ silence'[t] >= 1
        BY <2>4, <2>5, <3>1
      <4> QED
        BY <2>4, <4>1
    <3>2. CASE ~p.active
      <4>1. PICK m \in 0 .. 1 : m = p.missed
        BY <2>3, <3>2
      <4>2. Checked(p).missed = m + 1 /\ silence[t] >= m + 1
        BY <2>2, <2>5, <3>2, <4>1
      <4>3. silence'[t] >= m + 2
        BY <2>4, <4>1, <4>2
      <4> QED
        BY <4>1, <4>2, <4>3
    <3> QED
      BY <3>1, <3>2
  <2> QED
    BY <2>2, <2>5, <2>6
<1> QED
  BY <1>1, <1>2, <1>3, <1>4, PeersInvNext

(* Another track of the same peer. *)
LEMMA OtherTrack ==
    ASSUME NEW p, PeerSound(p), NEW ts \in [Numbered -> Track]
    PROVE  /\ PeerSound([p EXCEPT !.track = ts])
           /\ [p EXCEPT !.track = ts].active = p.active
           /\ [p EXCEPT !.track = ts].missed = p.missed
<1>1. p \in Peer
  BY DEF PeerSound
<1>2. /\ [p EXCEPT !.track = ts] \in Peer
      /\ [p EXCEPT !.track = ts].muted = p.muted
      /\ [p EXCEPT !.track = ts].enabled = p.enabled
      /\ [p EXCEPT !.track = ts].active = p.active
      /\ [p EXCEPT !.track = ts].missed = p.missed
  BY <1>1 DEF Peer
<1> QED
  BY <1>2 DEF PeerSound

(* A track that is a tick older is one. *)
LEMMA OlderTrackType ==
    ASSUME NEW t \in Track
    PROVE  OlderTrack(t) \in Track
<1>1. /\ t.gap \in 0 .. KEYFRAME_REQUEST_TIMEOUT \cup {NoGap}
      /\ t.request \in 0 .. KEYFRAME_REQUEST_MIN_INTERVAL
  BY DEF Track
<1>2. PICK g \in 0 .. KEYFRAME_REQUEST_TIMEOUT \cup {NoGap} :
        g = IF t.gap = NoGap THEN NoGap
            ELSE Aged(t.gap, KEYFRAME_REQUEST_TIMEOUT)
  BY <1>1, AgedType, RequestAssumption
<1>3. PICK r \in 0 .. KEYFRAME_REQUEST_MIN_INTERVAL :
        r = Aged(t.request, KEYFRAME_REQUEST_MIN_INTERVAL)
  BY <1>1, AgedType, RequestAssumption
<1>4. OlderTrack(t) = [t EXCEPT !.gap = g, !.request = r]
  BY <1>2, <1>3 DEF OlderTrack, Track
<1> QED
  BY <1>4 DEF Track

(* Time passes for the client. *)
LEMMA PeersTickInv ==
    ASSUME PeersInv, PeersTick
    PROVE  PeersInv'
<1>1. /\ DOMAIN peers \subseteq Sender
      /\ silence \in [Sender -> 0 .. 3]
      /\ \A t \in DOMAIN peers :
          /\ PeerSound(peers[t])
          /\ ~peers[t].active => silence[t] >= peers[t].missed + 1
  BY PeersInvIs
<1>2. /\ DOMAIN peers' = DOMAIN peers /\ silence' = silence
      /\ \A t \in DOMAIN peers :
          peers'[t] = [peers[t] EXCEPT !.track =
                          [k \in Numbered |-> OlderTrack(peers[t].track[k])]]
  BY Zenon DEF PeersTick
<1>3. ASSUME NEW t \in DOMAIN peers
      PROVE  /\ PeerSound(peers'[t])
             /\ peers'[t].active = peers[t].active
             /\ peers'[t].missed = peers[t].missed
  <2>1. PICK p : p = peers[t] /\ PeerSound(p)
    BY <1>1, <1>3
  <2>2. p \in Peer /\ p.track \in [Numbered -> Track]
    BY <2>1, PeerFields DEF PeerSound
  <2>3. PICK ts \in [Numbered -> Track] :
          ts = [k \in Numbered |-> OlderTrack(p.track[k])]
    BY <2>2, OlderTrackType
  <2>4. peers'[t] = [p EXCEPT !.track = ts]
    BY <1>2, <1>3, <2>1, <2>2, <2>3 DEF Peer
  <2> QED
    BY <2>1, <2>4, OtherTrack
<1> QED
  BY <1>1, <1>2, <1>3, PeersInvNext

(* The sender has produced a frame the client has not got, or begins to     *)
(* number anew.                                                             *)
LEMMA SetLastInv ==
    ASSUME PeersInv, NEW s \in Sender, NEW k \in Numbered, NEW last \in Last,
           SetLast(s, k, last), UNCHANGED silence
    PROVE  PeersInv'
<1>1. CASE s \notin DOMAIN peers
  BY <1>1, PeersInvIs, PeersInvNext DEF SetLast
<1>2. CASE s \in DOMAIN peers
  <2>1. PICK p : p = peers[s] /\ PeerSound(p)
    BY <1>2, PeersInvIs
  <2>2. p.track \in [Numbered -> Track]
    BY <2>1, PeerFields DEF PeerSound
  <2>3. PICK t \in Track : t = [p.track[k] EXCEPT !.last = last]
    BY <2>2 DEF Track
  <2>4. PICK ts \in [Numbered -> Track] : ts = [p.track EXCEPT ![k] = t]
    BY <2>2
  <2>5. peers' = [peers EXCEPT ![s] = [p EXCEPT !.track = ts]]
    BY <1>2, <2>1, <2>3, <2>4 DEF SetLast
  <2>6. PICK q : q = [p EXCEPT !.track = ts]
    OBVIOUS
  <2>7. /\ PeerSound(q) /\ q.active = p.active /\ q.missed = p.missed
    BY <2>1, <2>6, OtherTrack
  <2>8. SetPeer(s, q)
    BY <1>2, <2>5, <2>6 DEF SetPeer
  <2> QED
    BY <1>2, <2>1, <2>7, <2>8, SetPeerInv
<1> QED
  BY <1>1, <1>2

-----------------------------------------------------------------------------
(* The session in the whole *)

(* Every step of the whole is one of the session or leaves it unchanged. *)
LEMMA FeedbackRelayStep == [Next]_vars => [RelayNext]_relayVars
<1> SUFFICES ASSUME [Next]_vars PROVE [RelayNext]_relayVars
  OBVIOUS
<1>1. CASE UNCHANGED vars
  BY <1>1 DEF vars
<1>2. ASSUME NEW s \in Sender, NEW k \in Streams, TurnOn(s, k) \/ TurnOff(s, k)
      PROVE  UNCHANGED relayVars
  BY <1>2 DEF TurnOn, TurnOff
<1>3. ASSUME NEW s \in Sender, NEW k \in Numbered, NEW isKey \in BOOLEAN,
             \/ FrameArrives(s, k, isKey)
             \/ FrameLost(s, k, isKey)
             \/ FrameDelayed(s, k, isKey)
      PROVE  UNCHANGED relayVars
  BY <1>3 DEF FrameArrives, FrameLost, FrameDelayed
<1>4. ASSUME NEW s \in Sender, NEW k \in Streams, NEW isKey \in BOOLEAN,
             FrameDropped(s, k, isKey)
      PROVE  RelayNext
  BY <1>4 DEF FrameDropped, RelayNext
<1>5. ASSUME NEW s \in Sender, NEW k \in Numbered, LateFrameArrives(s, k)
      PROVE  UNCHANGED relayVars
  BY <1>5 DEF LateFrameArrives
<1>6. ASSUME NEW s \in Sender,
             \/ AudioArrives(s)
             \/ SendHeartbeat(s)
             \/ \E b \in beats[s] :
                   HeartbeatArrives(s, b) \/ HeartbeatLost(s, b)
             \/ LeaveCall(s) \/ LeftArrives(s) \/ LeftLost(s)
             \/ NoticeArrives(s) \/ OtherPacketArrives(s)
             \/ BadPacketArrives(s)
             \/ ToggleVisibility(s) \/ SetScreenCanvas(s)
      PROVE  UNCHANGED relayVars
  BY <1>6 DEF AudioArrives, SendHeartbeat, HeartbeatArrives, HeartbeatLost,
              LeaveCall, LeftArrives, LeftLost, NoticeArrives,
              OtherPacketArrives, BadPacketArrives, ToggleVisibility,
              SetScreenCanvas
<1>7. ASSUME NEW k \in Numbered, NEW reached \in SUBSET in_call,
             RequestReaches(k, reached)
      PROVE  RelayNext
  BY <1>7 DEF RequestReaches, RelayNext
<1>8. CASE Monitor \/ ConnectionFailed
  BY <1>8 DEF Monitor, ConnectionFailed
<1>9. CASE Tick
  BY <1>9 DEF Tick, RelayNext
<1> QED
  BY <1>1, <1>2, <1>3, <1>4, <1>5, <1>6, <1>7, <1>8, <1>9 DEF Next

(* The feedback system implements its relay session. *)
THEOREM FeedbackImplementsRelay == Spec => RelaySpec
<1>1. Init => RelayInit
  BY DEF Init
<1> QED
  BY <1>1, FeedbackRelayStep, PTL DEF Spec, RelaySpec

(* In the whole system, too, the CONGESTION notifications of a sender are   *)
(* rate-limited, for any number of senders and any timing.                  *)
THEOREM FeedbackNotifySpacing == Spec => []NotifySpacing
BY FeedbackImplementsRelay, RelayNotifySpacing

-----------------------------------------------------------------------------
(* Clients and senders in the whole *)

(* The type of what is the senders' and of what is on its way. *)
SendTypeOK ==
    /\ happens \in Environments
    /\ in_call \subseteq Sender
    /\ on \in [Sender -> [Streams -> BOOLEAN]]
    /\ key \in [Sender -> [Numbered -> BOOLEAN]]
    /\ late \in [Sender -> [Numbered -> SUBSET Late]]
    /\ beats \in [Sender -> SUBSET [Streams -> BOOLEAN]]
    /\ leaving \subseteq Sender
    /\ requests \in [Numbered -> 0 .. MaxRequests]
    /\ notices \subseteq Sender
    /\ awaiting \in [Sender -> [Numbered -> BOOLEAN]]

(* What is forgotten with its peer. *)
LEMMA ForgottenType ==
    ASSUME SendTypeOK, NEW gone
    PROVE  Forgotten(gone) \in [Sender -> [Numbered -> BOOLEAN]]
BY DEF SendTypeOK, Forgotten

(* The client gets a frame. *)
LEMMA ReceivesType ==
    ASSUME SendTypeOK, NEW s \in Sender, NEW k \in Numbered,
           NEW isKey \in BOOLEAN, NEW beyond \in BOOLEAN, NEW next,
           Receives(s, k, isKey, beyond, next)
    PROVE  /\ requests' \in [Numbered -> 0 .. MaxRequests]
           /\ awaiting' \in [Sender -> [Numbered -> BOOLEAN]]
<1>1. requests' \in [Numbered -> 0 .. MaxRequests]
  <2>1. CASE UNCHANGED requests
    BY <2>1 DEF SendTypeOK
  <2>2. CASE /\ requests[k] < MaxRequests
             /\ requests' = [requests EXCEPT ![k] = @ + 1]
    <3>1. requests[k] + 1 \in 0 .. MaxRequests
      BY <2>2, MaxRequestsAssumption DEF SendTypeOK
    <3> QED
      BY <2>2, <3>1 DEF SendTypeOK
  <2> QED
    BY <2>1, <2>2 DEF Receives
<1>2. awaiting' \in [Sender -> [Numbered -> BOOLEAN]]
  <2>1. awaiting' = [awaiting EXCEPT
                       ![s] = [awaiting[s] EXCEPT
                                 ![k] = ~isKey /\ (awaiting[s][k] \/ beyond)]]
    BY DEF Receives
  <2>2. PICK a \in BOOLEAN : a = (~isKey /\ (awaiting[s][k] \/ beyond))
    BY Zenon
  <2>3. [awaiting[s] EXCEPT ![k] = a] \in [Numbered -> BOOLEAN]
    BY DEF SendTypeOK
  <2> QED
    BY <2>1, <2>2, <2>3 DEF SendTypeOK
<1> QED
  BY <1>1, <1>2

(* A frame is produced. *)
LEMMA ProducesType ==
    ASSUME SendTypeOK, NEW s \in Sender, NEW k \in Numbered, NEW isKey,
           Produces(s, k, isKey)
    PROVE  key' \in [Sender -> [Numbered -> BOOLEAN]]
BY DEF SendTypeOK, Produces

(* Other frames overtake the delayed ones, or these become old. *)
LEMMA LateType ==
    ASSUME NEW fs \in SUBSET Late
    PROVE  /\ {[f EXCEPT !.overtaken = TRUE] : f \in fs} \in SUBSET Late
           /\ {[f EXCEPT !.old = TRUE] : f \in fs} \in SUBSET Late
BY DEF Late

(* Every step keeps the type of what is the senders' and on its way. *)
LEMMA SendTypeStep == SendTypeOK /\ [Next]_vars => SendTypeOK'
<1> SUFFICES ASSUME SendTypeOK, [Next]_vars PROVE SendTypeOK'
  OBVIOUS
<1>t. /\ happens \in Environments
      /\ in_call \subseteq Sender
      /\ on \in [Sender -> [Streams -> BOOLEAN]]
      /\ key \in [Sender -> [Numbered -> BOOLEAN]]
      /\ late \in [Sender -> [Numbered -> SUBSET Late]]
      /\ beats \in [Sender -> SUBSET [Streams -> BOOLEAN]]
      /\ leaving \subseteq Sender
      /\ requests \in [Numbered -> 0 .. MaxRequests]
      /\ notices \subseteq Sender
      /\ awaiting \in [Sender -> [Numbered -> BOOLEAN]]
  BY DEF SendTypeOK
<1>1. CASE UNCHANGED vars
  BY <1>t, <1>1 DEF SendTypeOK, vars, sendVars, wayVars
<1>2. ASSUME NEW s \in Sender, NEW k \in Streams, TurnOn(s, k)
      PROVE  SendTypeOK'
  <2>1. on' \in [Sender -> [Streams -> BOOLEAN]]
    BY <1>t, <1>2 DEF TurnOn
  <2>2. beats' \in [Sender -> SUBSET [Streams -> BOOLEAN]]
    <3>1. PICK b \in [Streams -> BOOLEAN] : b = on'[s]
      BY <2>1
    <3>2. beats' = [beats EXCEPT ![s] = @ \cup {b}]
      BY <1>2, <3>1 DEF TurnOn
    <3> QED
      BY <1>t, <3>1, <3>2
  <2>3. /\ key' \in [Sender -> [Numbered -> BOOLEAN]]
        /\ late' \in [Sender -> [Numbered -> SUBSET Late]]
    <3>1. CASE k \in Numbered
      <4>1. PICK fs \in SUBSET Late :
              fs = {[f EXCEPT !.old = TRUE] : f \in late[s][k]}
        <5>1. late[s][k] \in SUBSET Late
          BY <1>t, <3>1
        <5> QED
          BY <5>1, LateType, Zenon
      <4>2. late' = [late EXCEPT ![s][k] = fs]
        BY <1>2, <3>1, <4>1 DEF TurnOn
      <4>3. key' = [key EXCEPT ![s][k] = TRUE]
        BY <1>2, <3>1 DEF TurnOn
      <4> QED
        BY <1>t, <3>1, <4>2, <4>3
    <3>2. CASE k \notin Numbered
      BY <1>t, <1>2, <3>2 DEF TurnOn
    <3> QED
      BY <3>1, <3>2
  <2> QED
    BY <1>t, <1>2, <2>1, <2>2, <2>3 DEF SendTypeOK, TurnOn, wayVars
<1>3. ASSUME NEW s \in Sender, NEW k \in Streams, TurnOff(s, k)
      PROVE  SendTypeOK'
  <2>1. on' \in [Sender -> [Streams -> BOOLEAN]]
    BY <1>t, <1>3 DEF TurnOff
  <2>2. beats' \in [Sender -> SUBSET [Streams -> BOOLEAN]]
    <3>1. PICK b \in [Streams -> BOOLEAN] : b = on'[s]
      BY <2>1
    <3>2. beats' = [beats EXCEPT ![s] = @ \cup {b}]
      BY <1>3, <3>1 DEF TurnOff
    <3> QED
      BY <1>t, <3>1, <3>2
  <2> QED
    BY <1>t, <1>3, <2>1, <2>2 DEF SendTypeOK, TurnOff, wayVars
<1>4. ASSUME NEW s \in Sender, NEW k \in Numbered, NEW isKey \in BOOLEAN,
             FrameArrives(s, k, isKey)
      PROVE  SendTypeOK'
  <2>1. PICK beyond \in BOOLEAN : beyond = (LastOf(s, k) = "ahead")
    BY Zenon
  <2>2. /\ requests' \in [Numbered -> 0 .. MaxRequests]
        /\ awaiting' \in [Sender -> [Numbered -> BOOLEAN]]
    BY <1>4, <2>1, ReceivesType DEF FrameArrives
  <2>3. PICK fs \in SUBSET Late :
          fs = {[f EXCEPT !.overtaken = TRUE] : f \in late[s][k]}
    <3>1. late[s][k] \in SUBSET Late
      BY <1>t
    <3> QED
      BY <3>1, LateType, Zenon
  <2>4. late' = [late EXCEPT ![s][k] = fs]
    BY <1>4, <2>3 DEF FrameArrives
  <2>5. late' \in [Sender -> [Numbered -> SUBSET Late]]
    BY <1>t, <2>4
  <2> QED
    BY <1>t, <1>4, <2>2, <2>5, ProducesType DEF SendTypeOK, FrameArrives
<1>5. ASSUME NEW s \in Sender, NEW k \in Numbered, NEW isKey \in BOOLEAN,
             FrameLost(s, k, isKey)
      PROVE  SendTypeOK'
  BY <1>t, <1>5, ProducesType DEF SendTypeOK, FrameLost, wayVars
<1>6. ASSUME NEW s \in Sender, NEW k \in Numbered, NEW isKey \in BOOLEAN,
             FrameDelayed(s, k, isKey)
      PROVE  SendTypeOK'
  <2>1. PICK f \in Late :
          f = [key |-> isKey, overtaken |-> FALSE, old |-> FALSE]
    BY DEF Late
  <2>2. late' = [late EXCEPT ![s][k] = {f}]
    BY <1>6, <2>1 DEF FrameDelayed
  <2>3. late' \in [Sender -> [Numbered -> SUBSET Late]]
    BY <1>t, <2>2
  <2> QED
    BY <1>t, <1>6, <2>3, ProducesType DEF SendTypeOK, FrameDelayed, wayVars
<1>7. ASSUME NEW s \in Sender, NEW k \in Streams, NEW isKey \in BOOLEAN,
             FrameDropped(s, k, isKey)
      PROVE  SendTypeOK'
  <2>1. key' \in [Sender -> [Numbered -> BOOLEAN]]
    BY <1>t, <1>7, ProducesType DEF FrameDropped
  <2>2. notices' \subseteq Sender
    BY <1>t, <1>7 DEF FrameDropped
  <2> QED
    BY <1>t, <1>7, <2>1, <2>2 DEF SendTypeOK, FrameDropped
<1>8. ASSUME NEW s \in Sender, NEW k \in Numbered, LateFrameArrives(s, k)
      PROVE  SendTypeOK'
  <2>1. PICK f \in late[s][k], beyond \in BOOLEAN, next \in Last :
          Receives(s, k, f.key, beyond, next)
    BY <1>8 DEF LateFrameArrives, Last
  <2>2. f.key \in BOOLEAN
    BY <1>t, <2>1 DEF Late
  <2>3. /\ requests' \in [Numbered -> 0 .. MaxRequests]
        /\ awaiting' \in [Sender -> [Numbered -> BOOLEAN]]
    BY <2>1, <2>2, ReceivesType
  <2>4. late' \in [Sender -> [Numbered -> SUBSET Late]]
    BY <1>t, <1>8 DEF LateFrameArrives
  <2> QED
    BY <1>t, <1>8, <2>3, <2>4 DEF SendTypeOK, LateFrameArrives
<1>9. ASSUME NEW s \in Sender,
             AudioArrives(s) \/ OtherPacketArrives(s) \/ ToggleVisibility(s)
      PROVE  SendTypeOK'
  BY <1>t, <1>9
     DEF SendTypeOK, AudioArrives, OtherPacketArrives, ToggleVisibility,
         sendVars, wayVars
<1>10. ASSUME NEW s \in Sender, SendHeartbeat(s)
       PROVE  SendTypeOK'
  <2>1. beats' \in [Sender -> SUBSET [Streams -> BOOLEAN]]
    BY <1>t, <1>10 DEF SendHeartbeat
  <2> QED
    BY <1>t, <1>10, <2>1 DEF SendTypeOK, SendHeartbeat, wayVars
<1>11. ASSUME NEW s \in Sender, NEW b \in beats[s],
              HeartbeatArrives(s, b) \/ HeartbeatLost(s, b)
       PROVE  SendTypeOK'
  <2>1. beats' \in [Sender -> SUBSET [Streams -> BOOLEAN]]
    BY <1>t, <1>11 DEF HeartbeatArrives, HeartbeatLost
  <2> QED
    BY <1>t, <1>11, <2>1
       DEF SendTypeOK, HeartbeatArrives, HeartbeatLost, wayVars
<1>12. ASSUME NEW s \in Sender, LeaveCall(s) \/ LeftLost(s) \/ NoticeArrives(s)
       PROVE  SendTypeOK'
  BY <1>t, <1>12
     DEF SendTypeOK, LeaveCall, LeftLost, NoticeArrives, sendVars, wayVars
<1>13. ASSUME NEW s \in Sender, LeftArrives(s) \/ BadPacketArrives(s)
       PROVE  SendTypeOK'
  <2>1. awaiting' \in [Sender -> [Numbered -> BOOLEAN]]
    BY <1>t, <1>13, ForgottenType DEF LeftArrives, BadPacketArrives
  <2> QED
    BY <1>t, <1>13, <2>1 DEF SendTypeOK, LeftArrives, BadPacketArrives, sendVars
<1>14. ASSUME NEW s \in Sender, SetScreenCanvas(s)
       PROVE  SendTypeOK'
  <2>1. requests["SCREEN"] + 1 \in 0 .. MaxRequests
    BY <1>t, <1>14, MaxRequestsAssumption DEF SetScreenCanvas
  <2>2. requests' \in [Numbered -> 0 .. MaxRequests]
    BY <1>t, <1>14, <2>1 DEF SetScreenCanvas
  <2> QED
    BY <1>t, <1>14, <2>2 DEF SendTypeOK, SetScreenCanvas, sendVars
<1>15. ASSUME NEW k \in Numbered, NEW reached \in SUBSET in_call,
              RequestReaches(k, reached)
       PROVE  SendTypeOK'
  <2>1. requests[k] - 1 \in 0 .. MaxRequests
    BY <1>t, <1>15, MaxRequestsAssumption DEF RequestReaches
  <2>2. requests' \in [Numbered -> 0 .. MaxRequests]
    BY <1>t, <1>15, <2>1 DEF RequestReaches
  <2>3. key' \in [Sender -> [Numbered -> BOOLEAN]]
    BY <1>t, <1>15 DEF RequestReaches
  <2> QED
    BY <1>t, <1>15, <2>2, <2>3 DEF SendTypeOK, RequestReaches
<1>16. CASE Monitor \/ ConnectionFailed
  <2>1. awaiting' \in [Sender -> [Numbered -> BOOLEAN]]
    BY <1>16, ForgottenType DEF Monitor, ConnectionFailed
  <2> QED
    BY <1>t, <1>16, <2>1 DEF SendTypeOK, Monitor, ConnectionFailed, sendVars
<1>17. CASE Tick
  BY <1>t, <1>17 DEF SendTypeOK, Tick, sendVars, wayVars
<1> QED
  BY <1>1, <1>2, <1>3, <1>4, <1>5, <1>6, <1>7, <1>8, <1>9, <1>10, <1>11,
     <1>12, <1>13, <1>14, <1>15, <1>16, <1>17 DEF Next

(* What the next frame is to the last one after a loss. *)
LEMMA AfterLossType ==
    ASSUME NEW last
    PROVE  AfterLoss(last) \subseteq Last
<1>1. CASE last = "none"
  BY <1>1 DEF AfterLoss, Last
<1>2. CASE last = "back"
  BY <1>2 DEF AfterLoss, Last
<1>3. CASE last \notin {"none", "back"}
  BY <1>3 DEF AfterLoss, Last
<1> QED
  BY <1>1, <1>2, <1>3

(* Every step of the whole keeps the client's peers sound. *)
LEMMA PeersStep == SendTypeOK /\ PeersInv /\ [Next]_vars => PeersInv'
<1> SUFFICES ASSUME SendTypeOK, PeersInv, [Next]_vars PROVE PeersInv'
  OBVIOUS
<1>n. "next" \in Last /\ Numbered \subseteq Streams /\ "AUDIO" \in Streams
  BY StreamsAssumption DEF Last, Numbered
<1>u. ASSUME UNCHANGED peerVars PROVE PeersInv'
  BY <1>u, PeersInvIs, PeersInvNext DEF peerVars
<1>1. CASE UNCHANGED vars
  BY <1>1, <1>u DEF vars
<1>2. ASSUME NEW s \in Sender, NEW k \in Streams, TurnOn(s, k)
      PROVE  PeersInv'
  <2>1. CASE k \in Numbered
    <3>1. PICK last \in Last :
            last = IF LastOf(s, k) = "none" THEN "none" ELSE "back"
      BY DEF Last
    <3>2. SetLast(s, k, last) /\ UNCHANGED silence
      BY <1>2, <2>1, <3>1 DEF TurnOn
    <3> QED
      BY <2>1, <3>2, SetLastInv
  <2>2. CASE k \notin Numbered
    BY <1>2, <1>u, <2>2 DEF TurnOn, peerVars
  <2> QED
    BY <2>1, <2>2
<1>3. ASSUME NEW s \in Sender, NEW k \in Streams,
             TurnOff(s, k) \/ SendHeartbeat(s) \/ LeaveCall(s) \/ LeftLost(s)
      PROVE  PeersInv'
  BY <1>3, <1>u DEF TurnOff, SendHeartbeat, LeaveCall, LeftLost
<1>4. ASSUME NEW s \in Sender, NEW k \in Numbered, NEW isKey \in BOOLEAN,
             FrameArrives(s, k, isKey)
      PROVE  PeersInv'
  <2>1. DecodeFrame(s, k, isKey, LastOf(s, k) = "ahead", "next")
    BY <1>4 DEF FrameArrives, Receives
  <2> QED
    BY <1>n, <2>1, DecodeFrameInv
<1>5. ASSUME NEW s \in Sender, NEW k \in Numbered, NEW isKey \in BOOLEAN,
             FrameLost(s, k, isKey) \/ FrameDelayed(s, k, isKey)
      PROVE  PeersInv'
  <2>1. PICK last \in AfterLoss(LastOf(s, k)) : SetLast(s, k, last)
    BY <1>5 DEF FrameLost, FrameDelayed
  <2>2. last \in Last
    BY <2>1, AfterLossType
  <2> QED
    BY <1>5, <2>1, <2>2, SetLastInv DEF FrameLost, FrameDelayed
<1>6. ASSUME NEW s \in Sender, NEW k \in Streams, NEW isKey \in BOOLEAN,
             FrameDropped(s, k, isKey)
      PROVE  PeersInv'
  <2>1. CASE k \in Numbered
    <3>1. PICK last \in AfterLoss(LastOf(s, k)) : SetLast(s, k, last)
      BY <1>6, <2>1 DEF FrameDropped
    <3>2. last \in Last
      BY <3>1, AfterLossType
    <3> QED
      BY <1>6, <2>1, <3>1, <3>2, SetLastInv DEF FrameDropped
  <2>2. CASE k \notin Numbered
    BY <1>6, <1>u, <2>2 DEF FrameDropped, peerVars
  <2> QED
    BY <2>1, <2>2
<1>7. ASSUME NEW s \in Sender, NEW k \in Numbered, LateFrameArrives(s, k)
      PROVE  PeersInv'
  <2>1. PICK f \in late[s][k], beyond \in BOOLEAN, next \in Last :
          Receives(s, k, f.key, beyond, next)
    BY <1>7 DEF LateFrameArrives, Last
  <2>2. DecodeFrame(s, k, f.key, beyond, next)
    BY <2>1 DEF Receives
  <2> QED
    BY <1>n, <2>1, <2>2, DecodeFrameInv
<1>8. ASSUME NEW s \in Sender, AudioArrives(s)
      PROVE  PeersInv'
  BY <1>8, <1>n, DecodeFrameInv DEF AudioArrives
<1>9. ASSUME NEW s \in Sender, NEW b \in beats[s], HeartbeatArrives(s, b)
      PROVE  PeersInv'
  <2>1. b \in [Streams -> BOOLEAN]
    BY <1>9 DEF SendTypeOK
  <2> QED
    BY <1>9, <2>1, DecodeHeartbeatInv DEF HeartbeatArrives
<1>10. ASSUME NEW s \in Sender, NEW b \in beats[s], HeartbeatLost(s, b)
       PROVE  PeersInv'
  BY <1>10, <1>u DEF HeartbeatLost
<1>11. ASSUME NEW s \in Sender, LeftArrives(s)
       PROVE  PeersInv'
  BY <1>11, RemovePeersInv DEF LeftArrives, DeletePeer
<1>12. ASSUME NEW s \in Sender, NoticeArrives(s) \/ OtherPacketArrives(s)
       PROVE  PeersInv'
  BY <1>12, OtherPacketInv DEF NoticeArrives, OtherPacketArrives
<1>13. ASSUME NEW s \in Sender, BadPacketArrives(s)
       PROVE  PeersInv'
  BY <1>13, BadPacketInv DEF BadPacketArrives
<1>14. ASSUME NEW s \in Sender, ToggleVisibility(s)
       PROVE  PeersInv'
  BY <1>14, SetPeerVisibilityInv DEF ToggleVisibility
<1>15. ASSUME NEW s \in Sender, SetScreenCanvas(s)
       PROVE  PeersInv'
  BY <1>15, <1>u DEF SetScreenCanvas
<1>16. ASSUME NEW k \in Numbered, NEW reached \in SUBSET in_call,
              RequestReaches(k, reached)
       PROVE  PeersInv'
  BY <1>16, <1>u DEF RequestReaches
<1>17. CASE Monitor
  BY <1>17, RunPeerMonitorInv DEF Monitor
<1>18. CASE ConnectionFailed
  BY <1>18, RemovePeersInv DEF ConnectionFailed, ClearAllPeers
<1>19. CASE Tick
  BY <1>19, PeersTickInv DEF Tick
<1> QED
  BY <1>1, <1>2, <1>3, <1>4, <1>5, <1>6, <1>7, <1>8, <1>9, <1>10, <1>11,
     <1>12, <1>13, <1>14, <1>15, <1>16, <1>17, <1>18, <1>19, <1>n DEF Next

(* Both hold at first. *)
LEMMA FeedbackInitOK == Init => SendTypeOK /\ PeersInv
<1> SUFFICES ASSUME Init PROVE SendTypeOK /\ PeersInv
  OBVIOUS
<1>1. 0 \in 0 .. MaxRequests /\ 0 \in 0 .. 3
  BY MaxRequestsAssumption
<1>2. SendTypeOK
  BY <1>1 DEF Init, SendTypeOK, AllOff
<1>3. DOMAIN peers = {} /\ silence \in [Sender -> 0 .. 3]
  BY <1>1 DEF Init, PeersInit
<1>4. PeersInv
  BY <1>3, PeersInvIs
<1> QED
  BY <1>2, <1>4

(* The inductive invariant of clients and senders. *)
THEOREM FeedbackInvariant == Spec => [](SendTypeOK /\ PeersInv)
BY FeedbackInitOK, SendTypeStep, PeersStep, PTL DEF Spec

(* Every variable of the whole keeps its type, whatever is lost, delayed,   *)
(* dropped or repeated and however many senders there are.                  *)
THEOREM FeedbackTypeCorrect == Spec => []TypeOK
<1>1. SendTypeOK /\ PeersInv /\ RelayTypeOK => TypeOK
  BY DEF SendTypeOK, PeersInv, TypeOK
<1> QED
  BY <1>1, FeedbackInvariant, FeedbackImplementsRelay, RelayTypeCorrect, PTL

(* A peer's audio decoder is muted exactly while its microphone counts as   *)
(* off (Peer::decode, which writes the one or the other in four places).    *)
THEOREM MuteIsAudioOff == Spec => []MuteFollowsAudio
<1>1. PeersInv => MuteFollowsAudio
  BY DEF PeersInv
<1> QED
  BY <1>1, FeedbackInvariant, PTL

(* The monitor removes a peer only after three whole intervals without a    *)
(* packet of it (run_peer_monitor, check_heartbeat).                        *)
THEOREM ActivePeersAreSpared == Spec => MonitorSparesActive
<1>1. ASSUME PeersInv, RunPeerMonitor, NEW s \in DOMAIN peers \ DOMAIN peers'
      PROVE  silence[s] >= 3
  <2>1. DOMAIN peers' = {t \in DOMAIN peers : ~IsDead(peers[t])}
    BY <1>1 DEF RunPeerMonitor
  <2>2. IsDead(peers[s]) /\ s \in DOMAIN peers
    BY <1>1, <2>1
  <2>3. silence[s] >= peers[s].missed + 1
    BY <1>1, <2>2, PeersInvIs DEF IsDead
  <2> QED
    BY <2>2, <2>3 DEF IsDead
<1>2. PeersInv =>
        [RunPeerMonitor =>
            \A s \in DOMAIN peers \ DOMAIN peers' : silence[s] >= 3]_peerVars
  BY <1>1
<1> QED
  BY <1>2, FeedbackInvariant, PTL DEF MonitorSparesActive

(* Relay and clients stay sound under loss, delay and reordering, for any   *)
(* number of senders and any windows, thresholds and intervals: a sender    *)
(* whose packets are dropped is told, forwarded requests are bounded, and a *)
(* peer is muted exactly while its audio is off.                            *)
THEOREM FeedbackStaysSound == Spec => []FeedbackSound
<1>1. TypeOK /\ CongestionIsReported /\ ForwardBound /\ MuteFollowsAudio
          => FeedbackSound
  BY DEF FeedbackSound
<1> QED
  BY <1>1, FeedbackTypeCorrect, MuteIsAudioOff, FeedbackImplementsRelay,
     RelayReportsCongestion, RelayForwardBound, PTL
=============================================================================
