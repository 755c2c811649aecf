---------------------------- MODULE QualityControl ----------------------------
(***************************************************************************)
(* How a client that sends adapts its quality: the control loop of an      *)
(* encoder (set_encoder_control in videocall-client/src/encode/            *)
(* camera_encoder.rs and screen_encoder.rs), the EncoderBitrateController  *)
(* it owns and that one's AdaptiveQualityManager (videocall-client/src/    *)
(* diagnostics/).                                                          *)
(*                                                                         *)
(* The loop runs once for every DIAGNOSTICS packet of its media type.  Of  *)
(* the frame rates and bitrates only the range is kept that the manager's  *)
(* thresholds tell apart; which range a report shows is left open, as are  *)
(* the PID controller and the bitrate it yields.                           *)
(***************************************************************************)
EXTENDS Ages

CONSTANTS
    Media,                          \* "VIDEO" for a camera, or "SCREEN"
    VideoTiers,                     \* 4 for a camera, 3 for a screen
    AudioTiers,                     \* 4
    StartTier,                      \* DEFAULT_VIDEO_TIER_INDEX, 3
    InitSamples,                    \* samples before the first reaction, 3
    QUALITY_WARMUP,                 \* 5000 ms
    MIN_TIER_TRANSITION_INTERVAL,   \* 3000 ms
    STEP_DOWN_REACTION_TIME,        \* 1500 ms
    STEP_UP_STABILIZATION_WINDOW,   \* 5000 ms
    PID_CORRECTION_THROTTLE,        \* 1000 ms
    NoTimer                         \* a timer that is not running

ASSUME TiersAssumption ==
    /\ Media \in {"VIDEO", "SCREEN"}
    /\ VideoTiers \in Nat \ {0}
    /\ AudioTiers \in Nat \ {0}
    /\ StartTier \in Nat
    /\ InitSamples \in Nat \ {0}
ASSUME TimesAssumption ==
    /\ QUALITY_WARMUP \in Nat
    /\ MIN_TIER_TRANSITION_INTERVAL \in Nat \ {0}
    /\ STEP_DOWN_REACTION_TIME \in Nat \ {0}
    /\ STEP_UP_STABILIZATION_WINDOW \in Nat
    /\ PID_CORRECTION_THROTTLE \in Nat
    /\ NoTimer \notin Nat

VARIABLES
    manager,     \* the AdaptiveQualityManager
    samples,     \* reports seen, until there are enough
    correction,  \* age of last_correction_time
    congestion,  \* congestion_step_down
    applied,     \* the tiers the encoders are told to use
    loop,        \* the control loop is "running" or "panicked"
    seen         \* history: what the last report showed

qualityVars == <<manager, samples, correction, congestion, applied, loop, seen>>

(* Tiers are numbered from the best, 0. *)
LowestVideo == VideoTiers - 1
LowestAudio == AudioTiers - 1

(* Ranges of received over sent frames per second: below 0.3, below 0.5, up *)
(* to 0.6, up to 0.85, above.                                               *)
FpsRange == 0 .. 4

(* Ranges of the bitrate over the tier's ideal one: below 0.4, up to 0.75,  *)
(* above.                                                                   *)
BitrateRange == {"low", "middle", "high"}

(* The encoders begin with the settings of tier 0. *)
QualityInit ==
    /\ manager = [video |-> StartTier, audio |-> 0,
                  created |-> 0, transition |-> 0,
                  degrade |-> NoTimer, recover |-> NoTimer,
                  audio_degrade |-> NoTimer, audio_recover |-> NoTimer]
    /\ samples = 0
    /\ correction = PID_CORRECTION_THROTTLE
    /\ congestion = FALSE
    /\ applied = [video |-> 0, audio |-> 0]
    /\ loop = "running"
    /\ seen = "nothing"

-----------------------------------------------------------------------------
(* The AdaptiveQualityManager *)

(* A timer that runs from now on if it did not yet, while a condition lasts *)
Timer_Restarted(timer, lasts) == IF lasts THEN 0 ELSE NoTimer
Timer_Kept(timer, lasts) == IF timer = NoTimer /\ lasts THEN 0 ELSE timer

Timer(timer, lasts) ==
    IF ~lasts THEN NoTimer ELSE IF timer = NoTimer THEN 0 ELSE timer

IsOver(timer, limit) == timer # NoTimer /\ timer >= limit

CanTransition(m) == m.transition >= MIN_TIER_TRANSITION_INTERVAL

IsWarm(m) == m.created >= QUALITY_WARMUP

VideoTo(m, tier) ==
    [m EXCEPT !.video = tier, !.transition = 0,
              !.degrade = NoTimer, !.recover = NoTimer]

(* update_video_tier; can says whether enough time passed since the last    *)
(* transition.                                                              *)
WithVideoTier(m, fps, bitrate, can) ==
    LET degrade == Timer(m.degrade, /\ fps <= 1 \/ bitrate = "low"
                                    /\ m.video < LowestVideo)
        recover == Timer(m.recover, /\ fps = 4 /\ bitrate = "high"
                                    /\ m.video > 0)
    IN  IF can /\ IsOver(degrade, STEP_DOWN_REACTION_TIME)
        THEN VideoTo(m, m.video + 1)
        ELSE IF can /\ IsOver(recover, STEP_UP_STABILIZATION_WINDOW)
        THEN VideoTo(m, m.video - 1)
        ELSE [m EXCEPT !.degrade = degrade, !.recover = recover]

AudioTo(m, tier) ==
    [m EXCEPT !.audio = tier, !.transition = 0,
              !.audio_degrade = NoTimer, !.audio_recover = NoTimer]

(* update_audio_tier: audio degrades while video is at its lowest tier. *)
WithAudioTier_KeepsTimer(m, fps, can) ==
    LET degrade == Timer_Kept(m.audio_degrade, /\ m.video >= LowestVideo
                                               /\ fps = 0
                                               /\ m.audio < LowestAudio)
        recover == Timer(m.audio_recover, fps >= 3 /\ m.audio > 0)
    IN  IF can /\ IsOver(degrade, STEP_DOWN_REACTION_TIME)
        THEN AudioTo(m, Least(m.audio + 1, LowestAudio))
        ELSE IF can /\ IsOver(recover, STEP_UP_STABILIZATION_WINDOW)
        THEN AudioTo(m, m.audio - 1)
        ELSE [m EXCEPT !.audio_degrade = degrade, !.audio_recover = recover]

WithAudioTier(m, fps, can) ==
    LET degrade == Timer(m.audio_degrade, /\ m.video >= LowestVideo
                                          /\ fps = 0
                                          /\ m.audio < LowestAudio)
        recover == Timer(m.audio_recover, fps >= 3 /\ m.audio > 0)
    IN  IF can /\ IsOver(degrade, STEP_DOWN_REACTION_TIME)
        THEN AudioTo(m, m.audio + 1)
        ELSE IF can /\ IsOver(recover, STEP_UP_STABILIZATION_WINDOW)
        THEN AudioTo(m, m.audio - 1)
        ELSE [m EXCEPT !.audio_degrade = degrade, !.audio_recover = recover]

(* update: the two may both change tier, for the interval is looked at once *)
Updated(m, fps, bitrate) ==
    IF IsWarm(m)
    THEN WithAudioTier(WithVideoTier(m, fps, bitrate, CanTransition(m)),
                       fps, CanTransition(m))
    ELSE m

(* force_video_step_down *)
SteppedDown_NotReset(m) ==
    IF IsWarm(m) /\ m.video < LowestVideo /\ CanTransition(m)
    THEN [m EXCEPT !.video = @ + 1]
    ELSE m

SteppedDown(m) ==
    IF IsWarm(m) /\ m.video < LowestVideo /\ CanTransition(m)
    THEN VideoTo(m, m.video + 1)
    ELSE m

Tiers(m) == [video |-> m.video, audio |-> m.audio]

-----------------------------------------------------------------------------
(* The control loop *)

(* A CONGESTION packet for what the client takes for its own session sets   *)
(* the flag, which the loop of a camera looks at.                           *)
CongestionSignal ==
    /\ Media = "VIDEO"
    /\ ~congestion
    /\ congestion' = TRUE
    /\ UNCHANGED <<manager, samples, correction, applied, loop, seen>>

(* The manager when the loop has looked at the flag. *)
Signalled == IF congestion THEN SteppedDown(manager) ELSE manager

(* What the encoders are told: a screen's loop has no say in the audio tier *)
Told(m) == [video |-> m.video,
            audio |-> IF Media = "VIDEO" THEN m.audio ELSE applied.audio]

(* A tier change is passed to the encoders (take_tier_changed). *)
Applied_Regular(m) ==
    IF Tiers(m) # Tiers(Signalled) THEN Told(m) ELSE applied

Applied(m) == IF Tiers(m) # Tiers(manager) THEN Told(m) ELSE applied

Seen(fps, bitrate) ==
    CASE fps = 0 -> "bad"
      [] fps = 4 /\ bitrate = "high" -> "good"
      [] OTHER -> "other"

(* The report comes too soon after the last one that counted. *)
ReportThrottled ==
    /\ correction < PID_CORRECTION_THROTTLE
    /\ manager' = Signalled
    /\ applied' = Applied(manager')
    /\ UNCHANGED <<samples, correction, loop, seen>>

(* The encoder has not produced a frame yet: target_fps is zero. *)
ReportUnused ==
    /\ correction >= PID_CORRECTION_THROTTLE
    /\ samples = 0
    /\ manager' = Signalled
    /\ applied' = Applied(manager')
    /\ correction' = 0
    /\ UNCHANGED <<samples, loop, seen>>

(* One of the first reports is only remembered. *)
ReportSampled ==
    /\ correction >= PID_CORRECTION_THROTTLE
    /\ samples + 1 < InitSamples
    /\ samples' = samples + 1
    /\ manager' = Signalled
    /\ applied' = Applied(manager')
    /\ correction' = 0
    /\ UNCHANGED <<loop, seen>>

(* The manager is asked for the tier in use, then updated. *)
ReportUsed(fps, bitrate) ==
    /\ correction >= PID_CORRECTION_THROTTLE
    /\ samples + 1 >= InitSamples
    /\ samples' = Least(samples + 1, InitSamples)
    /\ IF Signalled.video > LowestVideo
       THEN /\ loop' = "panicked"
            /\ UNCHANGED <<manager, applied, correction, seen>>
       ELSE /\ manager' = Updated(Signalled, fps, bitrate)
            /\ applied' = Applied(manager')
            /\ correction' = 0
            /\ seen' = Seen(fps, bitrate)
            /\ UNCHANGED loop

(* A DIAGNOSTICS packet, from any client and about any client's stream. *)
Report(fps, bitrate) ==
    /\ loop = "running"
    /\ congestion' = FALSE
    /\ \/ ReportThrottled
       \/ ReportUnused
       \/ ReportSampled
       \/ ReportUsed(fps, bitrate)

AgedTimer(timer, limit) ==
    IF timer = NoTimer THEN NoTimer ELSE Aged(timer, limit)

QualityTick ==
    /\ manager' =
           [manager EXCEPT
               !.created = Aged(@, QUALITY_WARMUP),
               !.transition = Aged(@, MIN_TIER_TRANSITION_INTERVAL),
               !.degrade = AgedTimer(@, STEP_DOWN_REACTION_TIME),
               !.recover = AgedTimer(@, STEP_UP_STABILIZATION_WINDOW),
               !.audio_degrade = AgedTimer(@, STEP_DOWN_REACTION_TIME),
               !.audio_recover = AgedTimer(@, STEP_UP_STABILIZATION_WINDOW)]
    /\ correction' = Aged(correction, PID_CORRECTION_THROTTLE)
    /\ UNCHANGED <<samples, congestion, applied, loop, seen>>

AnyReport == \E fps \in FpsRange, bitrate \in BitrateRange : Report(fps, bitrate)

QualityNext ==
    \/ CongestionSignal
    \/ AnyReport
    \/ QualityTick

QualitySpec == QualityInit /\ [][QualityNext]_qualityVars

(* Time passes, and receivers report periodically. *)
QualityFairness ==
    /\ WF_qualityVars(QualityTick)
    /\ WF_qualityVars(AnyReport)

QualityFairSpec == QualitySpec /\ QualityFairness

-----------------------------------------------------------------------------
(* Properties *)

(* The type of the control loop's state. *)
QualityTypeOK ==
    /\ manager \in [video : Nat, audio : 0 .. LowestAudio,
                    created : 0 .. QUALITY_WARMUP,
                    transition : 0 .. MIN_TIER_TRANSITION_INTERVAL,
                    degrade : 0 .. STEP_DOWN_REACTION_TIME \cup {NoTimer},
                    recover : 0 .. STEP_UP_STABILIZATION_WINDOW \cup {NoTimer},
                    audio_degrade :
                        0 .. STEP_DOWN_REACTION_TIME \cup {NoTimer},
                    audio_recover :
                        0 .. STEP_UP_STABILIZATION_WINDOW \cup {NoTimer}]
    /\ samples \in 0 .. InitSamples
    /\ correction \in 0 .. PID_CORRECTION_THROTTLE
    /\ congestion \in BOOLEAN
    /\ applied \in [video : 0 .. LowestVideo, audio : 0 .. LowestAudio]
    /\ loop \in {"running", "panicked"}
    /\ seen \in {"nothing", "bad", "other", "good"}

(* "Audio bitrate (only when video is already at the lowest tier)": audio   *)
(* steps down only if video was at its lowest tier before the report, and   *)
(* stays there, although video steps down and up in the meantime and a      *)
(* forced step down may come with the same report.                          *)
AudioDegradesLast ==
    [][manager'.audio > manager.audio =>
           manager.video = LowestVideo /\ manager'.video = LowestVideo]_qualityVars

(* "Still respects the minimum transition interval to avoid cascading       *)
(* step-downs" (force_video_step_down): a report changes a tier by one step *)
(* at most, even when a congestion signal is handled with it.               *)
OneStepPerReport ==
    [][/\ manager'.video - manager.video \in {-1, 0, 1}
       /\ manager'.audio - manager.audio \in {-1, 0, 1}]_qualityVars

(* Each begins with a tier of its own, but from the manager's first change  *)
(* on, be it by its own decision or forced, the encoders use its tiers.     *)
EncodersFollow ==
    \/ applied = Told(manager)
    \/ /\ applied = [video |-> 0, audio |-> 0]
       /\ Tiers(manager) = [video |-> StartTier, audio |-> 0]

\* The tiers exist and the encoders use those the manager has chosen, on
\* every path a report takes (update, force_video_step_down,
\* take_tier_changed).
QualitySound ==
    /\ QualityTypeOK
    /\ EncodersFollow

(* While every report is good and no congestion is signalled the quality    *)
(* comes back to the best tiers, and while every report is bad it ends at   *)
(* the lowest ones: no order of earlier reports and signals leaves a timer  *)
(* in the way.                                                              *)
QualityConverges ==
    /\ <>[](seen = "good" /\ ~congestion) =>
           <>[](Tiers(manager) = [video |-> 0, audio |-> 0])
    /\ <>[](seen = "bad") =>
           <>[](Tiers(manager) = [video |-> LowestVideo, audio |-> LowestAudio])

-----------------------------------------------------------------------------
(* What comments of the code say and the code does not do *)

(* "Create a new bitrate controller using a custom video tier array (e.g.,  *)
(* `SCREEN_QUALITY_TIERS` for screen share)" (new_with_tiers): the control  *)
(* loop it is created for goes on.                                          *)
ControlSurvives == loop = "running"

(* "the first tier transition the user sees is a quality *improvement*, not *)
(* a jarring resolution drop" (DEFAULT_VIDEO_TIER_INDEX): the encoders      *)
(* begin with tier 0 whatever the manager begins with, so that the first    *)
(* change they are told, to tier StartTier - 1, is a drop.                  *)
FirstChangeImproves ==
    [][applied = [video |-> 0, audio |-> 0] /\ applied' # applied
           /\ Tiers(manager) = [video |-> StartTier, audio |-> 0]
       => applied'.video <= applied.video]_qualityVars
=============================================================================
