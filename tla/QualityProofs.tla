---------------------------- MODULE QualityProofs -----------------------------
(***************************************************************************)
(* Proofs about QualityControl: what the control loop does with the tiers, *)
(* for any number of tiers and any of the times.                           *)
(***************************************************************************)
EXTENDS QualityControl, TLAPS

Timers(limit) == (0 .. limit) \cup {NoTimer}

Managers == [video : Nat, audio : 0 .. LowestAudio,
             created : 0 .. QUALITY_WARMUP,
             transition : 0 .. MIN_TIER_TRANSITION_INTERVAL,
             degrade : Timers(STEP_DOWN_REACTION_TIME),
             recover : Timers(STEP_UP_STABILIZATION_WINDOW),
             audio_degrade : Timers(STEP_DOWN_REACTION_TIME),
             audio_recover : Timers(STEP_UP_STABILIZATION_WINDOW)]

USE TiersAssumption, TimesAssumption DEF LowestVideo, LowestAudio

(* The timers keep their types when a condition begins, lasts or ends, and  *)
(* when time passes.                                                        *)
LEMMA TimerType ==
    ASSUME NEW limit \in Nat, NEW timer \in Timers(limit), NEW lasts \in BOOLEAN
    PROVE  /\ Timer(timer, lasts) \in Timers(limit)
           /\ AgedTimer(timer, limit) \in Timers(limit)
BY DEF Timer, Timers, AgedTimer, Aged, Least

(* A timer may be stopped, and a transition is one of age zero. *)
LEMMA StoppedTimer ==
    /\ NoTimer \in Timers(STEP_DOWN_REACTION_TIME)
    /\ NoTimer \in Timers(STEP_UP_STABILIZATION_WINDOW)
    /\ 0 \in 0 .. MIN_TIER_TRANSITION_INTERVAL
BY DEF Timers

(* What a change of the video tier changes of the manager. *)
LEMMA VideoToFacts ==
    ASSUME NEW m \in Managers, NEW tier \in Nat
    PROVE  /\ VideoTo(m, tier) \in Managers
           /\ VideoTo(m, tier).video = tier
           /\ VideoTo(m, tier).transition = 0
           /\ VideoTo(m, tier).audio = m.audio
           /\ VideoTo(m, tier).audio_degrade = m.audio_degrade
BY StoppedTimer DEF VideoTo, Managers

(* What a change of the audio tier changes of the manager. *)
LEMMA AudioToFacts ==
    ASSUME NEW m \in Managers, NEW tier \in 0 .. LowestAudio,
           NEW n, n = AudioTo(m, tier)
    PROVE  /\ n \in Managers
           /\ n.audio = tier /\ n.video = m.video
           /\ n.audio_degrade = NoTimer
BY StoppedTimer DEF AudioTo, Managers

(* update_video_tier changes the video tier by one step at most, within its *)
(* range, and only if it may.                                               *)
LEMMA WithVideoTierFacts ==
    ASSUME NEW m \in Managers, m.video <= LowestVideo,
           NEW fps \in FpsRange, NEW bitrate \in BitrateRange,
           NEW can \in BOOLEAN
    PROVE  LET n == WithVideoTier(m, fps, bitrate, can)
           IN
           /\ n \in Managers
           /\ n.video <= LowestVideo
           /\ n.video - m.video \in {-1, 0, 1}
           /\ ~can => n.video = m.video
           /\ n.audio = m.audio
           /\ n.audio_degrade = m.audio_degrade
<1> DEFINE n == WithVideoTier(m, fps, bitrate, can)
           down == (fps <= 1 \/ bitrate = "low") /\ m.video < LowestVideo
           up == fps = 4 /\ bitrate = "high" /\ m.video > 0
           degrade == Timer(m.degrade, down)
           recover == Timer(m.recover, up)
<1>1. /\ degrade \in Timers(STEP_DOWN_REACTION_TIME)
      /\ recover \in Timers(STEP_UP_STABILIZATION_WINDOW)
      /\ degrade # NoTimer => m.video < LowestVideo
      /\ recover # NoTimer => m.video > 0
  <2>1. /\ m.degrade \in Timers(STEP_DOWN_REACTION_TIME)
        /\ m.recover \in Timers(STEP_UP_STABILIZATION_WINDOW)
    BY DEF Managers
  <2> QED
    BY <2>1, TimerType DEF Timer
<1>2. n = IF can /\ IsOver(degrade, STEP_DOWN_REACTION_TIME)
          THEN VideoTo(m, m.video + 1)
          ELSE IF can /\ IsOver(recover, STEP_UP_STABILIZATION_WINDOW)
          THEN VideoTo(m, m.video - 1)
          ELSE [m EXCEPT !.degrade = degrade, !.recover = recover]
  BY DEF WithVideoTier
<1> HIDE DEF n, degrade, recover
<1> DEFINE Goal == /\ n \in Managers
                   /\ n.video <= LowestVideo
                   /\ n.video - m.video \in {-1, 0, 1}
                   /\ ~can => n.video = m.video
                   /\ n.audio = m.audio
                   /\ n.audio_degrade = m.audio_degrade
<1> SUFFICES Goal
  BY DEF n
<1>3. CASE can /\ IsOver(degrade, STEP_DOWN_REACTION_TIME)
  <2>1. m.video \in Nat /\ m.video < LowestVideo
    BY <1>1, <1>3 DEF IsOver, Managers
  <2>2. PICK tier \in Nat : tier = m.video + 1 /\ n = VideoTo(m, tier)
    BY <1>2, <1>3, <2>1
  <2>3. /\ n \in Managers /\ n.video = tier
        /\ n.audio = m.audio /\ n.audio_degrade = m.audio_degrade
    BY <2>2, VideoToFacts
  <2>4. n.video <= LowestVideo /\ n.video - m.video \in {-1, 0, 1}
    BY <2>1, <2>2, <2>3
  <2> QED
    BY <1>3, <2>3, <2>4
<1>4. CASE /\ ~(can /\ IsOver(degrade, STEP_DOWN_REACTION_TIME))
           /\ can /\ IsOver(recover, STEP_UP_STABILIZATION_WINDOW)
  <2>1. m.video \in Nat /\ m.video > 0
    BY <1>1, <1>4 DEF IsOver, Managers
  <2>2. PICK tier \in Nat : tier = m.video - 1 /\ n = VideoTo(m, tier)
    BY <1>2, <1>4, <2>1
  <2>3. /\ n \in Managers /\ n.video = tier
        /\ n.audio = m.audio /\ n.audio_degrade = m.audio_degrade
    BY <2>2, VideoToFacts
  <2>4. n.video <= LowestVideo /\ n.video - m.video \in {-1, 0, 1}
    BY <2>1, <2>2, <2>3
  <2> QED
    BY <1>4, <2>3, <2>4
<1>5. CASE /\ ~(can /\ IsOver(degrade, STEP_DOWN_REACTION_TIME))
           /\ ~(can /\ IsOver(recover, STEP_UP_STABILIZATION_WINDOW))
  <2>1. n = [m EXCEPT !.degrade = degrade, !.recover = recover]
    BY <1>2, <1>5
  <2>2. n \in Managers
    BY <1>1, <2>1 DEF Managers
  <2>3. /\ n.video = m.video /\ n.audio = m.audio
        /\ n.audio_degrade = m.audio_degrade /\ m.video \in Nat
    BY <2>1 DEF Managers
  <2> QED
    BY <2>2, <2>3
<1> QED
  BY <1>3, <1>4, <1>5

(* update_audio_tier changes the audio tier by one step at most and only if *)
(* it may; it degrades only where the timer already ran, and the timer runs *)
(* only while video is at its lowest tier.                                  *)
LEMMA WithAudioTierFacts ==
    ASSUME NEW m \in Managers, NEW fps \in FpsRange, NEW can \in BOOLEAN,
           NEW n, n = WithAudioTier(m, fps, can)
    PROVE  /\ n \in Managers
           /\ n.video = m.video
           /\ n.audio - m.audio \in {-1, 0, 1}
           /\ ~can => n.audio = m.audio
           /\ n.audio > m.audio =>
                  m.video >= LowestVideo /\ m.audio_degrade # NoTimer
           /\ n.audio_degrade # NoTimer => n.video >= LowestVideo
<1> DEFINE down == m.video >= LowestVideo /\ fps = 0 /\ m.audio < LowestAudio
           up == fps >= 3 /\ m.audio > 0
           degrade == Timer(m.audio_degrade, down)
           recover == Timer(m.audio_recover, up)
<1>1. /\ degrade \in Timers(STEP_DOWN_REACTION_TIME)
      /\ recover \in Timers(STEP_UP_STABILIZATION_WINDOW)
      /\ degrade # NoTimer => down
      /\ recover # NoTimer => m.audio > 0
      /\ degrade # NoTimer /\ degrade # 0 => m.audio_degrade # NoTimer
  <2>1. /\ m.audio_degrade \in Timers(STEP_DOWN_REACTION_TIME)
        /\ m.audio_recover \in Timers(STEP_UP_STABILIZATION_WINDOW)
    BY DEF Managers
  <2> QED
    BY <2>1, TimerType DEF Timer
<1>2. n = IF can /\ IsOver(degrade, STEP_DOWN_REACTION_TIME)
          THEN AudioTo(m, m.audio + 1)
          ELSE IF can /\ IsOver(recover, STEP_UP_STABILIZATION_WINDOW)
          THEN AudioTo(m, m.audio - 1)
          ELSE [m EXCEPT !.audio_degrade = degrade, !.audio_recover = recover]
  BY DEF WithAudioTier
<1> HIDE DEF degrade, recover
<1>3. CASE can /\ IsOver(degrade, STEP_DOWN_REACTION_TIME)
  <2>1. /\ m.audio \in 0 .. LowestAudio /\ m.audio < LowestAudio
        /\ m.video >= LowestVideo /\ m.audio_degrade # NoTimer
    BY <1>1, <1>3 DEF IsOver, Managers
  <2> QED
    BY <1>2, <1>3, <2>1, AudioToFacts
<1>4. CASE /\ ~(can /\ IsOver(degrade, STEP_DOWN_REACTION_TIME))
           /\ can /\ IsOver(recover, STEP_UP_STABILIZATION_WINDOW)
  <2>1. m.audio \in 0 .. LowestAudio /\ m.audio > 0
    BY <1>1, <1>4 DEF IsOver, Managers
  <2> QED
    BY <1>2, <1>4, <2>1, AudioToFacts
<1>5. CASE /\ ~(can /\ IsOver(degrade, STEP_DOWN_REACTION_TIME))
           /\ ~(can /\ IsOver(recover, STEP_UP_STABILIZATION_WINDOW))
  <2>1. n = [m EXCEPT !.audio_degrade = degrade, !.audio_recover = recover]
    BY <1>2, <1>5
  <2>2. n \in Managers
    BY <1>1, <2>1 DEF Managers
  <2>3. /\ n.video = m.video /\ n.audio = m.audio
        /\ n.audio_degrade = degrade /\ m.audio \in 0 .. LowestAudio
    BY <2>1 DEF Managers
  <2> QED
    BY <1>1, <2>2, <2>3
<1> QED
  BY <1>3, <1>4, <1>5

(* force_video_step_down either does nothing, or takes one step down and    *)
(* forbids any further transition for the interval.                         *)
LEMMA SteppedDownFacts ==
    ASSUME NEW m \in Managers, NEW n, n = SteppedDown(m)
    PROVE  /\ n \in Managers
           /\ \/ n = m
              \/ /\ m.video < LowestVideo /\ n.video = m.video + 1
                 /\ n.audio = m.audio /\ n.audio_degrade = m.audio_degrade
                 /\ ~CanTransition(n)
<1>1. CASE n = m
  BY <1>1
<1>2. CASE n # m
  <2>1. m.video < LowestVideo /\ n = VideoTo(m, m.video + 1)
    BY <1>2 DEF SteppedDown
  <2>2. PICK tier \in Nat : tier = m.video + 1 /\ n = VideoTo(m, tier)
    BY <2>1 DEF Managers
  <2>3. /\ n \in Managers /\ n.video = m.video + 1 /\ n.transition = 0
        /\ n.audio = m.audio /\ n.audio_degrade = m.audio_degrade
    BY <2>2, VideoToFacts
  <2> QED
    BY <2>1, <2>3 DEF CanTransition
<1> QED
  BY <1>1, <1>2

(* update, when the manager has been asked for its tier before. *)
LEMMA UpdatedFacts ==
    ASSUME NEW m \in Managers, m.video <= LowestVideo,
           m.audio_degrade # NoTimer => m.video >= LowestVideo,
           NEW fps \in FpsRange, NEW bitrate \in BitrateRange,
           NEW n, n = Updated(m, fps, bitrate)
    PROVE  /\ n \in Managers
           /\ n.video <= LowestVideo
           /\ n.video - m.video \in {-1, 0, 1}
           /\ n.audio - m.audio \in {-1, 0, 1}
           /\ ~CanTransition(m) => n.video = m.video /\ n.audio = m.audio
           /\ n.audio > m.audio =>
                  m.video = LowestVideo /\ n.video = LowestVideo
           /\ n.audio_degrade # NoTimer => n.video >= LowestVideo
<1>1. CASE ~IsWarm(m)
  BY <1>1 DEF Updated, Managers
<1>2. CASE IsWarm(m)
  <2> DEFINE can == CanTransition(m)
             v == WithVideoTier(m, fps, bitrate, can)
  <2>1. can \in BOOLEAN
    BY DEF CanTransition
  <2>2. n = WithAudioTier(v, fps, can)
    BY <1>2 DEF Updated
  <2> HIDE DEF can
  <2>3. /\ v \in Managers /\ v.video <= LowestVideo
        /\ v.video - m.video \in {-1, 0, 1}
        /\ ~can => v.video = m.video
        /\ v.audio = m.audio /\ v.audio_degrade = m.audio_degrade
    BY <2>1, WithVideoTierFacts
  <2> HIDE DEF v
  <2>4. /\ n \in Managers /\ n.video = v.video
        /\ n.audio - v.audio \in {-1, 0, 1}
        /\ ~can => n.audio = v.audio
        /\ n.audio > v.audio =>
               v.video >= LowestVideo /\ v.audio_degrade # NoTimer
        /\ n.audio_degrade # NoTimer => n.video >= LowestVideo
    BY <2>1, <2>2, <2>3, WithAudioTierFacts
  <2>5. m.video \in Nat /\ v.video \in Nat
    BY <2>3 DEF Managers
  <2> QED
    BY <2>3, <2>4, <2>5 DEF can
<1> QED
  BY <1>1, <1>2

-----------------------------------------------------------------------------
(* The inductive invariant *)

(* A running audio timer is evidence of video at its lowest tier: without   *)
(* it, audio might degrade on a timer from before video recovered.          *)
AudioTimerSound == manager.audio_degrade # NoTimer => manager.video >= LowestVideo

QualityInv == QualityTypeOK /\ EncodersFollow /\ AudioTimerSound

(* What a step may do to the tiers. *)
MayBecome(m, n) ==
    /\ n.video - m.video \in {-1, 0, 1}
    /\ n.audio - m.audio \in {-1, 0, 1}
    /\ n.audio > m.audio => m.video = LowestVideo /\ n.video = LowestVideo

(* The congestion flag is looked at before every report. *)
LEMMA SignalledFacts ==
    ASSUME QualityInv, NEW n, n = Signalled
    PROVE  /\ n \in Managers
           /\ MayBecome(manager, n)
           /\ n.audio_degrade # NoTimer => n.video >= LowestVideo
           /\ \/ n = manager
              \/ /\ n.video <= LowestVideo /\ n.audio = manager.audio
                 /\ n.video = manager.video + 1 /\ ~CanTransition(n)
<1>1. manager \in Managers /\ congestion \in BOOLEAN
  BY DEF QualityInv, QualityTypeOK, Managers, Timers
<1>2. /\ manager.video \in Nat /\ manager.audio \in Nat
      /\ manager.audio_degrade # NoTimer => manager.video >= LowestVideo
  BY <1>1 DEF QualityInv, AudioTimerSound, Managers
<1>3. CASE n = manager
  BY <1>1, <1>2, <1>3 DEF MayBecome
<1>4. CASE n # manager
  <2>1. n = SteppedDown(manager)
    BY <1>4 DEF Signalled
  <2>2. /\ n \in Managers
        /\ manager.video < LowestVideo /\ n.video = manager.video + 1
        /\ n.audio = manager.audio
        /\ n.audio_degrade = manager.audio_degrade
        /\ ~CanTransition(n)
    BY <1>1, <1>4, <2>1, SteppedDownFacts
  <2> QED
    BY <1>2, <2>2 DEF MayBecome
<1> QED
  BY <1>3, <1>4

(* A report that is used takes no second step after a forced one. *)
LEMMA UsedFacts ==
    ASSUME QualityInv, Signalled.video <= LowestVideo,
           NEW fps \in FpsRange, NEW bitrate \in BitrateRange,
           NEW n, n = Updated(Signalled, fps, bitrate)
    PROVE  /\ n \in Managers /\ n.video <= LowestVideo
           /\ MayBecome(manager, n)
           /\ n.audio_degrade # NoTimer => n.video >= LowestVideo
<1> DEFINE s == Signalled
<1>1. /\ s \in Managers
      /\ MayBecome(manager, s)
      /\ s.audio_degrade # NoTimer => s.video >= LowestVideo
      /\ \/ s = manager
         \/ /\ s.video <= LowestVideo /\ s.audio = manager.audio
            /\ s.video = manager.video + 1 /\ ~CanTransition(s)
  BY SignalledFacts
<1>2. n = Updated(s, fps, bitrate) /\ s.video <= LowestVideo
  OBVIOUS
<1> HIDE DEF s
<1>3. /\ n \in Managers /\ n.video <= LowestVideo
      /\ n.video - s.video \in {-1, 0, 1}
      /\ n.audio - s.audio \in {-1, 0, 1}
      /\ ~CanTransition(s) => n.video = s.video /\ n.audio = s.audio
      /\ n.audio > s.audio => s.video = LowestVideo /\ n.video = LowestVideo
      /\ n.audio_degrade # NoTimer => n.video >= LowestVideo
  BY <1>1, <1>2, UpdatedFacts
<1>4. CASE s = manager
  BY <1>3, <1>4 DEF MayBecome
<1>5. CASE s # manager
  <2>1. n.video = s.video /\ n.audio = s.audio
    BY <1>1, <1>3, <1>5
  <2> QED
    BY <1>1, <1>3, <2>1 DEF MayBecome
<1> QED
  BY <1>4, <1>5

(* The encoders are told of a change whichever way it came about. *)
LEMMA AppliedFacts ==
    ASSUME QualityInv, manager' \in Managers,
           Tiers(manager') # Tiers(manager) => manager'.video <= LowestVideo,
           applied' = Applied(manager')
    PROVE  /\ EncodersFollow'
           /\ applied' \in [video : 0 .. LowestVideo, audio : 0 .. LowestAudio]
<1>1. /\ applied \in [video : 0 .. LowestVideo, audio : 0 .. LowestAudio]
      /\ manager'.video \in Nat /\ manager'.audio \in 0 .. LowestAudio
      /\ EncodersFollow
  BY DEF QualityInv, QualityTypeOK, Managers
<1>2. CASE Tiers(manager') = Tiers(manager)
  <2>1. applied' = applied
    BY <1>2 DEF Applied
  <2>2. manager'.video = manager.video /\ manager'.audio = manager.audio
    BY <1>2 DEF Tiers
  <2> QED
    BY <1>1, <1>2, <2>1, <2>2 DEF EncodersFollow, Told
<1>3. CASE Tiers(manager') # Tiers(manager)
  <2>1. applied' = Told(manager')
    BY <1>3 DEF Applied
  <2> QED
    BY <1>1, <1>3, <2>1 DEF EncodersFollow, Told
<1> QED
  BY <1>2, <1>3

(* The invariant holds at first. *)
LEMMA QualityInvInit == QualityInit => QualityInv
<1> SUFFICES ASSUME QualityInit PROVE QualityInv
  OBVIOUS
<1>1. QualityTypeOK
  <2>1. manager \in Managers
    BY StoppedTimer DEF QualityInit, Managers
  <2>2. /\ samples \in 0 .. InitSamples
        /\ correction \in 0 .. PID_CORRECTION_THROTTLE
    BY DEF QualityInit
  <2>3. applied \in [video : 0 .. LowestVideo, audio : 0 .. LowestAudio]
    BY DEF QualityInit
  <2>4. /\ congestion \in BOOLEAN
        /\ loop \in {"running", "panicked"}
        /\ seen \in {"nothing", "bad", "other", "good"}
    BY DEF QualityInit
  <2> QED
    BY <2>1, <2>2, <2>3, <2>4 DEF QualityTypeOK, Managers, Timers
<1>2. EncodersFollow /\ AudioTimerSound
  BY DEF QualityInit, EncodersFollow, AudioTimerSound, Tiers
<1> QED
  BY <1>1, <1>2 DEF QualityInv

(* A report keeps the invariant and changes the tiers as it may. *)
LEMMA ReportKeepsInv ==
    ASSUME QualityInv, NEW fps \in FpsRange, NEW bitrate \in BitrateRange,
           Report(fps, bitrate)
    PROVE  QualityInv' /\ MayBecome(manager, manager')
<1>1. /\ manager \in Managers
      /\ samples \in 0 .. InitSamples
      /\ correction \in 0 .. PID_CORRECTION_THROTTLE
      /\ loop \in {"running", "panicked"}
      /\ seen \in {"nothing", "bad", "other", "good"}
      /\ applied \in [video : 0 .. LowestVideo, audio : 0 .. LowestAudio]
  BY DEF QualityInv, QualityTypeOK, Managers, Timers
<1>2. congestion' = FALSE
  BY DEF Report
<1>3. CASE ReportThrottled \/ ReportUnused \/ ReportSampled
  <2>1. /\ manager' = Signalled /\ applied' = Applied(manager')
        /\ samples' \in 0 .. InitSamples
        /\ correction' \in 0 .. PID_CORRECTION_THROTTLE
        /\ UNCHANGED <<loop, seen>>
    BY <1>1, <1>3 DEF ReportThrottled, ReportUnused, ReportSampled
  <2>2. /\ manager' \in Managers
        /\ MayBecome(manager, manager')
        /\ manager'.audio_degrade # NoTimer => manager'.video >= LowestVideo
        /\ manager' # manager => manager'.video <= LowestVideo
    BY <2>1, SignalledFacts
  <2>3. /\ EncodersFollow'
        /\ applied' \in [video : 0 .. LowestVideo, audio : 0 .. LowestAudio]
    BY <2>1, <2>2, AppliedFacts
  <2>4. QualityTypeOK'
    BY <1>1, <1>2, <2>1, <2>2, <2>3 DEF QualityTypeOK, Managers, Timers
  <2> QED
    BY <2>2, <2>3, <2>4 DEF QualityInv, AudioTimerSound
<1>4. CASE ReportUsed(fps, bitrate) /\ Signalled.video > LowestVideo
  <2>1. /\ UNCHANGED <<manager, applied, correction, seen>>
        /\ loop' = "panicked" /\ samples' \in 0 .. InitSamples
    BY <1>1, <1>4 DEF ReportUsed, Least
  <2>2. QualityTypeOK'
    BY <1>1, <1>2, <2>1 DEF QualityTypeOK, Managers, Timers
  <2>3. EncodersFollow' /\ AudioTimerSound'
    BY <2>1 DEF QualityInv, EncodersFollow, AudioTimerSound, Tiers, Told
  <2>4. MayBecome(manager, manager')
    BY <1>1, <2>1 DEF MayBecome, Managers
  <2> QED
    BY <2>2, <2>3, <2>4 DEF QualityInv
<1>5. CASE ReportUsed(fps, bitrate) /\ ~(Signalled.video > LowestVideo)
  <2>1. /\ manager' = Updated(Signalled, fps, bitrate)
        /\ applied' = Applied(manager')
        /\ correction' \in 0 .. PID_CORRECTION_THROTTLE
        /\ seen' = Seen(fps, bitrate)
        /\ loop' = loop /\ samples' \in 0 .. InitSamples
    BY <1>1, <1>5 DEF ReportUsed, Least
  <2>2. Signalled.video <= LowestVideo
    <3>1. Signalled \in Managers
      BY SignalledFacts
    <3> QED
      BY <1>5, <3>1 DEF Managers
  <2>3. /\ manager' \in Managers /\ manager'.video <= LowestVideo
        /\ MayBecome(manager, manager')
        /\ manager'.audio_degrade # NoTimer => manager'.video >= LowestVideo
    BY <2>1, <2>2, UsedFacts
  <2>4. /\ EncodersFollow'
        /\ applied' \in [video : 0 .. LowestVideo, audio : 0 .. LowestAudio]
    BY <2>1, <2>3, AppliedFacts
  <2>5. seen' \in {"nothing", "bad", "other", "good"}
    BY <2>1 DEF Seen
  <2>6. QualityTypeOK'
    BY <1>1, <1>2, <2>1, <2>3, <2>4, <2>5 DEF QualityTypeOK, Managers, Timers
  <2> QED
    BY <2>3, <2>4, <2>6 DEF QualityInv, AudioTimerSound
<1> QED
  BY <1>3, <1>4, <1>5 DEF Report

(* Every step keeps the invariant and changes the tiers as it may. *)
LEMMA QualityStep ==
    QualityInv /\ [QualityNext]_qualityVars =>
        QualityInv' /\ MayBecome(manager, manager')
<1> SUFFICES ASSUME QualityInv, [QualityNext]_qualityVars
             PROVE  QualityInv' /\ MayBecome(manager, manager')
  OBVIOUS
<1>1. manager \in Managers /\ correction \in 0 .. PID_CORRECTION_THROTTLE
  BY DEF QualityInv, QualityTypeOK, Managers, Timers
<1>2. ASSUME UNCHANGED <<manager, samples, correction, applied, loop, seen>>,
             congestion' \in BOOLEAN
      PROVE  QualityInv' /\ MayBecome(manager, manager')
  <2>1. QualityTypeOK'
    BY <1>2 DEF QualityInv, QualityTypeOK
  <2>2. EncodersFollow' /\ AudioTimerSound'
    BY <1>2 DEF QualityInv, EncodersFollow, AudioTimerSound, Tiers, Told
  <2>3. MayBecome(manager, manager')
    BY <1>1, <1>2 DEF MayBecome, Managers
  <2> QED
    BY <2>1, <2>2, <2>3 DEF QualityInv
<1>3. CASE UNCHANGED qualityVars
  BY <1>2, <1>3 DEF qualityVars, QualityInv, QualityTypeOK
<1>4. CASE CongestionSignal
  BY <1>2, <1>4 DEF CongestionSignal
<1>5. CASE AnyReport
  BY <1>5, ReportKeepsInv DEF AnyReport
<1>6. CASE QualityTick
  <2>1. /\ Aged(manager.created, QUALITY_WARMUP) \in 0 .. QUALITY_WARMUP
        /\ Aged(manager.transition, MIN_TIER_TRANSITION_INTERVAL)
               \in 0 .. MIN_TIER_TRANSITION_INTERVAL
        /\ correction' \in 0 .. PID_CORRECTION_THROTTLE
    BY <1>1, <1>6 DEF QualityTick, Aged, Least, Managers
  <2>2. /\ AgedTimer(manager.degrade, STEP_DOWN_REACTION_TIME)
               \in Timers(STEP_DOWN_REACTION_TIME)
        /\ AgedTimer(manager.recover, STEP_UP_STABILIZATION_WINDOW)
               \in Timers(STEP_UP_STABILIZATION_WINDOW)
        /\ AgedTimer(manager.audio_degrade, STEP_DOWN_REACTION_TIME)
               \in Timers(STEP_DOWN_REACTION_TIME)
        /\ AgedTimer(manager.audio_recover, STEP_UP_STABILIZATION_WINDOW)
               \in Timers(STEP_UP_STABILIZATION_WINDOW)
    BY <1>1, TimerType DEF Managers
  <2>3. /\ manager' \in Managers
        /\ manager'.video = manager.video /\ manager'.audio = manager.audio
    BY <1>1, <1>6, <2>1, <2>2 DEF QualityTick, Managers
  <2>4. manager'.audio_degrade =
            AgedTimer(manager.audio_degrade, STEP_DOWN_REACTION_TIME)
    BY <1>1, <1>6 DEF QualityTick, Managers
  <2>5. UNCHANGED <<samples, congestion, applied, loop, seen>>
    BY <1>6 DEF QualityTick
  <2>6. QualityTypeOK'
    BY <2>1, <2>3, <2>5 DEF QualityInv, QualityTypeOK, Managers, Timers
  <2>7. AudioTimerSound'
    BY <2>3, <2>4 DEF QualityInv, AudioTimerSound, AgedTimer
  <2>8. EncodersFollow'
    BY <2>3, <2>5 DEF QualityInv, EncodersFollow, Tiers, Told
  <2>9. MayBecome(manager, manager')
    BY <1>1, <2>3 DEF MayBecome, Managers
  <2> QED
    BY <2>6, <2>7, <2>8, <2>9 DEF QualityInv
<1> QED
  BY <1>3, <1>4, <1>5, <1>6 DEF QualityNext

(* The inductive invariant holds for ever. *)
THEOREM QualityInvariant == QualitySpec => []QualityInv
BY QualityInvInit, QualityStep, PTL DEF QualitySpec

(* The state of the control loop keeps its type; in particular, the         *)
(* encoders are never told a tier that does not exist.                      *)
THEOREM QualityTypeCorrect == QualitySpec => []QualityTypeOK
<1>1. QualityInv => QualityTypeOK
  BY DEF QualityInv
<1> QED
  BY <1>1, QualityInvariant, PTL

(* From the manager's first change on, the encoders use its tiers, whether  *)
(* a report or a congestion signal changed them.                            *)
THEOREM EncodersAlwaysFollow == QualitySpec => []EncodersFollow
<1>1. QualityInv => EncodersFollow
  BY DEF QualityInv
<1> QED
  BY <1>1, QualityInvariant, PTL

(* The tiers exist and the encoders use those the manager has chosen.       *)
THEOREM QualityStaysSound == QualitySpec => []QualitySound
BY QualityTypeCorrect, EncodersAlwaysFollow, PTL DEF QualitySound

(* Audio degrades only while video is at its lowest tier, for any tiers and *)
(* any times.                                                               *)
THEOREM AudioAlwaysDegradesLast == QualitySpec => AudioDegradesLast
<1>1. QualityInv /\ [QualityNext]_qualityVars =>
          [manager'.audio > manager.audio =>
               manager.video = LowestVideo /\ manager'.video = LowestVideo]_qualityVars
  BY QualityStep DEF MayBecome
<1> QED
  BY <1>1, QualityInvariant, PTL DEF QualitySpec, AudioDegradesLast

(* No report changes a tier by more than one step, even together with a     *)
(* congestion signal.                                                       *)
THEOREM AlwaysOneStepPerReport == QualitySpec => OneStepPerReport
<1>1. QualityInv /\ [QualityNext]_qualityVars =>
          [/\ manager'.video - manager.video \in {-1, 0, 1}
           /\ manager'.audio - manager.audio \in {-1, 0, 1}]_qualityVars
  BY QualityStep DEF MayBecome
<1> QED
  BY <1>1, QualityInvariant, PTL DEF QualitySpec, OneStepPerReport
=============================================================================
