------------------------ MODULE ReconnectTimingProofs -------------------------
(***************************************************************************)
(* Proofs about ReconnectTiming, in milliseconds: for any election period, *)
(* any number of attempts and whatever the jitter and the elections do.    *)
(***************************************************************************)
EXTENDS ReconnectTiming, TLAPS

\* The shortest backoff before attempt a: doubled from 500 ms, under the cap
\* that next_backoff_delay applies after attempt a - 1.
MinDelay(a) ==
    IF a <= 1 THEN 500 ELSE IF a = 2 THEN 1000 ELSE IF a <= 6 THEN 2000
    ELSE IF a = 7 THEN 4000 ELSE IF a = 8 THEN 8000 ELSE 10000

\* The sum of the z + 1 shortest backoffs.
MinBackoffs(z) ==
    IF z = 0 THEN 500 ELSE IF z = 1 THEN 1500 ELSE IF z = 2 THEN 3500
    ELSE IF z = 3 THEN 5500 ELSE IF z = 4 THEN 7500 ELSE IF z = 5 THEN 9500
    ELSE IF z = 6 THEN 13500 ELSE IF z = 7 THEN 21500
    ELSE IF z = 8 THEN 31500 ELSE 41500

\* The backoff lies between the shortest one and the cap of its phase.
DelayBounds ==
    /\ delay_ms >= MinDelay(attempt)
    /\ delay_ms <= MaxDelay(attempt)

\* How long a running election may go on, with all its extensions, compared
\* with the loop's sleep: after the election wait 1599 ms at most, which is
\* less than the backoff before the third attempt and all later ones.
ElectionFits ==
    election_state = "Testing" =>
        /\ pc = "election" =>
               check_left + 1000 * (ELECTION_MAX_EXTENSIONS - extensions_used)
                   <= loop_left + 1599
        /\ pc = "backoff" /\ attempt > 2 =>
               check_left + 1000 * (ELECTION_MAX_EXTENSIONS - extensions_used)
                   < loop_left
        /\ pc = "backoff" => attempt > 1

\* How long the outage has lasted when the loop's sleep ends: zero elections
\* with their waits and zero + 1 backoffs, one election more while one runs.
OutageLasts ==
    /\ pc = "backoff" =>
           outage + loop_left >= MinBackoffs(zero) + zero * ElectionWait
    /\ pc = "election" =>
           outage + loop_left >= MinBackoffs(zero) + (zero + 1) * ElectionWait
    /\ pc = "failed" =>
           outage >= MinBackoffs(9) + 10 * ElectionWait
    /\ LoopRuns => zero < attempt /\ zero < RECONNECT_CONSECUTIVE_ZERO_LIMIT

\* The inductive invariant.
TimingInv ==
    /\ TypeOK
    /\ DelayBounds
    /\ ElectionFits
    /\ LaterElectionsComplete
    /\ OutageLasts

USE PeriodAssumption, MaxAttemptsAssumption
    DEF RECONNECT_INITIAL_DELAY_MS, RECONNECT_BACKOFF_MULTIPLIER,
        RECONNECT_CONSECUTIVE_ZERO_LIMIT, ELECTION_MAX_EXTENSIONS

(* The variables are numbers. *)
LEMMA Numbers ==
    ASSUME TypeOK
    PROVE  /\ attempt \in Nat \ {0} /\ delay_ms \in Nat /\ loop_left \in Nat
           /\ check_left \in Nat /\ extensions_used \in {0, 1, 2}
           /\ zero \in Nat /\ outage \in Nat
BY DEF TypeOK, ElectionWait

(* next_backoff_delay: the next delay is no shorter than the last one and   *)
(* no longer than the cap of the phase, and doubles until it reaches it.    *)
LEMMA NextDelay ==
    ASSUME NEW a \in Nat \ {0}, NEW d \in Nat, MinDelay(a) <= d,
           d <= MaxDelay(a), NEW next \in next_backoff_delay(d, a)
    PROVE  /\ next \in Nat /\ next >= 500 /\ next >= d
           /\ MinDelay(a + 1) <= next /\ next <= MaxDelay(a + 1)
<1>1. PICK j \in Jitter(d * 2) : next = Least(d * 2 + j, MaxDelay(a))
  BY DEF next_backoff_delay
<1>2. d >= 500 /\ d <= MaxDelay(a) /\ MaxDelay(a) \in Nat
  BY DEF MinDelay, MaxDelay
<1>3. j \in Nat
  BY <1>2 DEF Jitter
<1>4. next \in Nat /\ next >= d /\ next <= MaxDelay(a)
      /\ (next = MaxDelay(a) \/ next >= 2 * d)
  <2>1. PICK cap \in Nat : cap = MaxDelay(a)
    BY <1>2
  <2>2. PICK sum \in Nat : sum = d * 2 + j
    BY <1>3
  <2>3. sum >= 2 * d /\ cap >= d
    BY <1>2, <1>3, <2>1, <2>2
  <2>4. next = IF sum <= cap THEN sum ELSE cap
    BY <1>1, <2>1, <2>2 DEF Least
  <2> QED
    BY <2>1, <2>2, <2>3, <2>4
<1>5. next <= MaxDelay(a + 1)
  BY <1>2, <1>4 DEF MaxDelay
<1>6. MinDelay(a + 1) <= next
  <2>1. MinDelay(a + 1) <= MaxDelay(a) /\ MinDelay(a + 1) <= 2 * MinDelay(a)
    BY DEF MinDelay, MaxDelay
  <2> QED
    BY <1>2, <1>4, <2>1 DEF MinDelay, MaxDelay
<1> QED
  BY <1>2, <1>4, <1>5, <1>6

(* One unreached attempt more adds one backoff more to the shortest outage. *)
LEMMA NextBackoffs ==
    ASSUME NEW z \in 0 .. 8, NEW a \in Nat, z < a
    PROVE  MinBackoffs(z + 1) <= MinBackoffs(z) + MinDelay(a + 1)
BY DEF MinBackoffs, MinDelay

-----------------------------------------------------------------------------
(* The loop wakes up after a backoff. *)
LEMMA BackoffInv ==
    ASSUME TimingInv, BackoffElapses
    PROVE  TimingInv'
<1>1. /\ pc = "backoff" /\ LoopRuns
      /\ election_state = "Testing" => loop_left <= check_left
      /\ outage' = outage + loop_left
      /\ UNCHANGED <<attempt, delay_ms, zero>>
  BY DEF BackoffElapses, LoopIsNext
<1>2. TypeOK
  BY DEF TimingInv
<1>3. outage' \in Nat /\ DelayBounds'
  BY <1>1, <1>2, Numbers DEF TimingInv, DelayBounds
<1>4. CASE /\ election_state = "Elected" /\ pc' = "connected"
           /\ UNCHANGED <<loop_left, election_state, check_left,
                          extensions_used, cut_short>>
  <2>1. TypeOK'
    <3>1. pc' \in {"backoff", "election", "connected", "failed"}
      BY <1>4
    <3> QED
      BY <1>1, <1>2, <1>3, <1>4, <3>1 DEF TypeOK
  <2> QED
    BY <1>1, <1>3, <1>4, <2>1
    DEF TimingInv, ElectionFits, OutageLasts, LaterElectionsComplete, LoopRuns
<1>5. CASE /\ pc' = "election"
           /\ loop_left' = ElectionWait
           /\ cut_short' = IF election_state = "Testing"
                           THEN cut_short \cup {attempt - 1} ELSE cut_short
           /\ election_state' = "Testing"
           /\ \E late \in TickDelay : check_left' = ElectionPeriod + late
           /\ extensions_used' = 0
  <2>1. PICK late \in 0 .. 99 : check_left' = ElectionPeriod + late
    BY <1>5 DEF TickDelay
  <2>2. election_state = "Testing" => attempt = 2
    BY <1>1, <1>2, Numbers DEF TimingInv, ElectionFits
  <2>3. LaterElectionsComplete'
    <3>1. cut_short \subseteq {1}
      BY DEF TimingInv, LaterElectionsComplete
    <3>2. cut_short' \subseteq cut_short \cup {1}
      BY <1>5, <2>2
    <3> QED
      BY <3>1, <3>2 DEF LaterElectionsComplete
  <2>4. TypeOK'
    <3>1. cut_short' \subseteq 1 .. MaxAttempts
      BY <1>2, <1>5, <2>2 DEF TypeOK
    <3>2. loop_left' \in Nat /\ loop_left' <= ElectionWait
          /\ check_left' \in Nat /\ check_left' <= ElectionPeriod + 1000
          /\ extensions_used' \in 0 .. 2
      BY <1>5, <2>1 DEF ElectionWait
    <3> QED
      BY <1>1, <1>2, <1>3, <1>5, <3>1, <3>2 DEF TypeOK
  <2>5. ElectionFits'
    BY <1>5, <2>1 DEF ElectionFits, ElectionWait
  <2>6. OutageLasts'
    <3>1. outage + loop_left >= MinBackoffs(zero) + zero * ElectionWait
          /\ zero < attempt /\ zero < 10
      BY <1>1 DEF TimingInv, OutageLasts
    <3>2. PICK z \in 0 .. 9, w \in Nat : z = zero /\ w = ElectionWait
      BY <1>2, <3>1 DEF TypeOK, ElectionWait
    <3>3. (z + 1) * w = z * w + w
      BY <3>2
    <3>4. loop_left \in Nat /\ outage \in Nat /\ MinBackoffs(z) \in Nat
          /\ z * w \in Nat
      BY <1>2, <3>2 DEF TypeOK, ElectionWait, MinBackoffs
    <3>5. outage' + loop_left' >= MinBackoffs(zero) + (zero + 1) * ElectionWait
      BY <1>1, <1>5, <3>1, <3>2, <3>3, <3>4
    <3> QED
      BY <1>1, <1>5, <3>1, <3>5 DEF OutageLasts
  <2> QED
    BY <1>3, <2>3, <2>4, <2>5, <2>6 DEF TimingInv
<1> QED
  BY <1>4, <1>5 DEF BackoffElapses

(* A tick of the election timer after the deadline. *)
LEMMA CheckInv ==
    ASSUME TimingInv, CheckElection
    PROVE  TimingInv'
<1>1. /\ election_state = "Testing" /\ (LoopRuns => check_left <= loop_left)
      /\ loop_left' = IF LoopRuns THEN loop_left - check_left ELSE loop_left
      /\ outage' = outage + check_left
      /\ UNCHANGED <<attempt, delay_ms, pc, zero, cut_short>>
  BY DEF CheckElection, CheckIsNext
<1>2. TypeOK
  BY DEF TimingInv
<1>3. /\ loop_left' \in Nat /\ loop_left' <= loop_left /\ outage' \in Nat
      /\ LoopRuns => outage' + loop_left' = outage + loop_left
      /\ outage' >= outage
  BY <1>1, <1>2, Numbers
<1>4. \/ /\ extensions_used < 2 /\ extensions_used' = extensions_used + 1
         /\ check_left' = 1000 /\ election_state' = "Testing"
      \/ /\ election_state' \in {"Elected", "Failed"}
         /\ UNCHANGED <<check_left, extensions_used>>
  BY <1>1 DEF CheckElection
<1>5. TypeOK'
  <2>1. /\ check_left' \in Nat /\ check_left' <= ElectionPeriod + 1000
        /\ extensions_used' \in 0 .. 2
    BY <1>2, <1>4, Numbers DEF TypeOK
  <2>2. election_state' \in {"None", "Testing", "Elected", "Failed"}
    BY <1>4
  <2>3. loop_left' <= delay_ms' \/ loop_left' <= ElectionWait
    BY <1>1, <1>2, <1>3, Numbers DEF TypeOK, ElectionWait
  <2> QED
    BY <1>1, <1>2, <1>3, <2>1, <2>2, <2>3 DEF TypeOK
<1>6. DelayBounds' /\ LaterElectionsComplete'
  BY <1>1 DEF TimingInv, DelayBounds, MinDelay, MaxDelay, LaterElectionsComplete
<1>7. ElectionFits'
  BY <1>1, <1>2, <1>3, <1>4, Numbers DEF TimingInv, ElectionFits, LoopRuns
<1>8. OutageLasts'
  <2>1. pc \in {"backoff", "election"} =>
            outage' + loop_left' = outage + loop_left
    BY <1>3 DEF LoopRuns
  <2>2. pc = "failed" => outage' >= MinBackoffs(9) + 10 * ElectionWait
    BY <1>1, <1>2, <1>3, Numbers
    DEF TimingInv, OutageLasts, MinBackoffs, ElectionWait
  <2> QED
    BY <1>1, <2>1, <2>2 DEF TimingInv, OutageLasts, LoopRuns
<1> QED
  BY <1>5, <1>6, <1>7, <1>8 DEF TimingInv

(* The loop wakes up after the election wait. *)
LEMMA WaitInv ==
    ASSUME TimingInv, ElectionWaitElapses
    PROVE  TimingInv' /\ delay_ms' >= delay_ms
<1>1. /\ pc = "election" /\ LoopRuns
      /\ election_state = "Testing" => loop_left <= check_left
      /\ check_left' = IF election_state = "Testing"
                       THEN check_left - loop_left ELSE check_left
      /\ UNCHANGED <<election_state, extensions_used, cut_short>>
  BY DEF ElectionWaitElapses, LoopIsNext
<1>2. TypeOK
  BY DEF TimingInv
<1>3. PICK reached \in BOOLEAN :
        /\ outage' = IF reached THEN 0 ELSE outage + loop_left
        /\ \/ /\ pc' = "connected"
              /\ UNCHANGED <<attempt, delay_ms, loop_left, zero>>
           \/ /\ zero' = Counted(reached)
              /\ zero' >= 10
              /\ pc' = "failed"
              /\ UNCHANGED <<attempt, delay_ms, loop_left>>
           \/ /\ zero' = Counted(reached)
              /\ zero' < 10
              /\ attempt < MaxAttempts
              /\ pc' = "backoff"
              /\ delay_ms' \in next_backoff_delay(delay_ms, attempt)
              /\ loop_left' = delay_ms'
              /\ attempt' = attempt + 1
  BY DEF ElectionWaitElapses
<1>4. /\ check_left' \in Nat /\ check_left' <= ElectionPeriod + 1000
      /\ outage' \in Nat
  BY <1>1, <1>2, <1>3, Numbers DEF TypeOK
<1>5. /\ zero < attempt /\ zero < 10
      /\ outage + loop_left >= MinBackoffs(zero) + (zero + 1) * ElectionWait
  BY <1>1 DEF TimingInv, OutageLasts
<1>6. election_state = "Testing" =>
          check_left' + 1000 * (2 - extensions_used') <= 1599
  BY <1>1, <1>2, Numbers DEF TimingInv, ElectionFits
<1>7. LaterElectionsComplete'
  BY <1>1 DEF TimingInv, LaterElectionsComplete
<1>8. CASE /\ pc' = "connected"
           /\ UNCHANGED <<attempt, delay_ms, loop_left, zero>>
  <2>1. TypeOK'
    BY <1>1, <1>2, <1>4, <1>8 DEF TypeOK, ElectionWait
  <2> QED
    BY <1>2, <1>7, <1>8, <2>1, Numbers
    DEF TimingInv, DelayBounds, MinDelay, MaxDelay, ElectionFits, OutageLasts,
         LoopRuns
<1>9. CASE /\ zero' = Counted(reached)
           /\ zero' >= 10
           /\ pc' = "failed"
           /\ UNCHANGED <<attempt, delay_ms, loop_left>>
  <2>1. ~reached /\ zero = 9 /\ zero' = 10
    BY <1>2, <1>5, <1>9, Numbers DEF Counted
  <2>2. TypeOK'
    BY <1>1, <1>2, <1>4, <1>9, <2>1 DEF TypeOK, ElectionWait
  <2>3. outage' >= MinBackoffs(9) + 10 * ElectionWait
    BY <1>3, <1>5, <2>1
  <2> QED
    BY <1>2, <1>7, <1>9, <2>2, <2>3, Numbers
    DEF TimingInv, DelayBounds, MinDelay, MaxDelay, ElectionFits, OutageLasts,
         LoopRuns
<1>10. CASE /\ zero' = Counted(reached)
            /\ zero' < 10
            /\ attempt < MaxAttempts
            /\ pc' = "backoff"
            /\ delay_ms' \in next_backoff_delay(delay_ms, attempt)
            /\ loop_left' = delay_ms'
            /\ attempt' = attempt + 1
  <2>1. attempt \in Nat \ {0} /\ delay_ms \in Nat /\ zero \in Nat
        /\ MinDelay(attempt) <= delay_ms /\ delay_ms <= MaxDelay(attempt)
    BY <1>2, Numbers DEF TimingInv, TypeOK, DelayBounds
  <2>2. /\ delay_ms' \in Nat /\ delay_ms' >= 500 /\ delay_ms' >= delay_ms
        /\ MinDelay(attempt + 1) <= delay_ms'
        /\ delay_ms' <= MaxDelay(attempt + 1)
    BY <1>10, <2>1, NextDelay
  <2>3. TypeOK'
    <3>1. zero' \in 0 .. 10 /\ attempt' \in 1 .. MaxAttempts
      BY <1>2, <1>10, <2>1 DEF TypeOK, Counted
    <3> QED
      BY <1>1, <1>2, <1>4, <1>10, <2>1, <2>2, <3>1 DEF TypeOK, MaxDelay
  <2>4. DelayBounds'
    BY <1>10, <2>2 DEF DelayBounds
  <2>5. ElectionFits'
    <3>1. attempt + 1 > 2 => MinDelay(attempt + 1) >= 2000
      BY <2>1 DEF MinDelay
    <3>2. attempt + 1 > 2 => loop_left' >= 2000
      BY <1>10, <2>1, <2>2, <3>1 DEF MinDelay
    <3> QED
      BY <1>1, <1>2, <1>4, <1>6, <1>10, <2>1, <2>2, <3>2, Numbers
      DEF ElectionFits
  <2>6. OutageLasts'
    <3>1. CASE reached
      <4>1. zero' = 0 /\ outage' = 0 /\ loop_left' >= 500
        BY <1>3, <1>10, <2>2, <3>1 DEF Counted
      <4>2. 0 * ElectionWait = 0
        BY DEF ElectionWait
      <4> QED
        BY <1>10, <2>1, <2>2, <4>1, <4>2 DEF OutageLasts, MinBackoffs, LoopRuns
    <3>2. CASE ~reached
      <4>1. zero' = zero + 1 /\ outage' = outage + loop_left /\ zero \in 0 .. 8
        BY <1>3, <1>10, <2>1, <3>2 DEF Counted
      <4>2. MinBackoffs(zero + 1) <= MinBackoffs(zero) + MinDelay(attempt + 1)
        BY <1>5, <2>1, <4>1, NextBackoffs
      <4>3. PICK w \in Nat : w = (zero + 1) * ElectionWait
        BY <2>1 DEF ElectionWait
      <4>4. outage' + loop_left' >= MinBackoffs(zero') + zero' * ElectionWait
        <5>1. /\ MinBackoffs(zero) \in Nat /\ MinBackoffs(zero + 1) \in Nat
              /\ MinDelay(attempt + 1) \in Nat
          BY DEF MinBackoffs, MinDelay
        <5>2. outage + loop_left >= MinBackoffs(zero) + w
          BY <1>5, <4>3
        <5>3. outage' + loop_left' >= MinBackoffs(zero + 1) + w
          BY <1>2, <1>10, <2>2, <4>1, <4>2, <5>1, <5>2, Numbers
        <5> QED
          BY <4>1, <4>3, <5>3
      <4> QED
        BY <1>5, <1>10, <2>1, <4>1, <4>4 DEF OutageLasts, LoopRuns
    <3> QED
      BY <3>1, <3>2
  <2> QED
    BY <1>7, <2>2, <2>3, <2>4, <2>5, <2>6 DEF TimingInv
<1> QED
  BY <1>3, <1>8, <1>9, <1>10

(* Init => TimingInv. *)
LEMMA InitInv == Init => TimingInv
<1> SUFFICES ASSUME Init PROVE TimingInv
  OBVIOUS
<1>1. TypeOK
  BY DEF Init, TypeOK, MaxDelay, ElectionWait
<1>2. DelayBounds /\ ElectionFits /\ LaterElectionsComplete
  BY DEF Init, DelayBounds, MinDelay, MaxDelay, ElectionFits,
         LaterElectionsComplete
<1>3. OutageLasts
  <2>1. 0 * ElectionWait = 0
    BY DEF ElectionWait
  <2> QED
    BY <2>1 DEF Init, OutageLasts, MinBackoffs, LoopRuns
<1> QED
  BY <1>1, <1>2, <1>3 DEF TimingInv

(* Every step of the loop and of the election timer preserves the invariant *)
(* and the backoff does not get shorter.                                    *)
LEMMA StepInv ==
    ASSUME TimingInv, [Next]_vars
    PROVE  TimingInv' /\ (UNCHANGED vars \/ delay_ms' >= delay_ms)
<1>1. CASE BackoffElapses
  <2>1. delay_ms' = delay_ms /\ delay_ms \in Nat
    BY <1>1, Numbers DEF BackoffElapses, TimingInv
  <2> QED
    BY <1>1, <2>1, BackoffInv
<1>2. CASE CheckElection
  <2>1. delay_ms' = delay_ms /\ delay_ms \in Nat
    BY <1>2, Numbers DEF CheckElection, TimingInv
  <2> QED
    BY <1>2, <2>1, CheckInv
<1>3. CASE ElectionWaitElapses
  BY <1>3, WaitInv
<1>4. CASE UNCHANGED vars
  BY <1>4 DEF vars, TimingInv, TypeOK, DelayBounds, ElectionFits, OutageLasts,
     LaterElectionsComplete, MinDelay, MaxDelay, MinBackoffs, LoopRuns,
     ElectionWait
<1> QED
  BY <1>1, <1>2, <1>3, <1>4 DEF Next

-----------------------------------------------------------------------------
(* The inductive invariant of the reconnection loop and its election timer  *)
(* (run_reconnection_loop, check_and_complete_election).                    *)
THEOREM TimingInvariant == Spec => []TimingInv
<1>1. TimingInv /\ [Next]_vars => TimingInv'
  BY StepInv
<1> QED
  BY <1>1, InitInv, PTL DEF Spec

(* The backoff of next_backoff_delay never gets shorter from one attempt to *)
(* the next, for any number of attempts and whatever the jitter was.        *)
THEOREM DelaysGrow == Spec => BackoffNeverShrinks
<1>1. TimingInv /\ [Next]_vars => [delay_ms' >= delay_ms]_vars
  BY StepInv
<1> QED
  BY <1>1, TimingInvariant, PTL DEF Spec, BackoffNeverShrinks

(* From the second attempt on, reset_and_start_election finds no election   *)
(* still running, for every election period: what is left of an election    *)
(* after the election wait is at most 1599 ms, two extensions and a late    *)
(* tick less the 500 ms margin, and the backoff is then 2 seconds at least. *)
THEOREM OnlyFirstElectionIsCut == Spec => []LaterElectionsComplete
<1>1. TimingInv => LaterElectionsComplete
  BY DEF TimingInv
<1> QED
  BY <1>1, TimingInvariant, PTL

(* With an election period of 1350 ms or more (the user interface has 2000  *)
(* and 3000) the loop gives up after a minute without a server at the       *)
(* earliest: ten backoffs of 41.5 seconds together and ten election waits.  *)
THEOREM OutagesAreTolerated ==
    ASSUME ElectionPeriod >= 1350
    PROVE  Spec => []TimingSound
<1>1. TimingInv => TimingSound
  BY DEF TimingInv, TimingSound, OutageTolerated, OutageLasts, MinBackoffs,
     ElectionWait, TypeOK
<1> QED
  BY <1>1, TimingInvariant, PTL
=============================================================================
