--------------------------- MODULE ReconnectTiming ---------------------------
(***************************************************************************)
(* The times of a reconnection: the backoff between attempts               *)
(* (next_backoff_delay), the sleep that leaves an election time to         *)
(* complete and the election deadline with its extensions, of              *)
(* videocall-client/src/connection/connection_manager.rs.  ConnectionManager *)
(* lets all of these end at any moment; here they run in milliseconds, on  *)
(* timers that are on time.  What the servers do is left open: an election *)
(* may have samples or not, and an attempt may reach a server or not.      *)
(***************************************************************************)
EXTENDS Naturals

CONSTANTS
    ElectionPeriod,  \* election_period_ms, 2000 or 3000 in the user interface
    MaxAttempts      \* bound: attempts followed

ASSUME PeriodAssumption == ElectionPeriod \in Nat
ASSUME MaxAttemptsAssumption == MaxAttempts \in Nat \ {0}

VARIABLES
    attempt,          \* attempts made
    delay_ms,         \* backoff of the next or current attempt
    pc,               \* "backoff", "election", "connected" or "failed"
    loop_left,        \* until the loop's sleep ends
    election_state,   \* "None", "Testing", "Elected" or "Failed"
    check_left,       \* until the first tick after the election deadline
    extensions_used,
    zero,             \* consecutive_zero_connections
    outage,           \* since the last attempt that ended with a server reached
    cut_short         \* attempts whose election was reset while it ran

vars == <<attempt, delay_ms, pc, loop_left, election_state, check_left,
          extensions_used, zero, outage, cut_short>>

RECONNECT_INITIAL_DELAY_MS == 500
RECONNECT_BACKOFF_MULTIPLIER == 2
RECONNECT_CONSECUTIVE_ZERO_LIMIT == 10
ELECTION_MAX_EXTENSIONS == 2

(* The 100 ms election timer may tick this long after the deadline. *)
TickDelay == {0, 50, 99}

(* The progressive caps on the delay after an attempt. *)
MaxDelay_Phase1(a) == IF a <= 15 THEN 10000 ELSE 2000

MaxDelay(a) ==
    IF a <= 5 THEN 2000 ELSE IF a <= 15 THEN 10000 ELSE 30000

(* The jitter is a random part of half the base, rounded down: its least,   *)
(* a middle and its greatest value.                                         *)
Jitter(base) == {0, base \div 4, (base \div 2) - 1}

Least(a, b) == IF a <= b THEN a ELSE b

next_backoff_delay(d, a) ==
    {Least(d * RECONNECT_BACKOFF_MULTIPLIER + j, MaxDelay(a)) :
        j \in Jitter(d * RECONNECT_BACKOFF_MULTIPLIER)}

(* The sleep after an election was started. *)
ElectionWait_Short == 500

ElectionWait == ElectionPeriod + 500

(* The active connection was just lost and the loop has begun. *)
Init ==
    /\ attempt = 1
    /\ delay_ms = RECONNECT_INITIAL_DELAY_MS
    /\ pc = "backoff"
    /\ loop_left = RECONNECT_INITIAL_DELAY_MS
    /\ election_state = "None"
    /\ check_left = 0
    /\ extensions_used = 0
    /\ zero = 0
    /\ outage = 0
    /\ cut_short = {}

LoopRuns == pc \in {"backoff", "election"}

(* The loop's sleep, or the election timer, is the next to end. *)
LoopIsNext ==
    LoopRuns /\ (election_state = "Testing" => loop_left <= check_left)
CheckIsNext ==
    election_state = "Testing" /\ (LoopRuns => check_left <= loop_left)

(* After the backoff: leave if the connection was restored meanwhile, else  *)
(* reset_and_start_election.  An elected connection may be lost again.      *)
BackoffElapses ==
    /\ LoopIsNext /\ pc = "backoff"
    /\ outage' = outage + loop_left
    /\ \/ /\ election_state = "Elected"
          /\ pc' = "connected"
          /\ UNCHANGED <<loop_left, election_state, check_left,
                         extensions_used, cut_short>>
       \/ /\ pc' = "election"
          /\ loop_left' = ElectionWait
          /\ cut_short' = IF election_state = "Testing"
                          THEN cut_short \cup {attempt - 1} ELSE cut_short
          /\ election_state' = "Testing"
          /\ \E late \in TickDelay : check_left' = ElectionPeriod + late
          /\ extensions_used' = 0
    /\ UNCHANGED <<attempt, delay_ms, zero>>

(* check_and_complete_election at the first tick after the deadline. *)
CheckElection ==
    /\ CheckIsNext
    /\ loop_left' = IF LoopRuns THEN loop_left - check_left ELSE loop_left
    /\ outage' = outage + check_left
    /\ \/ /\ extensions_used < ELECTION_MAX_EXTENSIONS   \* too few samples
          /\ extensions_used' = extensions_used + 1
          /\ check_left' = 1000
          /\ UNCHANGED election_state
       \/ /\ election_state' \in {"Elected", "Failed"}   \* failed: none is up
          /\ UNCHANGED <<check_left, extensions_used>>
    /\ UNCHANGED <<attempt, delay_ms, pc, zero, cut_short>>

(* The zero-connection counter after an attempt. *)
Counted_Early(reached) == IF reached THEN 0 ELSE zero + 2

Counted(reached) == IF reached THEN 0 ELSE zero + 1

(* After the election wait: done, give up, or back off and try again. *)
ElectionWaitElapses ==
    /\ LoopIsNext /\ pc = "election"
    /\ check_left' = IF election_state = "Testing"
                     THEN check_left - loop_left ELSE check_left
    /\ \E reached \in BOOLEAN :
        /\ outage' = IF reached THEN 0 ELSE outage + loop_left
        /\ \/ /\ election_state = "Elected"
              /\ pc' = "connected"
              /\ UNCHANGED <<attempt, delay_ms, loop_left, zero>>
           \/ /\ zero' = Counted(reached)
              /\ zero' >= RECONNECT_CONSECUTIVE_ZERO_LIMIT
              /\ pc' = "failed"
              /\ UNCHANGED <<attempt, delay_ms, loop_left>>
           \/ /\ zero' = Counted(reached)
              /\ zero' < RECONNECT_CONSECUTIVE_ZERO_LIMIT
              /\ attempt < MaxAttempts
              /\ pc' = "backoff"
              /\ delay_ms' \in next_backoff_delay(delay_ms, attempt)
              /\ loop_left' = delay_ms'
              /\ attempt' = attempt + 1
    /\ UNCHANGED <<election_state, extensions_used, cut_short>>

Next == BackoffElapses \/ CheckElection \/ ElectionWaitElapses

Spec == Init /\ [][Next]_vars

-----------------------------------------------------------------------------
(* Properties *)

(* Every variable has its type; the delays that next_backoff_delay returns  *)
(* stay within the last cap.                                                *)
TypeOK ==
    /\ attempt \in 1 .. MaxAttempts
    /\ delay_ms \in Nat /\ delay_ms >= 500 /\ delay_ms <= 30000
    /\ pc \in {"backoff", "election", "connected", "failed"}
    /\ loop_left \in Nat
    /\ loop_left <= delay_ms \/ loop_left <= ElectionWait
    /\ election_state \in {"None", "Testing", "Elected", "Failed"}
    /\ check_left \in Nat /\ check_left <= ElectionPeriod + 1000
    /\ extensions_used \in 0 .. ELECTION_MAX_EXTENSIONS
    /\ zero \in 0 .. RECONNECT_CONSECUTIVE_ZERO_LIMIT
    /\ outage \in Nat
    /\ cut_short \subseteq 1 .. MaxAttempts

(* The backoff never gets shorter from one attempt to the next, across the  *)
(* three caps of next_backoff_delay and whatever the jitter was.            *)
BackoffNeverShrinks == [][delay_ms' >= delay_ms]_vars

(* From the second attempt on, the loop never resets an election that is    *)
(* still running: the backoff after the election wait leaves room for both  *)
(* extensions of the deadline and a late tick.                              *)
LaterElectionsComplete == cut_short \subseteq {1}

(* A client that cannot reach any server keeps trying for a minute at least *)
(* before it reports a rejected connection (the zero-connection limit of    *)
(* run_reconnection_loop), so that a WiFi handoff of 5 to 30 seconds never  *)
(* ends the call.                                                           *)
OutageTolerated == pc = "failed" => outage >= 60000

\* Delays stay within the last cap and the loop outlasts an outage of a
\* minute (next_backoff_delay, RECONNECT_CONSECUTIVE_ZERO_LIMIT).
TimingSound ==
    /\ TypeOK
    /\ OutageTolerated

(* "Give the election period time to complete": the loop resets no election *)
(* that is still running.                                                   *)
ElectionsComplete == cut_short = {}

=============================================================================
