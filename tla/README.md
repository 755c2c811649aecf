# TLA+ models of videocall.rs

Specifications of the parts of videocall.rs whose correctness depends on the
order of events: the relay server's room membership and the feedback it passes on,
the client's connection election and reconnection, its view of its peers, the video
jitter buffer, the adaptation of what it sends, the meeting API and the page that
uses it. TLC checks them on small instances; TLAPS proves every safety property the
passing runs check, for every instance, and that the relay server implements an
abstract specification. What must happen eventually is model-checked only.

Paths below are relative to the repository root.

## 1. Inventory of the system

| Part | State it keeps | Operations | Talks to | What is hard |
|---|---|---|---|---|
| **ChatServer** actor (`actix-api/src/actors/chat_server.rs`), one per relay process | `sessions`, `connection_states`, `active_subs`, `room_members`, `pending_departures`, `suppress_join_broadcast` | Connect, JoinRoom, ActivateConnection, ClientMessage, Disconnect, ExecutePendingDeparture | session actors (messages), NATS (publish), itself (timer) | a reconnection races the grace-period timer; several sessions of a user; two processes serve one room |
| **Session actors** (`session_logic.rs`, `packet_handler.rs`, `transports/`) | activation flag, heartbeat, CongestionTracker, KeyframeRequestLimiter | start, inbound packet, outbound drop, stop | ChatServer, NATS, transport | message order at start and stop; window boundaries; entries that are cleaned up |
| **Meeting API** (`meeting-api/`) | rows of `meetings` and `meeting_participants`, row locks | create, join, status, admit, admit-all, reject, leave, end, delete, toggle waiting room | PostgreSQL, NATS, UI | requests interleave between SQL statements and may be cut off at any await |
| **Meeting page** (`dioxus-ui/src/pages/meeting.rs`, `components/waiting_room.rs`, `host_controls.rs`, `attendants.rs`) | page status, pre-join screen, observer connections, the host's list of those who wait | join, poll, push events, enter the call, decisions, hang up, leave | Meeting API, relay (observer connections) | pushes that reach only who is connected; answers that arrive late |
| **ConnectionManager** (`videocall-client/src/connection/`) | candidate connections, RTT measurements, election state, active id, sessions, reconnection phase, re-election state | transport callbacks, 100 ms and 1 Hz timers, reconnection loop, disconnect | transports, VideoCallClient, relay servers | callbacks of replaced connections under reused ids; state read before an await and used after it; timers racing each other |
| **Jitter buffer and decoder worker** (`videocall-codecs/src/jitter_buffer.rs`, `bin/worker_decoder.rs`) | buffered frames, last played number, old-frame counter, decoder | insert, poll, flush, reset | main thread (messages), WebCodecs | loss, reordering, sender restart, decoder failure, full buffer |
| **PeerDecodeManager** (`videocall-client/src/decode/`) | peers, their flags, gap detection, keyframe requests | packet, heartbeat, monitor, visibility | jitter buffer, VideoCallClient | lost and reordered frames and heartbeats; two rate limits in turn; peers that come back |
| **Adaptive quality, bitrate control** (`videocall-client/src/diagnostics/`, control loops of `encode/`) | tiers, four timers, warm-up, congestion flag | diagnostics packet, congestion signal | encoders | timers that reset each other; boundaries; a signal handled with a report |
| **NetEq** (`neteq/`) | audio packet buffer, delay estimate | insert, get audio | audio decoder | wrap-around, overflow, duplicates |
| Transports, encoders, crypto, diagnostics, UI, CLI, bot, website | | | | mostly I/O |

How they interact. A user asks the Meeting API to join and gets a room token. The
client's ConnectionManager opens a connection to every configured server
(WebSocket and WebTransport processes share nothing but NATS), measures RTTs,
elects one and drops the others. Each connection is a *session* with an actor on
the server; the actor's Connect and JoinRoom make it known to the room's
ChatServer in state Testing, and its first packet other than an RTT probe makes it
Active and announces it. A lost connection is not announced for a grace period
in which the user may come back with a new session. Media is published to NATS
by the session actors and delivered to every subscribed session; at the receiver
the decoder worker reorders the frames and plays them.

What makes each part correct:
* ChatServer: everyone who is in a room is known to those who join, joins and
  departures are announced once and truthfully, a reconnection is silent, and
  observers (waiting room) are invisible.
* ConnectionManager: at most one reconnection loop; a disconnect is final; the
  elected connection is alive and measured and its session is the one in use; the
  state shown to the user is true; retrying ends.
* Jitter buffer: bounded, playback only moves on, no delta frame is decoded
  behind a gap, nothing is stuck.
* Relay session: congestion is reported, neither never nor too often; keyframe
  requests are limited and not starved.
* Peers: what is shown of a peer comes to agree with what it sends; a picture
  spoilt by loss is repaired; who sends is not removed, who left is.
* Quality control: audio degrades last, one step at a time, the encoders follow,
  and steady conditions lead to steady quality.
* Meeting API: one live meeting per room, nobody waits where there is no waiting
  room, decisions are final; every decision reaches the page and everyone who waits
  is seen by a host in the call.

`PROJECT.json` lists every component, the modelled and the others with the reason,
and under `hazards` what in this code is hard to test, line by line, with the
properties that watch it.

## 2. The modules

| Module | Models | Extends / composed by |
|---|---|---|
| `ChatServer` | ChatServer of all relay processes and the sessions that drive it | |
| `MC_ChatServer` | identities and symmetry for TLC | ChatServer |
| `ChatServerProofs` | theorems about ChatServer; it implements Presence | ChatServer, TLAPS |
| `Presence` | what peers are promised, without maps, messages and timers | instantiated by ChatServer |
| `ConnectionManager` | ConnectionManager and ConnectionController, without a clock | |
| `MC_ConnectionManager` | instances for TLC | ConnectionManager |
| `ConnectionManagerProofs` | theorems about ConnectionManager | ConnectionManager, TLAPS |
| `ReconnectTiming` | the same loop's sleeps and deadlines, in milliseconds | |
| `ReconnectTimingProofs` | theorems about ReconnectTiming | ReconnectTiming, TLAPS |
| `JitterBuffer` | jitter buffer, decoder worker and WebCodecs decoder | |
| `JitterBufferProofs` | theorems about JitterBuffer | JitterBuffer, TLAPS |
| `MeetingApi` | meetings, participants, waiting room: one step per SQL statement | |
| `MC_MeetingApi` | symmetry and view for TLC | MeetingApi |
| `MeetingApiProofs` | theorems about MeetingApi | MeetingApi, TLAPS |
| `MeetingPage` | the browser's meeting page | MeetingApi (composition) |
| `MC_MeetingPage` | the pages' requests for TLC | MeetingPage |
| `MeetingPageProofs` | theorems about MeetingPage | MeetingPage, MeetingApiProofs |
| `Ages` | time as ages | |
| `RoomSessions` | the senders of a room | Ages |
| `RelaySession` | CongestionTracker and KeyframeRequestLimiter of a session | RoomSessions |
| `PeerDecode` | the peers of a client | RoomSessions |
| `MediaFeedback` | senders, relay session, receiver and the network between | RelaySession, PeerDecode (composition) |
| `MC_MediaFeedback` | the environments for TLC | MediaFeedback |
| `FeedbackProofs` | theorems about RelaySession, PeerDecode and their composition | MediaFeedback, TLAPS |
| `QualityControl` | an encoder's control loop, bitrate controller and quality manager | Ages |
| `QualityProofs` | theorems about QualityControl | QualityControl, TLAPS |

Operators whose name ends in `_Something` next to one of the same name without it
(`StaleMembers_AllOfUser`, `NextDecodable_AnyFrame`) are mutants: plausible mistakes
in that piece of code. Each property is known to fail for one of them
(`mutants` in `PROJECT.json`); no specification uses them.

### ChatServer

`phase[s]` is how many of the messages of session `s` the server has handled; the
other variables of `serverVars` are the fields of `struct ChatServer`, keyed by
session instead of by room because a session is in one room (`who[s]`).
`timer[s]` is the `notify_later` of a departure: `armed`, or `fired` once
`ExecutePendingDeparture` is in the mailbox and `cancel_future` cannot take it
back. `eventVars` record what was published or sent. One action per handler:

| Action | Code |
|---|---|
| `Connect`, `ActivateConnection`, `ClientMessage`, `ExecutePendingDeparture` | the handlers of these messages |
| `JoinReservedUser`, `JoinUnknownSession`, `JoinRoom` | JoinRoom: its two errors and its success |
| `DisconnectObserver`, `Disconnect` | Disconnect, for observers and for participants |
| `GracePeriodElapses` | the timer of `RECONNECT_GRACE_PERIOD` |

Decisions. A session actor waits for the answers to Connect and JoinRoom before
it can stop, so Disconnect follows them. It waits for both at once, and with a
full mailbox the order in which they get in is not fixed: `JoinMayOvertake` lets
JoinRoom be handled first, which the code meets with "Session not found" *after*
having dropped the pending departure. What a handler publishes through a spawned
task is recorded in the handler's step; delivery to subscribers is not part of
the module. `Leave` has a handler but nobody sends it. `SessionManager` has no
state left, and `end_session` always answers that the meeting continues.

### ConnectionManager

The client is single-threaded, so an action is what runs between two returns to
the event loop: a transport callback (`Opened`, `SessionAssigned`, `RttResponse`,
`ConnectionLost`), the 100 ms timer (`ExtendElection`, `CompleteElection`), the
1 Hz timer (`DiagnosticsTick`: drain the RTT queue, look for degradation, perhaps
start a re-election), a piece of the reconnection loop between two sleeps
(`BackoffElapses`, `ElectionWaitElapses`), or `Disconnect`. A spawned loop's first
piece runs as a microtask right after the callback that spawned it and is part of
`ConnectionLost`. `RefCell` borrow conflicts, for which the code has branches,
cannot happen on one thread between these points.

Ids such as `ws_0` are reused by every election. A connection therefore has an
instance number too, and the session a server assigns is the pair of both; callbacks
compare ids only, as the code does. Instance numbers that nothing refers to are
reused, which keeps the state space finite. A dropped connection calls back no more
(its callbacks are dropped with it); a dying one may report its loss more than once. A
WebSocket delivers in order, so SESSION_ASSIGNED comes before any RTT response;
WebTransport may reorder. `reported` is what VideoCallClient was last told; `servers`
are the URLs configured. Deadlines and sleeps may end at any time, which includes
throttled background tabs. A new `connect()` makes a new manager: after `Disconnect`
nothing but the rest of a sleeping loop happens.

### ReconnectTiming

The same loop with its numbers: `next_backoff_delay` with its three caps and its
jitter (sampled at its least, a middle and its greatest value), the sleep of
`election_period_ms + 500`, the election deadline with up to two extensions of
1000 ms, the first 100 ms tick after it (0, 50 or 99 ms late) and the limit of ten
attempts without a server. Other timers are on time. What the servers do is open.

### JitterBuffer

A frame is a stream, a number and whether it is a keyframe; a sender that restarts
begins a new stream at 0. Frames arrive at most once, in any order or never. A
handler that plays several frames takes several steps here, with `playing` up so
that nothing comes between. There is no clock: `ready` is any set of buffered
numbers (a frame that has just arrived is never due, since the delay is 10 ms at
least). `reference` is the last chunk the current decoder accepted; WebCodecs
refuses a delta frame as the first one, upon which the decoder is destroyed at once
and the buffer by a later timeout (`resets`). Of any frame the chunk may fail to be
made (`worker_decoder.rs:250`): it is then skipped, the decoder stays in use and the
buffer goes on (`skipped` is its number). One known codec; `WorkerMessage::Reset` has
no sender; a buffer that does not exist yet is an empty one.

### Presence

A session is outside, returning in place of one that was lost, in the meeting, lost
and waited for, or over. PARTICIPANT_JOINED is published just when a session enters
that neither returns nor observes; PARTICIPANT_LEFT just when one that was in the
meeting has been waited for in vain. `StageOf` in ChatServer is the refinement
mapping: it reads the stage off the session's phase, the pending departure of its
key and whether it was Active. Presence is deliberately as weak as the code: a
session that was never in the meeting is waited for like another and a return from
it is silent, which is one of the disagreements below.

### MeetingApi and MeetingPage

A request is a process that takes one step per SQL statement or publication. The
two transactions (`join_attendee`, `update_waiting_room_enabled`) lock the meeting's
row in one step and commit in another; updates of the row wait for the lock, plain
reads do not. Waits for the share locks of foreign keys are ignored. `CutOff` ends a
handler at any await, with its open transaction rolled back. One room name; a
deleted or ended meeting keeps its row, and the bound is the number of rows.

`MeetingPage` gives every user a page with two requests at most (what the user
started, and polling). An event published by the API reaches who is connected at
that moment (`listening`, `inbox`) and may be lost (`MayLose`). A page that is admitted
shows the pre-join screen (`call` is `prejoin`; `attendants.rs:1040`): it is connected
to the call, hears WAITING_ROOM_UPDATED and mounts `HostControls` only when its user has
gone on (`JoinCall`), though the join has already activated the meeting. Device access
is part of that step, which nobody is obliged to take. `HangUp` ends the call at once and
asks to leave. A status request sent after an admission push that is answered
`rejected` is taken as a poll's is; the code shows an error first and rejects at the
next poll (`waiting_room.rs:146`).

### RelaySession, PeerDecode, MediaFeedback

Instants are kept as ages that stop at the largest value the code distinguishes, so
that time goes on for ever in a finite state space (`Ages`). `RelaySession` is what
the relay keeps per receiver. `PeerDecode` represents a last sequence number by what
the sender's next frame will be to it: the next, ahead (frames were lost), or not
later (the sender numbers anew); that is all `track_sequence` asks. In `MediaFeedback` a
frame arrives, is dropped at the receiver's channel (which is recorded), lost at a
full mailbox (which is not) or overtaken; heartbeats are lost and reordered; a
request passes the limiter and reaches any part of the room. A packet that cannot be
decoded resets or removes the peer and leaves its sequence numbers (`BadPacket`); in
the code one that fails only after `track_sequence` has been counted there. `happens` names what a
behaviour has of all that, so that the state space is the sum of the environments
and not their product; the environments are sets of faults and streams that interact.

### QualityControl

A report is the pair of ranges the thresholds tell apart; which pair it is, and with
it the PID controller and the windows of past reports, is left open. A report is
throttled, unused, only sampled, or used; the congestion flag is looked at first in
every case. `applied` are the tiers the encoders were told. An index past the tiers
stops the loop (`panicked`). A report about no peer with metrics, at which the code
returns without noting the time (`encoder_bitrate_controller.rs:354`), is left out: it
does what a throttled one does.

## 3. What TLC checks

All runs are exhaustive for the instance named.

An invariant called `...Sound` is a conjunction of the named invariants above it in
its module, the type invariant included: `RoomsSound` (`RosterComplete`,
`PendingHasTimer`), `AnnouncementsSound` (`ReconnectionIsSilent`, `LeftIsFinal`,
`ActiveIsAnnounced`), `ManagerSound` (`OneReconnectionLoop`, `DisconnectIsFinal`,
`ElectedIsLive`, `ShownState`), `TimingSound` (`OutageTolerated`), `BufferSound`
(`BufferIsAhead`), `MeetingsSound` (`OneLiveMeeting`), `FeedbackSound`
(`CongestionIsReported`, `ForwardBound`, `MuteFollowsAudio`) and `QualitySound`
(`EncodersFollow`).

| Run | Instance | Shows |
|---|---|---|
| `chat_safety` | 3 sessions; two users, an observer, the reserved user, one user in a second room and both on a second server | member list complete (`RosterComplete`), reconnections silent, departures final and true, observers invisible, each pending departure has its timer, Active sessions announced, joiners told of all who are up; `Presence` implemented; nothing leaks from one (server, room, user) key to another |
| `chat_liveness` | 3 sessions, 2 users, one room | departures resolve; a user with one session is announced as left |
| `cm_election` | WebSocket + WebTransport, any of them creatable | one loop, finality of disconnect, elected connection live and measured, true state shown, right session; the loop gives up without a server and stops after a disconnect |
| `cm_reelection` | one or two WebSocket servers, RTT 10 or 60 ms | the same across re-elections; a single connection is never replaced for its RTT |
| `reconnect_timing` | 18 attempts, period 2000 ms | backoff never shrinks; only the first election can be cut short; giving up takes a minute at least |
| `jitter_buffer` | two streams of 4 frames, buffer of 2 | bounds and order under loss, reordering, restarts, errors and resets; no gap before a delta frame but for a chunk that could not be made; no keyframe is stuck |
| `meeting_api` | 2 users, 2 concurrent requests, 2 rows, handlers cut off anywhere | one live meeting, nobody waits outside, an active meeting has its host, decisions, taken on any old list, final |
| `meeting_page` | a host's and an attendee's page, pushes may be lost | every decision reaches the attendee's page, everyone who waits is seen by a host who has joined the call |
| `media_feedback` | one sender, seven environments | congestion reported and rate-limited, requests bounded, loss repaired, shown state agrees with what is sent, leavers gone and active peers kept |
| `quality_control` | a camera, the code's own tiers and times in half-second ticks | audio degrades last, one step per report, encoders follow, quality converges |

Bounds. Three sessions give a departure, a reconnection and a bystander, or three
sessions of one user, which is what the three-way races on one key need; keys do not
share state, which the second room and server check. Two servers suffice for a winner
and a loser; `Inst` needs three numbers (preserved connection, candidates, session
still remembered). The limits of the connection manager are lowered (zero connections
10 to 3 and 1, degraded samples 5 to 1 and 2) so that they are reached. 18 attempts
pass all three backoff phases (boundaries at 5 and 15). The jitter buffer's limits
(200, 300, 30) are lowered to 2, 1 and 1 so that a stream of 4 frames exceeds each.
Two requests are what a race needs: any two of join, status, leave, list, admit,
reject, admit-all, delete and the two toggles (a meeting is ended by leaving, the end
request being the same statement after another lookup and too much for one run; the
view drops what no step or property reads again); two rows are a meeting and
the one after it. In `media_feedback` windows and intervals are one or two ticks and
thresholds one to three, so that each boundary is met from both sides; the receiver's
timeouts keep their ratio, and entries go stale as early as the assumptions allow, so
that the cleanup meets recent ones. `quality_control` needs no smaller constants.
Loops are limited to two: one more than the property allows. Deadlock checking is off
only where the system may stop: all sessions over, manager disconnected, loop ended.

Fairness. ChatServer: a timer that was set elapses and the actor handles what is in
its mailbox (weak fairness of `GracePeriodElapses`, `ExecutePendingDeparture`);
nothing obliges a client to act. ConnectionManager: the browser runs a sleeping
loop's timer in the end; no server, callback or election timer is assumed to do
anything. JitterBuffer: a started handler ends, and the worker's 10 ms interval ticks
when all buffered frames are due infinitely often (strong fairness of `PollAllDue`),
since the playout delay is 500 ms at most and no frame waits longer than that.
MeetingPage: handlers run to their end, answers are handled and the polling timers
tick; strong fairness of a request's statements, because PostgreSQL grants a row lock
in the order of waiting. Users need do nothing, not even leave the pre-join screen
(`HostSeesWaiting` speaks of a host who has), nor need connections come up or pushes
arrive. MediaFeedback: timers run; of the frames of a stream, the keyframes it was
asked for, the requests that pass the limiter and the heartbeats, not all are lost
for ever. No periodic keyframe is assumed, so a picture is repaired by requests alone.
QualityControl: time passes and receivers report (every 500 ms in the code).

### Disagreements between code and comments

Two runs are expected to fail, each for one property that a comment states:

| Run | The comment says | The code |
|---|---|---|
| `cm_OldCarriesMedia` | the old connection carries media during a re-election | packets go to the unconnected candidate with the same id |
| `screen_quality` | `new_with_tiers` is for screen share's tiers | it starts at the camera's tier 3 of three screen tiers: the control loop of a screen share panics at its third report (`screen_encoder.rs:153`; `new_for_screen`, which starts right, has no caller) |

The modules state further comments of the code that do not hold, in their last
section. They are not runs; put the definition into a configuration in place of its
properties to see the counterexample:

| Definition | Configuration | The comment says | The code |
|---|---|---|---|
| `RosterIsCleanedUp` | `ChatServer_safety` | entries kept by Disconnect are cleaned up later (`chat_server.rs:267`) | not the one whose pending departure is replaced (`:278`): a ghost stays listed |
| `OnlyActiveIsDeferred` | `ChatServer_safety` | non-active sessions bypass the grace period (`chat_server.rs:253`) | only observers do |
| `SuppressedWasAnnounced` | `ChatServer_safety` | a suppressed user never left from peers' perspective (`:87`) | may never have been announced |
| `OnlyActivatedIsTold` | `ChatServer_safety` | only the activated connection announces itself (`:691`) | joiners are told of Testing sessions |
| `NewcomerIsToldAll` | `ChatServer_safety` | the joiner learns about all participants (`:719`) | only about those on its own process |
| `DepartureIsAnnounced` | `ChatServer_safety` | without a reconnection the leave flow executes (`:47`) | not after a reconnection that never became Active |
| `OnlyActiveLossReacts` | `ConnectionManager_reelection` | only the active connection's loss matters (`connection_manager.rs:516`) | a candidate with the same id counts |
| `ReelectionFlagIsCurrent` | `ConnectionManager_reelection` | the flag means a re-election is in progress (`:169`) | it stays up after one that failed |
| `ReelectionStartsClean` | `ConnectionManager_reelection` | a new election starts clean (`:1179`) | the preserved connection's responses are filed under the reused id |
| `ClientKnowsSession` | `ConnectionManager_election` | the first SESSION_ASSIGNED is processed during the election (`:468`) | it does not reach the client |
| `DisconnectCancelsAttempts` | `ConnectionManager_election` | disconnect cancels attempts in flight (`:1585`) | one in its election wait may still report Failed |
| `ElectionsComplete` | `ReconnectTiming` | the sleep lets the election complete (`:970`) | not the first one if it is extended twice |
| `RestartKeyframeIsUsed` | `JitterBuffer` | decoding starts from the keyframe of the restart (`jitter_buffer.rs:99`) | that keyframe is discarded (`:119`) |
| `DeltaFollowsDecoded` | `JitterBuffer` | a delta frame is decoded only if the preceding frame has been (`frame.rs:28`) | not if the preceding one made no chunk (`worker_decoder.rs:250`) |
| `FirstChangeImproves` | `QualityControl` | the first tier change a user sees is an improvement (`adaptive_quality_constants.rs:121`) | the encoders start at tier 0, so it is a drop |

Four properties hold with a restriction. `DeltaHasReference` excuses a predecessor of
which no chunk could be made, and compares numbers only: a sender that restarts within
30 frames is not noticed, and a delta frame of the new stream that happens to continue
the old numbers is decoded against the old picture. `ActiveIsNotReset` speaks of a
manager with no connection set aside: while a re-election runs, the loss of the
candidate with the active id makes the client give up the working connection
(`OnlyActiveLossReacts`). `OwnSessionIsElected` holds as long as no connection is set
aside for a re-election before its own SESSION_ASSIGNED, which would come late and be
taken for that of the candidate with the same id; it is checked without re-election
and proved under that hypothesis (section 4). `ElectedAnswered` is about first
elections and reconnections: in a re-election the preserved connection still answers
under the candidate's id.

Met while modelling, and built into the models as the code has them:
* Relay session: the limiter's "sliding window" and `CONGESTION_WINDOW` are windows
  that restart; up to twice the limit passes around a boundary (`ForwardBound`).
* CONGESTION: a client's own notice carries its own session id, which
  `create_inbound_media_callback` filters out (`connection_manager.rs:457`), so the
  sender does not act on it; the other clients take it for a packet of that peer.
* Peers: `try_handle_keyframe_request` answers whomever the request is meant for; a
  late frame sets the last number back and opens a false gap; a VIDEO request is
  discarded while the peer counts as off or invisible; the test
  `screen_straggler_after_heartbeat_is_dropped` disagrees with the SCREEN branch;
  "zero inbound packets of any kind" counts decoded media and heartbeats only.
* DIAGNOSTICS packets reach the encoders whoever they are about.
* Quality: "Audio recovers first" is not enforced.
* Meeting API: the slower of two users who open a room gets a 500; the docs' "any
  admitted participant can admit others" is host only in the code; the status
  endpoint may sign a token for a meeting ended between its two reads.
* Meeting page: a page that waits for the meeting to begin does not poll, so that a
  MEETING_ACTIVATED published before its observer is up is missed; an answer
  `waiting_for_meeting` to its second join becomes an error page.

## 4. What is proved

### ChatServer

`ChatServerProofs`, for all sets of sessions, servers, rooms, users and identities,
finite or not, from the assumptions of `ChatServer` alone (identities are well
typed, `NoSession` is no session, `JoinMayOvertake` is a Boolean):

| Theorem | States |
|---|---|
| `RoomsStaySound` | `Spec => []RoomsSound` |
| `AnnouncementsStaySound` | `Spec => []AnnouncementsSound` |
| `TypeCorrect` | `Spec => []TypeOK` |
| `RosterIsComplete` | `Spec => []RosterComplete` |
| `ReconnectionStaysSilent` | `Spec => []ReconnectionIsSilent` |
| `LeftStaysFinal` | `Spec => []LeftIsFinal` |
| `ObserverStaysInvisible` | `Spec => []ObserverInvisible` |
| `PendingKeepsTimer` | `Spec => []PendingHasTimer` |
| `ActiveStaysAnnounced` | `Spec => []ActiveIsAnnounced` |
| `NewcomerStaysTold` | `Spec => NewcomerIsTold`, an action property |

The argument is one inductive invariant, `IndInv`. The properties are not inductive
alone: that a taken-over session is never announced as left depends on its timer
finding nothing pending (`PendingSound`, `TimerSound`), on no second session having
taken over from the same one, and on the suppression mark being there until
activation (`TakeOverSound`); that an Active session was announced depends on marks
being given to reconnections only (`SuppressSound`); and all of them on what a
session's phase excludes (`Lifecycle`). There is one lemma per action; `TakeOver`,
which JoinRoom shares between its error and its success, has its own.

`PresenceIsImplemented`, `Spec => ImplementsPresence`, from the same assumptions.
Initial states map to initial states, and there is one lemma per action that says
which step of Presence, or stutter, it is. The invariant is `PresenceInv`: `IndInv`
with `ActiveSound`, by which `connection_states` and `was_active` of a pending
departure say exactly who was in the meeting; without it an executed departure might
be announced, or not, against the session's history.

### ConnectionManager

`ConnectionManagerProofs`, for all finite sets of servers, all sets of RTTs and all
limits; instance numbers are a finite set of three or more, and `None` is none of
the values it stands next to (`NoneAssumption`, `AbsentAssumption`).

| Theorem | States |
|---|---|
| `ManagerStaysSound` | `Spec => []ManagerSound` |
| `ActiveIsKept` | `Spec => ActiveIsNotReset` |
| `SingleServerStays` | `Spec => SingleServerKept` |
| `WinnersAnswered` | `Spec => ElectedAnswered` |
| `SessionIsElected` | `Spec /\ []OldHasSession => []OwnSessionIsElected` |
| `SessionOfOnlyServer` | `Spec => []OwnSessionIsElected` if at most one server is configured |

`ManagerInv` adds to the properties that a connection is kept under its own id
(`IdsMatch`), that an election measures only candidates that are there
(`CandidatesAreMeasured`, by which a winner exists), and that a disconnected manager
shows Failed. `OneLoop` says without a cardinality what `OneReconnectionLoop` says.
`ActiveIsKept` needs `IdsMatch`: without a connection set aside the id that the lost
callback compares names one connection. `WinnersAnswered` rests on `AnswersAreOwn`:
while nothing is preserved, a queued response under an id, or a sample of it, comes
from the connection now under it. That is so because a reconnection empties the queue
and drops the connections whose callbacks could fill it. A re-election keeps one of
them: the proof fails there, which is why `ElectedAnswered` excludes it, and TLC shows
the behaviour (`ReelectionStartsClean`). `SessionIsElected` rests on `SessionInv`,
which says where the session of the connection that may win is remembered
(`CandidateSession`) until it is elected. Its hypothesis `OldHasSession` (a preserved
connection has had its SESSION_ASSIGNED) is one on the server and the network: a
connection that was elected, degraded and preserved has normally had it long ago, but
nothing in the client checks that. It is needed, as TLC shows. With one server it
holds by itself, which is `SessionOfOnlyServer`.

### ReconnectTiming

`ReconnectTimingProofs`, for every election period and number of attempts, with the
code's own constants:

| Theorem | States |
|---|---|
| `DelaysGrow` | `Spec => BackoffNeverShrinks` |
| `OnlyFirstElectionIsCut` | `Spec => []LaterElectionsComplete` |
| `OutagesAreTolerated` | `Spec => []TimingSound`, for an election period of 1350 ms or more |

`TimingInv` bounds the backoff from below and above by the attempt (`DelayBounds`),
relates what is left of an election, extensions included, to what is left of the
loop's sleep (`ElectionFits`: after the election wait 1599 ms at most), and sums the
shortest backoffs and the election waits so far (`OutageLasts`: ten attempts take
41.5 s and ten times the period plus 500 ms). The user interface configures 2000 and
3000 ms; below 1350 ms ten attempts may take less than a minute.

### JitterBuffer

`JitterBufferProofs`, for all limits, streams and numbers of frames:

| Theorem | States |
|---|---|
| `BufferStaysSound` | `Spec => []BufferSound` |
| `KeyframesJump` | `Spec => OnlyKeyframesJump` |
| `DeltasHaveReference` | `Spec => DeltaHasReference` |

`BufferInv` adds that the frame the decoder was given last, or was to be given
(`Latest`), is the one played last while both are known (`ReferenceIsLast`): that is
what connects the buffer's place in the stream, which a flush forgets, with the
decoder's, which an error forgets.

### MeetingApi and MeetingPage

`MeetingApiProofs`, for all users, requests in flight, rows and offered operations:

| Theorem | States |
|---|---|
| `MeetingsAreSound` | `Spec => []MeetingsSound` |
| `NobodyIsLeftWaiting` | `Spec => []NobodyWaitsOutside` |
| `ActiveMeetingsHaveHosts` | `Spec => []ActiveHasHost` |
| `DecisionsStand` | `Spec => DecisionsAreFinal` |

The invariant says what a handler between two statements may still rely on: its row
exists with the creator it read (`HandlersSound`); a handler inside a transaction
holds its row's lock (`TransactionHoldsLock`), so that the waiting-room flag a join
read with FOR UPDATE is still the row's when it commits (`SeenIsCurrent`), without
which somebody might be left waiting; and a row that was never created has no
participants. `MeetingPageProofs` shows that every step of a page leaves the handlers
at work alone, and concludes `PagesKeepTypes` (`PageSpec => []PageTypeOK`) and
`PagesKeepMeetings` (the meetings' invariants in the composition).

### RelaySession, PeerDecode and MediaFeedback

`FeedbackProofs`, for all senders, windows, intervals and thresholds of which the
congestion window and the notification interval are no longer than a stale entry is
kept (`StaleAssumption`, true of 1000 ms and 10 s):

| Theorem | States |
|---|---|
| `RelayTypeCorrect` | `RelaySpec => []RelayTypeOK` |
| `RelayNotifySpacing` | `RelaySpec => []NotifySpacing` |
| `RelayForwardBound` | `RelaySpec => []ForwardBound` |
| `RelayReportsCongestion` | `RelaySpec => []CongestionIsReported` |
| `FeedbackImplementsRelay` | `Spec => RelaySpec`: the composition drives the relay's session by its own operations only |
| `FeedbackNotifySpacing` | `Spec => []NotifySpacing` |
| `FeedbackTypeCorrect` | `Spec => []TypeOK` |
| `MuteIsAudioOff` | `Spec => []MuteFollowsAudio` |
| `ActivePeersAreSpared` | `Spec => MonitorSparesActive` |
| `FeedbackStaysSound` | `Spec => []FeedbackSound`, from the above |

The cleanup forgets when a sender was last notified. `SpacingInv` adds what makes
that harmless (`RecentIsKept`): a sender notified within the interval has an entry
whose window is no older than the notification, so the cleanup keeps it. The two
bounds compare a counter that restarts with its windows to what happened in the last
ticks, wherever these begin. `forwarded` and `dropped` are kept as a number per span
of last ticks, so that `WindowCounts` and `DropsAreCounted` can say it for every span:
what is younger than the current window is in its count, and what is older is less
than one window more, because a window ends only when everything still recent was in
it. For drops this holds of the time in which the rate limit holds nothing back; then
a count that reaches the threshold is reported at once. `NotifyIsKnown` says that an
entry never remembers a later notification than there was. For the peers, `PeersInv`
adds `SilenceCounts`: a peer without a packet since the last check was silent for one
check more than it has missed. The composition is needed for that, since heartbeats
carry the senders' flags.

### QualityControl

`QualityProofs`, for all numbers of tiers, any start tier and all times:

| Theorem | States |
|---|---|
| `QualityStaysSound` | `QualitySpec => []QualitySound` |
| `AudioAlwaysDegradesLast` | `QualitySpec => AudioDegradesLast` |
| `AlwaysOneStepPerReport` | `QualitySpec => OneStepPerReport` |

`QualityInv` adds to type and `EncodersFollow` that a running audio timer is
evidence of video at its lowest tier (`AudioTimerSound`): a timer left from before
video recovered would degrade audio too early.

### Only model-checked

The liveness properties, since fairness is out of the prover's reach:
`DepartureResolves`, `LoneDepartureIsAnnounced`, `ReconnectionGivesUp`,
`DisconnectStopsLoop`, `KeyframesMoveOn`, `DecisionReachesPage`, `HostSeesWaiting`,
`QualityConverges`, `KeyframeAfterLoss`, `ShownIsSent` and `LeaversDisappear`. And the
two properties that TLC refutes. The inductive invariants were checked by TLC before
they were proved.

## 5. What is not modelled, and the plan

Not modelled: signal processing, the PID controller and other floating-point code
(NetEq's filters, bitrate controller), cryptography, codecs, transport framing, HTTP
sign-in, diagnostics and metrics, layout and forms of the user interfaces, native
clients. Most of the repository's lines are of these kinds: the camera library under
`videocall-cli/nokhwa`, the web components, NetEq's signal processing, generated
protocol buffers, and tests inside the source files. The modelled parts are those in
which the order of events decides.

Of the modelled parts, these hazards are known and have no property:
* `chat_server.rs:742`: the list for a joiner is taken before its subscription
  begins; a participant of another process that activates in between is missed.
* `connection_manager.rs:413`: a delayed SESSION_ASSIGNED of a replaced connection
  overwrites the winner's session (the case that `OldHasSession` excludes in
  `SessionIsElected`).
* `jitter_buffer.rs:219`: an unsigned difference of two `Date.now()` values; the model
  has no clock.
* `peer_decode_manager.rs:405`: the proactive keyframe request asks a decoder that
  always answers no.
* `meeting-api/src/routes/participants.rs:171`: an attendee admitted before a meeting
  ended is still admitted when it is activated again; nothing says what is intended.
* `diagnostics_manager.rs:802`: reports about another sender's stream lower this one's
  quality; needs several senders.

Plan, in order:

1. Proofs: that a page shows nothing the rows never said (the safety half of
   `DecisionReachesPage`); that a peer asked for a keyframe only after a gap.
2. NetEq's packet buffer: order, duplicates, overflow and flush.
3. Subscription and delivery of the ChatServer's packets, composed with PeerDecode.

## 6. Running

    tlc -config ChatServer_safety.cfg MC_ChatServer
    tlc -config MediaFeedback.cfg MC_MediaFeedback
    tlapm ChatServerProofs.tla
    tlapm FeedbackProofs.tla

Module and configuration of every run are in `PROJECT.json`.
