---------------------------- MODULE MediaFeedback -----------------------------
(***************************************************************************)
(* The feedback from a receiver to the senders of a room: a receiver's     *)
(* client (PeerDecode), its session on the relay (RelaySession) and the    *)
(* clients that send, with what lies between them.                         *)
(*                                                                         *)
(* A sender's frames travel as streams of their own: a frame may be        *)
(* dropped at the receiver's outbound channel (which is recorded), be lost *)
(* at a full mailbox (which is not), or be overtaken.  Heartbeats are      *)
(* datagrams and may be lost and reordered.  A keyframe request passes the *)
(* limiter of the receiver's session and is then broadcast to the room.    *)
(***************************************************************************)
EXTENDS RelaySession, PeerDecode

CONSTANTS
    Environments,  \* what may happen, one set of events per behaviour
    MaxRequests    \* bound: requests of a stream on their way to the relay

(* Streams that are sent and faults or acts of users that happen. *)
Event == Streams \cup
    {"off", "drop", "loss", "delay", "heartbeat", "leave", "other",
     "bad", "monitor", "visibility", "canvas", "failure"}

ASSUME EnvironmentsAssumption == Environments \subseteq SUBSET Event
ASSUME MaxRequestsAssumption == MaxRequests \in Nat \ {0}

VARIABLES
    happens,   \* the environment of this behaviour
    in_call,   \* senders that have not left
    on,        \* what a sender sends
    key,       \* its next frame is a keyframe: force_keyframe, or the first
    late,      \* a frame of its that others overtake: a set of at most one
    beats,     \* its heartbeats on their way
    leaving,   \* senders whose PARTICIPANT_LEFT is on its way
    requests,  \* keyframe requests on their way to the relay
    notices,   \* senders whose CONGESTION notification is on its way
    awaiting   \* history: streams that lost frames and had no keyframe since

sendVars == <<in_call, on, key, late, beats, leaving>>
wayVars == <<requests, notices, awaiting>>
vars == <<happens, relayVars, peerVars, sendVars, wayVars>>

Late == [key : BOOLEAN, overtaken : BOOLEAN, old : BOOLEAN]

AllOff == [k \in Streams |-> FALSE]

Init ==
    /\ happens \in Environments
    /\ RelayInit
    /\ PeersInit
    /\ in_call = Sender
    /\ on = [s \in Sender |-> AllOff]
    /\ key = [s \in Sender |-> [k \in Numbered |-> TRUE]]
    /\ late = [s \in Sender |-> [k \in Numbered |-> {}]]
    /\ beats = [s \in Sender |-> {}]
    /\ leaving = {}
    /\ requests = [k \in Numbered |-> 0]
    /\ notices = {}
    /\ awaiting = [s \in Sender |-> [k \in Numbered |-> FALSE]]

(* What is remembered of a peer is forgotten with it. *)
Forgotten(gone) ==
    [s \in Sender |-> IF s \in gone THEN [k \in Numbered |-> FALSE]
                      ELSE awaiting[s]]

-----------------------------------------------------------------------------
(* Senders *)

(* The track of a stream after an event on the sender's side. *)
SetLast(s, k, last) ==
    peers' = IF s \in DOMAIN peers
             THEN [peers EXCEPT ![s].track[k].last = last]
             ELSE peers

LastOf(s, k) == IF s \in DOMAIN peers THEN peers[s].track[k].last ELSE "none"

(* An encoder starts: its first frame is a keyframe and numbered 0.  The    *)
(* change is announced by a heartbeat at once.                              *)
TurnOn(s, k) ==
    /\ k \in happens
    /\ s \in in_call /\ ~on[s][k]
    /\ on' = [on EXCEPT ![s][k] = TRUE]
    /\ beats' = [beats EXCEPT ![s] = @ \cup {on'[s]}]
    /\ IF k \in Numbered
       THEN /\ key' = [key EXCEPT ![s][k] = TRUE]
            /\ late' = [late EXCEPT ![s][k] =
                            {[f EXCEPT !.old = TRUE] : f \in @}]
            /\ SetLast(s, k, IF LastOf(s, k) = "none" THEN "none" ELSE "back")
       ELSE UNCHANGED <<key, late, peers>>
    /\ UNCHANGED <<happens, relayVars, silence, in_call, leaving, wayVars>>

TurnOff(s, k) ==
    /\ "off" \in happens
    /\ s \in in_call /\ on[s][k]
    /\ on' = [on EXCEPT ![s][k] = FALSE]
    /\ beats' = [beats EXCEPT ![s] = @ \cup {on'[s]}]
    /\ UNCHANGED <<happens, relayVars, peerVars, in_call, key, late, leaving,
                   wayVars>>

(* The periodic heartbeat of a sender's elected connection. *)
SendHeartbeat(s) ==
    /\ "heartbeat" \in happens
    /\ s \in in_call
    /\ beats' = [beats EXCEPT ![s] = @ \cup {on[s]}]
    /\ UNCHANGED <<happens, relayVars, peerVars, in_call, on, key, late,
                   leaving, wayVars>>

LeaveCall(s) ==
    /\ "leave" \in happens
    /\ s \in in_call
    /\ in_call' = in_call \ {s}
    /\ leaving' = leaving \cup {s}
    /\ UNCHANGED <<happens, relayVars, peerVars, on, key, late, beats, wayVars>>

(* A frame is produced, a keyframe if one is wanted or now and then. *)
Produces(s, k, isKey) ==
    /\ s \in in_call /\ k \in Numbered /\ on[s][k]
    /\ key[s][k] => isKey
    /\ key' = [key EXCEPT ![s][k] = FALSE]

(* What the frame after a lost one will be to the receiver's last. *)
AfterLoss(last) ==
    CASE last = "none" -> {"none"}
      [] last = "back" -> {"back", "ahead"}
      [] OTHER -> {"ahead"}

(* The receiver's client gets a frame. *)
Receives(s, k, isKey, beyond, next) ==
    /\ DecodeFrame(s, k, isKey, beyond, next)
    /\ IF AsksKeyframe(s, k, isKey, beyond)
       THEN /\ requests[k] < MaxRequests
            /\ requests' = [requests EXCEPT ![k] = @ + 1]
       ELSE UNCHANGED requests
    /\ awaiting' = [awaiting EXCEPT ![s][k] = ~isKey /\ (@ \/ beyond)]

FrameArrives(s, k, isKey) ==
    /\ Produces(s, k, isKey)
    /\ Receives(s, k, isKey, LastOf(s, k) = "ahead", "next")
    /\ late' = [late EXCEPT ![s][k] = {[f EXCEPT !.overtaken = TRUE] : f \in @}]
    /\ UNCHANGED <<happens, relayVars, in_call, on, beats, leaving, notices>>

(* The outbound channel of the receiver's session is full. *)
FrameDropped(s, k, isKey) ==
    /\ "drop" \in happens
    /\ RecordDrop(s)
    /\ notices' = IF Notifies(s) THEN notices \cup {s} ELSE notices
    /\ IF k \in Numbered
       THEN /\ Produces(s, k, isKey)
            /\ \E last \in AfterLoss(LastOf(s, k)) : SetLast(s, k, last)
       ELSE /\ s \in in_call /\ on[s][k] /\ ~isKey
            /\ UNCHANGED <<key, peers>>
    /\ UNCHANGED <<happens, limiterVars, silence, in_call, on, late, beats,
                   leaving, requests, awaiting>>

(* The mailbox of the receiver's session is full (handle_msg). *)
FrameLost(s, k, isKey) ==
    /\ "loss" \in happens
    /\ Produces(s, k, isKey)
    /\ \E last \in AfterLoss(LastOf(s, k)) : SetLast(s, k, last)
    /\ UNCHANGED <<happens, relayVars, silence, in_call, on, late, beats,
                   leaving, wayVars>>

(* The frame's stream is slow: the frame arrives later, after others. *)
FrameDelayed(s, k, isKey) ==
    /\ "delay" \in happens
    /\ late[s][k] = {}
    /\ Produces(s, k, isKey)
    /\ \E last \in AfterLoss(LastOf(s, k)) : SetLast(s, k, last)
    /\ late' = [late EXCEPT ![s][k] =
                   {[key |-> isKey, overtaken |-> FALSE, old |-> FALSE]}]
    /\ UNCHANGED <<happens, relayVars, silence, in_call, on, beats, leaving,
                   wayVars>>

(* A frame that was overtaken is not beyond the receiver's last, except if  *)
(* the sender has begun to number anew; its number becomes the last one.    *)
LateFrameArrives(s, k) ==
    /\ \E f \in late[s][k] :
        /\ f.overtaken
        /\ \E beyond \in IF f.old /\ LastOf(s, k) \in {"next", "ahead"}
                         THEN BOOLEAN ELSE {FALSE},
              next \in IF f.old THEN {"back", "ahead"} ELSE {"ahead"} :
                Receives(s, k, f.key, beyond, next)
    /\ late' = [late EXCEPT ![s][k] = {}]
    /\ UNCHANGED <<happens, relayVars, in_call, on, key, beats, leaving,
                   notices>>

AudioArrives(s) ==
    /\ s \in in_call /\ on[s]["AUDIO"]
    /\ DecodeFrame(s, "AUDIO", FALSE, FALSE, "next")
    /\ UNCHANGED <<happens, relayVars, sendVars, wayVars>>

-----------------------------------------------------------------------------
(* The receiver's client *)

HeartbeatArrives(s, b) ==
    /\ b \in beats[s]
    /\ beats' = [beats EXCEPT ![s] = @ \ {b}]
    /\ DecodeHeartbeat(s, b)
    /\ UNCHANGED <<happens, relayVars, in_call, on, key, late, leaving,
                   wayVars>>

HeartbeatLost(s, b) ==
    /\ b \in beats[s]
    /\ beats' = [beats EXCEPT ![s] = @ \ {b}]
    /\ UNCHANGED <<happens, relayVars, peerVars, in_call, on, key, late,
                   leaving, wayVars>>

LeftArrives(s) ==
    /\ s \in leaving
    /\ leaving' = leaving \ {s}
    /\ DeletePeer(s)
    /\ awaiting' = Forgotten({s})
    /\ UNCHANGED <<happens, relayVars, in_call, on, key, late, beats,
                   requests, notices>>

LeftLost(s) ==
    /\ s \in leaving
    /\ leaving' = leaving \ {s}
    /\ UNCHANGED <<happens, relayVars, peerVars, in_call, on, key, late,
                   beats, wayVars>>

(* The CONGESTION packet about a sender, which the whole room receives.     *)
(* The other clients take the sender for the one it is from; the sender's   *)
(* own client rejects a packet with its own session id (ConnectionManager,  *)
(* create_inbound_media_callback), so that its flag                         *)
(* congestion_step_down_requested is not set.                               *)
NoticeArrives(s) ==
    /\ s \in notices
    /\ notices' = notices \ {s}
    /\ OtherPacket(s)
    /\ UNCHANGED <<happens, relayVars, sendVars, requests, awaiting>>

OtherPacketArrives(s) ==
    /\ "other" \in happens
    /\ s \in in_call
    /\ OtherPacket(s)
    /\ UNCHANGED <<happens, relayVars, sendVars, wayVars>>

BadPacketArrives(s) ==
    /\ "bad" \in happens
    /\ s \in in_call
    /\ BadPacket(s)
    /\ awaiting' = IF s \in DOMAIN peers' THEN awaiting ELSE Forgotten({s})
    /\ UNCHANGED <<happens, relayVars, sendVars, requests, notices>>

Monitor ==
    /\ "monitor" \in happens
    /\ RunPeerMonitor
    /\ awaiting' = Forgotten(DOMAIN peers \ DOMAIN peers')
    /\ UNCHANGED <<happens, relayVars, sendVars, requests, notices>>

ToggleVisibility(s) ==
    /\ "visibility" \in happens
    /\ SetPeerVisibility(s)
    /\ UNCHANGED <<happens, relayVars, sendVars, wayVars>>

(* set_peer_screen_canvas asks for a keyframe of a screen that is shared. *)
SetScreenCanvas(s) ==
    /\ "canvas" \in happens
    /\ "SCREEN" \in Numbered
    /\ s \in DOMAIN peers /\ peers[s].enabled["SCREEN"]
    /\ requests["SCREEN"] < MaxRequests
    /\ requests' = [requests EXCEPT !["SCREEN"] = @ + 1]
    /\ UNCHANGED <<happens, relayVars, peerVars, sendVars, notices, awaiting>>

ConnectionFailed ==
    /\ "failure" \in happens
    /\ ClearAllPeers
    /\ awaiting' = Forgotten(Sender)
    /\ UNCHANGED <<happens, relayVars, sendVars, requests, notices>>

-----------------------------------------------------------------------------
(* The relay *)

(* A request that passes the limiter is broadcast to the room, and makes a  *)
(* keyframe of every client it reaches: try_handle_keyframe_request does    *)
(* not look at the user it is meant for.                                    *)
RequestReaches(k, reached) ==
    /\ requests[k] > 0
    /\ requests' = [requests EXCEPT ![k] = @ - 1]
    /\ HandleKeyframeRequest
    /\ key' = IF Allows
              THEN [s \in Sender |->
                       IF s \in reached THEN [key[s] EXCEPT ![k] = TRUE]
                       ELSE key[s]]
              ELSE key
    /\ UNCHANGED <<happens, trackerVars, peerVars, in_call, on, late, beats,
                   leaving, notices, awaiting>>

Tick ==
    /\ RelayTick
    /\ PeersTick
    /\ UNCHANGED <<happens, sendVars, wayVars>>

Next ==
    \/ \E s \in Sender, k \in Streams : TurnOn(s, k) \/ TurnOff(s, k)
    \/ \E s \in Sender, k \in Numbered, isKey \in BOOLEAN :
          \/ FrameArrives(s, k, isKey)
          \/ FrameLost(s, k, isKey)
          \/ FrameDelayed(s, k, isKey)
    \/ \E s \in Sender, k \in Streams, isKey \in BOOLEAN :
          FrameDropped(s, k, isKey)
    \/ \E s \in Sender, k \in Numbered : LateFrameArrives(s, k)
    \/ \E s \in Sender :
          \/ AudioArrives(s)
          \/ SendHeartbeat(s)
          \/ \E b \in beats[s] : HeartbeatArrives(s, b) \/ HeartbeatLost(s, b)
          \/ LeaveCall(s) \/ LeftArrives(s) \/ LeftLost(s)
          \/ NoticeArrives(s) \/ OtherPacketArrives(s) \/ BadPacketArrives(s)
          \/ ToggleVisibility(s) \/ SetScreenCanvas(s)
    \/ \E k \in Numbered, reached \in SUBSET in_call :
          RequestReaches(k, reached)
    \/ Monitor
    \/ ConnectionFailed
    \/ Tick

Spec == Init /\ [][Next]_vars

(* Timers run, and what a task has to handle is handled.  Nothing is lost   *)
(* for ever: of the frames of a stream, the keyframes it was asked for, the *)
(* requests that pass the limiter and the heartbeats with a sender's state, *)
(* one gets through in the end.  No keyframe comes unless it is asked for.  *)
Fairness ==
    /\ WF_vars(Tick)
    /\ WF_vars(Monitor)
    /\ \A k \in Numbered :
        /\ WF_vars(\E reached \in SUBSET in_call : RequestReaches(k, reached))
        /\ SF_vars(Allows /\ RequestReaches(k, in_call))
    /\ \A s \in Sender :
        /\ WF_vars(SendHeartbeat(s))
        /\ SF_vars(HeartbeatArrives(s, on[s]))
        /\ WF_vars(\E b \in beats[s] \ {on[s]} :
                      HeartbeatArrives(s, b) \/ HeartbeatLost(s, b))
    /\ \A s \in Sender, k \in Numbered :
        /\ SF_vars(FrameArrives(s, k, FALSE))
        /\ SF_vars(key[s][k] /\ FrameArrives(s, k, TRUE))

FairSpec == Spec /\ Fairness

-----------------------------------------------------------------------------
(* Properties *)

(* Every variable has its type. *)
TypeOK ==
    /\ happens \in Environments
    /\ RelayTypeOK
    /\ PeersTypeOK
    /\ in_call \subseteq Sender
    /\ on \in [Sender -> [Streams -> BOOLEAN]]
    /\ key \in [Sender -> [Numbered -> BOOLEAN]]
    /\ late \in [Sender -> [Numbered -> SUBSET Late]]
    /\ beats \in [Sender -> SUBSET [Streams -> BOOLEAN]]
    /\ leaving \subseteq Sender
    /\ requests \in [Numbered -> 0 .. MaxRequests]
    /\ notices \subseteq Sender
    /\ awaiting \in [Sender -> [Numbered -> BOOLEAN]]

\* Relay and clients stay sound under loss, delay and reordering: a sender
\* whose packets are dropped is told, no more requests are forwarded than two
\* windows allow, and a peer shown muted is one whose audio is off
\* (record_drop, KeyframeRequestLimiter::allow, Peer::decode).
FeedbackSound ==
    /\ TypeOK
    /\ CongestionIsReported
    /\ ForwardBound
    /\ MuteFollowsAudio

(* The stream is sent, and its frames are decoded. *)
IsShown(s, k) ==
    /\ s \in in_call /\ on[s][k]
    /\ s \in DOMAIN peers /\ peers[s].enabled[k] /\ peers[s].visible

(* A picture that loss has spoilt does not stay so: the receiver asks until *)
(* a keyframe has come (track_sequence, send_keyframe_request), although    *)
(* frames overtake each other, requests are held back by the limiter of its *)
(* session and requests and keyframes are lost.                             *)
KeyframeAfterLoss ==
    \A s \in Sender, k \in Numbered :
        awaiting[s][k] ~> ~awaiting[s][k] \/ ~IsShown(s, k)

(* What a client shows of a peer's camera, microphone and screen comes to   *)
(* agree with what the peer sends, again and again, whatever heartbeats and *)
(* frames were lost or came too late.                                       *)
ShownIsSent ==
    \A s \in Sender :
        []<>("heartbeat" \in happens /\ s \in in_call \cap DOMAIN peers
             => peers[s].enabled = on[s])

(* A sender that has left is gone for good in the end, although a frame, a  *)
(* heartbeat or a CONGESTION notice that comes after its PARTICIPANT_LEFT   *)
(* makes it a peer again (ensure_peer) and PARTICIPANT_LEFT may be lost.    *)
LeaversDisappear ==
    \A s \in Sender :
        <>[]("monitor" \in happens /\ s \notin in_call
             => s \notin DOMAIN peers)
=============================================================================
