------------------------------ MODULE PeerDecode ------------------------------
(***************************************************************************)
(* The peers of a client (PeerDecodeManager and Peer in videocall-client/  *)
(* src/decode/peer_decode_manager.rs, called by on_inbound_media of        *)
(* video_call_client.rs): which peers there are, what is shown of them and *)
(* when one is asked for a keyframe.                                       *)
(*                                                                         *)
(* A last sequence number is represented by what the sender's next frame   *)
(* will be to it: see Last.  Instants are kept as their ages, and a count  *)
(* of packets as whether it is zero.                                       *)
(***************************************************************************)
EXTENDS RoomSessions, Functions

CONSTANTS
    Streams,                          \* what they send
    KEYFRAME_REQUEST_TIMEOUT,         \* 1000 ms in the code
    KEYFRAME_REQUEST_MIN_INTERVAL,    \* 500 ms
    NoGap                             \* no gap was detected

ASSUME StreamsAssumption ==
    "AUDIO" \in Streams /\ Streams \subseteq {"VIDEO", "SCREEN", "AUDIO"}
ASSUME RequestAssumption ==
    /\ KEYFRAME_REQUEST_TIMEOUT \in Nat
    /\ KEYFRAME_REQUEST_MIN_INTERVAL \in Nat
    /\ NoGap \notin Nat

VARIABLES
    peers,    \* connected_peers: session -> Peer
    silence   \* history: monitor checks since a packet of a sender counted

peerVars == <<peers, silence>>

(* The streams whose packets are numbered. *)
Numbered == Streams \cap {"VIDEO", "SCREEN"}

(* Of last_*_seq: there is none; the sender's next frame is the one after   *)
(* it, or is later (frames were lost), or is not later (the sender began to *)
(* number anew).                                                            *)
Last == {"none", "next", "ahead", "back"}

Track == [last : Last,
          gap : 0 .. KEYFRAME_REQUEST_TIMEOUT \cup {NoGap},
          request : 0 .. KEYFRAME_REQUEST_MIN_INTERVAL]

Peer == [enabled : [Streams -> BOOLEAN],
         muted : BOOLEAN,
         heartbeat : BOOLEAN,   \* has_received_heartbeat
         visible : BOOLEAN,
         active : BOOLEAN,      \* activity_count > 0
         missed : 0 .. 2,       \* missed_heartbeat_checks
         track : [Numbered -> Track]]

NewPeer ==
    [enabled |-> [k \in Streams |-> FALSE],
     muted |-> TRUE,
     heartbeat |-> FALSE,
     visible |-> TRUE,
     active |-> TRUE,
     missed |-> 0,
     track |-> [k \in Numbered |->
                   [last |-> "none", gap |-> NoGap,
                    request |-> KEYFRAME_REQUEST_MIN_INTERVAL]]]

PeersInit ==
    /\ peers = [s \in {} |-> NewPeer]
    /\ silence = [s \in Sender |-> 0]

-----------------------------------------------------------------------------
(* Peers come and go *)

(* ensure_peer: the peer of a packet, a new one if it is not known. *)
Ensured(s) == IF s \in DOMAIN peers THEN peers[s] ELSE NewPeer

SetPeer(s, p) ==
    peers' = [t \in DOMAIN peers \cup {s} |-> IF t = s THEN p ELSE peers[t]]

RemovePeers(gone) == peers' = Restrict(peers, DOMAIN peers \ gone)

(* delete_peer, for a PARTICIPANT_LEFT of the session. *)
DeletePeer(s) ==
    /\ RemovePeers({s})
    /\ UNCHANGED silence

(* clear_all_peers, when the connection has failed. *)
ClearAllPeers ==
    /\ RemovePeers(DOMAIN peers)
    /\ UNCHANGED silence

(* A packet that is not for the decoders: DIAGNOSTICS, a key, CONGESTION or *)
(* a KEYFRAME_REQUEST.  It makes the peer known and counts for nothing.     *)
OtherPacket(s) ==
    /\ SetPeer(s, Ensured(s))
    /\ UNCHANGED silence

(* A packet that cannot be decrypted, parsed or decoded: the peer gets new  *)
(* decoders (reset), or is deleted if that fails too.                       *)
BadPacket(s) ==
    /\ \/ SetPeer(s, [Ensured(s) EXCEPT !.muted = ~Ensured(s).enabled["AUDIO"]])
       \/ RemovePeers({s})
    /\ UNCHANGED silence

(* run_peer_monitor, every five seconds. *)
IsDead(p) == ~p.active /\ p.missed = 2

Checked_Misses(p) ==
    IF p.active THEN [p EXCEPT !.active = FALSE]
    ELSE [p EXCEPT !.missed = @ + 1]

Checked_Active(p) ==
    IF p.active THEN [p EXCEPT !.missed = 0]
    ELSE [p EXCEPT !.missed = @ + 1]

Checked(p) ==
    IF p.active THEN [p EXCEPT !.active = FALSE, !.missed = 0]
    ELSE [p EXCEPT !.missed = @ + 1]

RunPeerMonitor ==
    /\ peers' = [s \in {t \in DOMAIN peers : ~IsDead(peers[t])} |->
                    Checked(peers[s])]
    /\ silence' = [s \in Sender |-> Aged(silence[s], 3)]

(* set_peer_visibility, by the user interface. *)
SetPeerVisibility(s) ==
    /\ s \in DOMAIN peers
    /\ SetPeer(s, [peers[s] EXCEPT !.visible = ~@])
    /\ UNCHANGED silence

-----------------------------------------------------------------------------
(* Media *)

(* track_sequence for a frame that is beyond the one after the last, or is  *)
(* not; next is what the sender's next frame will be to it.  A keyframe     *)
(* ends a gap, and begins one if it is itself beyond.                       *)
GapAfter(t, key, beyond) ==
    LET gap == IF key THEN NoGap ELSE t.gap
    IN  IF beyond /\ gap = NoGap THEN 0 ELSE gap

IsDue(t, gap) ==
    /\ gap # NoGap
    /\ gap >= KEYFRAME_REQUEST_TIMEOUT
    /\ t.request >= KEYFRAME_REQUEST_MIN_INTERVAL

Tracked_Once(t, key, beyond, next) ==
    LET gap == GapAfter(t, key, beyond)
    IN  [last |-> next,
         gap |-> IF IsDue(t, gap) THEN NoGap ELSE gap,
         request |-> IF IsDue(t, gap) THEN 0 ELSE t.request]

Tracked(t, key, beyond, next) ==
    LET gap == GapAfter(t, key, beyond)
    IN  [last |-> next,
         gap |-> gap,
         request |-> IF IsDue(t, gap) THEN 0 ELSE t.request]

(* Peer::decode believes a VIDEO or AUDIO frame while no heartbeat has come *)
(* and a SCREEN frame always; other frames of a stream that is off are      *)
(* skipped.                                                                 *)
Believes(p, k) == p.enabled[k] \/ ~p.heartbeat \/ k = "SCREEN"

WithFrame(p, k) ==
    IF ~Believes(p, k) THEN p
    ELSE [p EXCEPT !.enabled[k] = TRUE,
                   !.muted = @ /\ k # "AUDIO"]

WithTrack(p, k, key, beyond, next) ==
    IF k \notin Numbered THEN p
    ELSE [p EXCEPT !.track[k] = Tracked(@, key, beyond, next)]

(* A frame arrives and counts as activity, even if it is skipped. *)
DecodeFrame(s, k, key, beyond, next) ==
    /\ SetPeer(s, [WithFrame(WithTrack(Ensured(s), k, key, beyond, next), k)
                      EXCEPT !.active = TRUE])
    /\ silence' = [silence EXCEPT ![s] = 0]

(* The frame makes the client ask for a keyframe.  (The request a SCREEN    *)
(* decoder that waits for a keyframe should make is never made: a decoder   *)
(* in a worker never says that it waits.)                                   *)
AsksKeyframe(s, k, key, beyond) ==
    LET p == Ensured(s)
    IN  /\ k \in Numbered
        /\ IsDue(p.track[k], GapAfter(p.track[k], key, beyond))
        /\ Believes(p, k)
        /\ k = "SCREEN" \/ p.visible

(* A HEARTBEAT says which streams are on. *)
WithHeartbeat_First(p, on) ==
    IF p.heartbeat THEN p
    ELSE [p EXCEPT !.heartbeat = TRUE, !.enabled = on, !.muted = ~on["AUDIO"]]

WithHeartbeat(p, on) ==
    [p EXCEPT !.heartbeat = TRUE,
              !.enabled = on,
              !.muted = IF p.enabled["AUDIO"] # on["AUDIO"] THEN ~on["AUDIO"]
                        ELSE @]

DecodeHeartbeat(s, on) ==
    /\ SetPeer(s, [WithHeartbeat(Ensured(s), on) EXCEPT !.active = TRUE])
    /\ silence' = [silence EXCEPT ![s] = 0]

-----------------------------------------------------------------------------
(* Time *)

(* A track one tick later. *)
OlderTrack(t) ==
    [t EXCEPT !.gap = IF @ = NoGap THEN NoGap
                      ELSE Aged(@, KEYFRAME_REQUEST_TIMEOUT),
              !.request = Aged(@, KEYFRAME_REQUEST_MIN_INTERVAL)]

PeersTick ==
    /\ peers' = [s \in DOMAIN peers |->
                    [peers[s] EXCEPT !.track =
                        [k \in Numbered |-> OlderTrack(peers[s].track[k])]]]
    /\ UNCHANGED silence

-----------------------------------------------------------------------------
(* Properties *)

(* The type of the client's peers. *)
PeersTypeOK ==
    /\ DOMAIN peers \subseteq Sender
    /\ \A s \in DOMAIN peers : peers[s] \in Peer
    /\ silence \in [Sender -> 0 .. 3]

(* The audio decoder is muted exactly while the peer's microphone counts as *)
(* off, through inferred flags, heartbeats (which touch it only when the    *)
(* flag changes) and decoders made anew.                                    *)
MuteFollowsAudio ==
    \A s \in DOMAIN peers : peers[s].muted = ~peers[s].enabled["AUDIO"]

(* "A peer is only considered dead after 3 consecutive checks with zero     *)
(* inbound packets" (check_heartbeat): the monitor removes no peer unless   *)
(* three whole intervals passed since a packet of it counted.               *)
MonitorSparesActive ==
    [][RunPeerMonitor =>
           \A s \in DOMAIN peers \ DOMAIN peers' : silence[s] >= 3]_peerVars
=============================================================================
