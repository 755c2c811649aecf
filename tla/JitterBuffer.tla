---------------------------- MODULE JitterBuffer ----------------------------
(***************************************************************************)
(* The video jitter buffer (videocall-codecs/src/jitter_buffer.rs) in the  *)
(* decoder worker that owns it (videocall-codecs/src/bin/                  *)
(* worker_decoder.rs), with the browser's VideoDecoder.                    *)
(*                                                                         *)
(* A sender numbers its frames from 0; a sender that restarts (a camera    *)
(* switch, a second screen share) begins a new stream of the same peer     *)
(* with number 0 again.  Frames are lost and reordered in any way and      *)
(* arrive once at most.  The worker has one thread; a handler that plays   *)
(* several frames takes several steps here, during which (playing) nothing *)
(* else happens.  There is no clock: which buffered frames have waited for *)
(* the playout delay, which moves with the jitter estimate, is left open;  *)
(* a frame that has just arrived has not, for the delay is 10 ms at least. *)
(***************************************************************************)
EXTENDS Integers, FiniteSets

CONSTANTS
    Stream,                              \* streams of the sender
    MaxSeq,                              \* bound: last number of a stream
    MAX_BUFFER_SIZE,                     \* 200 in the code
    MAX_CONSECUTIVE_OLD_FRAMES,          \* 300 in the code
    STREAM_RESTART_BACKTRACK_THRESHOLD,  \* 30 in the code
    None                                 \* an absent value

ASSUME SeqAssumption == MaxSeq \in Nat
ASSUME LimitAssumption ==
    /\ MAX_BUFFER_SIZE \in Nat \ {0}
    /\ MAX_CONSECUTIVE_OLD_FRAMES \in Nat
    /\ STREAM_RESTART_BACKTRACK_THRESHOLD \in Nat

SeqNum == 0 .. MaxSeq

(* The first frame of a stream is a keyframe, as are others now and then. *)
Frame == {f \in [stream: Stream, seq: SeqNum, key: BOOLEAN] :
             f.seq = 0 => f.key}

(* What the decoder sees of a frame; the stream it is of, it cannot tell. *)
Chunk == [seq: SeqNum, key: BOOLEAN]
ChunkOf(f) == [seq |-> f.seq, key |-> f.key]

ASSUME NoneAssumption == None \notin Frame \cup Chunk \cup SeqNum

VARIABLES
    arrived,          \* the (stream, seq) pairs that have arrived
    buffered_frames,  \* frames, at most one per sequence number
    last_decoded,     \* last_decoded_sequence_number
    old_frames,       \* num_consecutive_old_frames
    playing,          \* find_and_move_continuous_frames is running
    ready,            \* the numbers whose frames it finds to be due
    decoder,          \* "none", "Configured" or "Closed"
    reference,        \* the last chunk the current decoder accepted
    skipped,          \* number of the last frame it was not given since
    resets            \* scheduled calls of reset_jitter_buffer

decoderVars == <<decoder, reference, skipped, resets>>
vars == <<arrived, buffered_frames, last_decoded, old_frames, playing, ready,
          decoderVars>>

Init ==
    /\ arrived = {}
    /\ buffered_frames = {}
    /\ last_decoded = None
    /\ old_frames = 0
    /\ playing = FALSE
    /\ ready = {}
    /\ decoder = "none"
    /\ reference = None
    /\ skipped = None
    /\ resets = 0

-----------------------------------------------------------------------------
(* Inserting a frame *)

Seqs(frames) == {f.seq : f \in frames}

(* flush: the decoder is left as it is. *)
FlushBuffer ==
    /\ buffered_frames' = {}
    /\ last_decoded' = None
    /\ old_frames' = 0

IsOld(f) == last_decoded # None /\ f.seq <= last_decoded

(* An old keyframe far enough back is taken for a restart of the stream. *)
IsRestart(f) ==
    f.key /\ last_decoded - f.seq > STREAM_RESTART_BACKTRACK_THRESHOLD

(* One old frame more is one too many. *)
TooManyOld == old_frames >= MAX_CONSECUTIVE_OLD_FRAMES

(* The frame is not buffered, even if it makes the buffer flush. *)
InsertOld(f) ==
    /\ IF IsRestart(f) \/ TooManyOld
       THEN FlushBuffer
       ELSE /\ old_frames' = old_frames + 1
            /\ UNCHANGED <<buffered_frames, last_decoded>>
    /\ UNCHANGED <<playing, ready>>

IsFull == Cardinality(buffered_frames) >= MAX_BUFFER_SIZE

(* A full buffer takes a keyframe only, in place of all it holds. *)
InsertNew(f) ==
    /\ old_frames' = 0
    /\ IF IsFull /\ ~f.key
       THEN UNCHANGED <<buffered_frames, playing, ready>>
       ELSE /\ buffered_frames' =
                   (IF IsFull THEN {}
                    ELSE {g \in buffered_frames : g.seq # f.seq}) \cup {f}
            /\ playing' = TRUE
            /\ ready' \in SUBSET (Seqs(buffered_frames') \ {f.seq})
    /\ UNCHANGED last_decoded

(* WorkerMessage::DecodeFrame.  The first one after a reset creates the     *)
(* buffer, which is then as an empty one.                                   *)
InsertFrame(f) ==
    /\ ~playing
    /\ <<f.stream, f.seq>> \notin arrived
    /\ arrived' = arrived \cup {<<f.stream, f.seq>>}
    /\ IF IsOld(f) THEN InsertOld(f) ELSE InsertNew(f)
    /\ UNCHANGED decoderVars

-----------------------------------------------------------------------------
(* Playing frames *)

(* The 10 ms interval: find_and_move_continuous_frames is called. *)
Poll ==
    /\ ~playing
    /\ buffered_frames # {}
    /\ playing' = TRUE
    /\ ready' \in SUBSET Seqs(buffered_frames)
    /\ UNCHANGED <<arrived, buffered_frames, last_decoded, old_frames,
                   decoderVars>>

(* The frame to play next, ready or not: the one after the last, or the     *)
(* first keyframe after a gap; to begin with, the first keyframe.           *)
FirstOf(frames) == {f \in frames : \A g \in frames : f.seq <= g.seq}

NextDecodable_NoRecovery ==
    IF last_decoded = None
    THEN FirstOf({f \in buffered_frames : f.key})
    ELSE {f \in buffered_frames : f.seq = last_decoded + 1}

NextDecodable_AnyFrame ==
    IF last_decoded = None
    THEN FirstOf({f \in buffered_frames : f.key})
    ELSE FirstOf({f \in buffered_frames : f.seq > last_decoded})

NextDecodable ==
    IF last_decoded = None
    THEN FirstOf({f \in buffered_frames : f.key})
    ELSE IF last_decoded + 1 \in Seqs(buffered_frames)
    THEN {f \in buffered_frames : f.seq = last_decoded + 1}
    ELSE FirstOf({f \in buffered_frames :
                     f.key /\ f.seq > last_decoded + 1})

(* A keyframe that is jumped to drops all frames before it. *)
Rest_Kept(f) == buffered_frames \ {f}

Rest(f) ==
    IF f.key /\ (last_decoded = None \/ f.seq # last_decoded + 1)
    THEN {g \in buffered_frames : g.seq > f.seq}
    ELSE buffered_frames \ {f}

(* The browser's VideoDecoder throws on a delta frame that comes first. *)
Accepts(f) == f.key \/ reference # None

(* The decoder is given up. *)
NoDecoder == decoder' = "none" /\ reference' = None /\ skipped' = None

(* WebDecoder::decode.  A decoder that is Configured is used, otherwise a   *)
(* new one is made, which has nothing to refer to.  The frame is given to   *)
(* the decoder; skipped because no decoder could be made; skipped because   *)
(* no chunk could be made of it, and the decoder stays in use; or refused,  *)
(* and then the decoder is destroyed and a reset of the buffer scheduled    *)
(* (reset_pipeline).  In each case the buffer counts the frame as decoded.  *)
Decode(f) ==
    \/ /\ Accepts(f)
       /\ decoder' = "Configured"
       /\ reference' = ChunkOf(f)
       /\ skipped' = None
       /\ UNCHANGED resets
    \/ /\ decoder # "Configured"
       /\ NoDecoder
       /\ UNCHANGED resets
    \/ /\ decoder' = "Configured"
       /\ skipped' = IF reference = None THEN None ELSE f.seq
       /\ UNCHANGED <<reference, resets>>
    \/ /\ ~Accepts(f)
       /\ NoDecoder
       /\ resets' = resets + 1

(* A mutant of PlayFrame: to catch up, a delta frame is dropped while other *)
(* frames are due.                                                          *)
PlayFrame_CatchesUp ==
    /\ playing
    /\ \E f \in NextDecodable :
        /\ f.seq \in ready
        /\ IF f.key \/ ready = {f.seq} THEN Decode(f)
                                      ELSE UNCHANGED decoderVars
        /\ buffered_frames' = Rest(f)
        /\ last_decoded' = f.seq
    /\ ready' = ready \cap Seqs(buffered_frames')
    /\ UNCHANGED <<arrived, old_frames, playing>>

(* One turn of the loop of find_and_move_continuous_frames. *)
PlayFrame ==
    /\ playing
    /\ \E f \in NextDecodable :
        /\ f.seq \in ready
        /\ Decode(f)
        /\ buffered_frames' = Rest(f)
        /\ last_decoded' = f.seq
    /\ ready' = ready \cap Seqs(buffered_frames')
    /\ UNCHANGED <<arrived, old_frames, playing>>

(* Its last turn: there is no next frame, or it is not due. *)
PlayDone ==
    /\ playing
    /\ \A f \in NextDecodable : f.seq \notin ready
    /\ playing' = FALSE
    /\ ready' = {}
    /\ UNCHANGED <<arrived, buffered_frames, last_decoded, old_frames,
                   decoderVars>>

-----------------------------------------------------------------------------
(* Other events of the worker *)

(* WorkerMessage::Flush, sent when the peer turned its video off. *)
Flush ==
    /\ ~playing
    /\ FlushBuffer
    /\ UNCHANGED <<arrived, playing, ready, decoderVars>>

(* The browser closes the decoder after an error of its own. *)
DecoderError ==
    /\ ~playing
    /\ decoder = "Configured"
    /\ decoder' = "Closed"
    /\ reference' = None
    /\ skipped' = None
    /\ UNCHANGED <<arrived, buffered_frames, last_decoded, old_frames,
                   playing, ready, resets>>

(* A timeout set by reset_pipeline: buffer and decoder are dropped. *)
ResetJitterBuffer ==
    /\ ~playing
    /\ resets > 0
    /\ resets' = resets - 1
    /\ FlushBuffer
    /\ NoDecoder
    /\ UNCHANGED <<arrived, playing, ready>>

Next ==
    \/ \E f \in Frame : InsertFrame(f)
    \/ Poll
    \/ PlayFrame
    \/ PlayDone
    \/ Flush
    \/ DecoderError
    \/ ResetJitterBuffer

Spec == Init /\ [][Next]_vars

(* The worker's interval ticks, a handler runs to its end, and a frame that *)
(* stays buffered is due in the end: the playout delay is 500 ms at most.   *)
PollAllDue == Poll /\ ready' = Seqs(buffered_frames)

Fairness ==
    /\ WF_vars(PlayFrame \/ PlayDone)
    /\ SF_vars(PollAllDue)

FairSpec == Spec /\ Fairness

-----------------------------------------------------------------------------
(* Properties *)

(* Every variable has its type; the old-frame counter stays within its      *)
(* limit.                                                                   *)
TypeOK ==
    /\ arrived \subseteq Stream \X SeqNum
    /\ buffered_frames \subseteq Frame
    /\ last_decoded \in SeqNum \cup {None}
    /\ old_frames \in 0 .. MAX_CONSECUTIVE_OLD_FRAMES
    /\ playing \in BOOLEAN
    /\ ready \subseteq SeqNum
    /\ decoder \in {"none", "Configured", "Closed"}
    /\ reference \in Chunk \cup {None}
    /\ skipped \in SeqNum \cup {None}
    /\ resets \in Nat

(* Whatever arrives late, twice numbered or after a restart, the buffer     *)
(* holds no more than MAX_BUFFER_SIZE frames, one per number, all still to  *)
(* be played.                                                               *)
BufferIsAhead ==
    /\ Cardinality(buffered_frames) <= MAX_BUFFER_SIZE
    /\ \A f, g \in buffered_frames : f.seq = g.seq => f = g
    /\ last_decoded # None => \A f \in buffered_frames : f.seq > last_decoded

\* The buffer keeps its bound and the counter of old frames its limit, and
\* all that is buffered is still to be played (insert_frame,
\* find_and_move_continuous_frames).
BufferSound ==
    /\ TypeOK
    /\ BufferIsAhead

(* Playback never goes back except through a flush, and only a keyframe is  *)
(* played out of sequence (find_and_move_continuous_frames).                *)
OnlyKeyframesJump ==
    [][last_decoded' # last_decoded /\ last_decoded' # None =>
           \E f \in buffered_frames :
               /\ f.seq = last_decoded'
               /\ \/ last_decoded # None /\ f.seq = last_decoded + 1
                  \/ f.key /\ (last_decoded # None => f.seq > last_decoded)]_vars

(* A step gives the decoder a delta frame. *)
GivesDelta ==
    /\ playing /\ last_decoded' # last_decoded
    /\ reference' # None /\ skipped' = None /\ ~reference'.key

(* The number that the decoder in use was given last, or was to be given.   *)
Latest == IF skipped # None THEN skipped ELSE reference.seq

(* No frame is missing between a delta frame and the one before it because  *)
(* it was lost, late or flushed: the decoder in use is given a delta frame  *)
(* only right after the frame numbered one less, through losses, restarts,  *)
(* decoder errors, resets and flushes (NextDecodable, initialize_decoder,   *)
(* reset_pipeline).  That frame may have been skipped, but then because no  *)
(* chunk could be made of it.  (Of which stream it was, the numbers do not  *)
(* tell.)                                                                   *)
DeltaHasReference ==
    [][GivesDelta =>
           reference # None /\ Latest + 1 = reference'.seq]_vars

(* No keyframe is stuck: one that is buffered leaves the buffer, played or  *)
(* dropped, whatever gap it is behind.                                      *)
KeyframesMoveOn ==
    \A n \in SeqNum :
        LET Waits == \E f \in buffered_frames : f.key /\ f.seq = n
        IN  Waits ~> ~Waits

-----------------------------------------------------------------------------
(* What comments of the code say and the code does not do *)

(* "A DeltaFrame can only be decoded if the preceding frame has been        *)
(* decoded" (FrameType): none is given to a decoder that the preceding      *)
(* frame was not given to.                                                  *)
DeltaFollowsDecoded ==
    [][GivesDelta =>
           reference # None /\ reference.seq + 1 = reference'.seq]_vars

(* "Flush immediately so we can start decoding from this new keyframe"      *)
(* (insert_frame): the keyframe that is taken for a restart, the first      *)
(* frame of a new stream to arrive, is buffered.                            *)
RestartKeyframeIsUsed ==
    [][\A f \in Frame :
          /\ <<f.stream, f.seq>> \in arrived' \ arrived
          /\ \A n \in SeqNum : <<f.stream, n>> \notin arrived
          /\ IsOld(f) /\ IsRestart(f)
          /\ ~TooManyOld /\ last_decoded' = None
          => f \in buffered_frames']_vars
=============================================================================
