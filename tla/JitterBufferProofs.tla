-------------------------- MODULE JitterBufferProofs --------------------------
(***************************************************************************)
(* Proofs about JitterBuffer: its bounds, the order in which frames leave  *)
(* it and what the decoder refers to, for any number of streams and frames *)
(* and any limits.                                                         *)
(***************************************************************************)
EXTENDS JitterBuffer, FiniteSetTheorems, TLAPS

\* What playback and the decoder agree on: while both go on, the frame the
\* decoder was given last, or could not be given, is the one that was played
\* last.  A flush makes the buffer forget its place, an error the decoder its
\* reference.
ReferenceIsLast ==
    reference # None /\ last_decoded # None => Latest = last_decoded

\* Only a decoder in use has a reference.
DecoderHasReference ==
    /\ reference # None => decoder = "Configured"
    /\ skipped # None => reference # None

\* The inductive invariant.
BufferInv ==
    /\ TypeOK
    /\ IsFiniteSet(buffered_frames)
    /\ BufferIsAhead
    /\ ReferenceIsLast
    /\ DecoderHasReference

USE SeqAssumption, LimitAssumption, NoneAssumption

(* A frame has a stream, a number and a kind. *)
LEMMA FrameFacts ==
    ASSUME NEW f \in Frame
    PROVE  /\ f.seq \in SeqNum /\ f.seq \in Nat /\ f.seq # None
           /\ f.stream \in Stream /\ f.key \in BOOLEAN /\ f # None
BY DEF Frame, SeqNum

(* The numbers of buffered frames are sequence numbers. *)
LEMMA SeqsFacts ==
    ASSUME NEW frames \in SUBSET Frame
    PROVE  Seqs(frames) \subseteq SeqNum
BY FrameFacts DEF Seqs

(* A smaller buffer is within the bound that a larger one is within. *)
LEMMA SmallerBuffer ==
    ASSUME BufferInv, NEW frames \in SUBSET buffered_frames
    PROVE  /\ IsFiniteSet(frames)
           /\ Cardinality(frames) <= MAX_BUFFER_SIZE
           /\ Cardinality(frames) \in Nat
<1>1. IsFiniteSet(buffered_frames)
      /\ Cardinality(buffered_frames) <= MAX_BUFFER_SIZE
  BY DEF BufferInv, BufferIsAhead
<1>2. /\ IsFiniteSet(frames)
      /\ Cardinality(frames) <= Cardinality(buffered_frames)
  BY <1>1, FS_Subset
<1>3. Cardinality(frames) \in Nat /\ Cardinality(buffered_frames) \in Nat
  BY <1>1, <1>2, FS_CardinalityType
<1> QED
  BY <1>1, <1>2, <1>3

(* The next frame to play lies ahead, is the only buffered frame of its     *)
(* number, and follows the last one played or is a keyframe.                *)
LEMMA NextFrame ==
    ASSUME BufferInv, NEW f \in NextDecodable
    PROVE  /\ f \in buffered_frames /\ f \in Frame
           /\ last_decoded # None => last_decoded \in Nat /\ f.seq > last_decoded
           /\ \/ last_decoded # None /\ f.seq = last_decoded + 1
              \/ f.key /\ (last_decoded # None => f.seq # last_decoded + 1)
<1>1. f \in buffered_frames
  BY DEF NextDecodable, FirstOf
<1>2. f \in Frame /\ buffered_frames \subseteq Frame
  BY <1>1 DEF BufferInv, TypeOK
<1>3. last_decoded # None => last_decoded \in Nat /\ f.seq > last_decoded
  BY <1>1 DEF BufferInv, TypeOK, BufferIsAhead, SeqNum
<1>4. CASE last_decoded = None
  BY <1>1, <1>2, <1>4 DEF NextDecodable, FirstOf
<1>5. CASE last_decoded # None /\ last_decoded + 1 \in Seqs(buffered_frames)
  BY <1>1, <1>2, <1>3, <1>5 DEF NextDecodable
<1>6. CASE last_decoded # None /\ last_decoded + 1 \notin Seqs(buffered_frames)
  <2>1. f.key /\ f.seq > last_decoded + 1
    BY <1>6 DEF NextDecodable, FirstOf
  <2> QED
    BY <1>1, <1>2, <1>3, <1>6, <2>1, FrameFacts
<1> QED
  BY <1>4, <1>5, <1>6

(* What stays in the buffer when f is played lies behind f. *)
LEMMA RestFacts ==
    ASSUME BufferInv, NEW f \in NextDecodable
    PROVE  /\ Rest(f) \in SUBSET buffered_frames
           /\ \A g \in Rest(f) : g.seq > f.seq
<1>1. /\ f \in buffered_frames /\ f \in Frame
      /\ last_decoded # None => last_decoded \in Nat
      /\ \/ last_decoded # None /\ f.seq = last_decoded + 1
         \/ f.key /\ (last_decoded # None => f.seq # last_decoded + 1)
  BY NextFrame
<1>2. Rest(f) \in SUBSET buffered_frames
  BY DEF Rest
<1>3. CASE last_decoded # None /\ f.seq = last_decoded + 1
  <2> SUFFICES ASSUME NEW g \in Rest(f)
               PROVE  g.seq > f.seq
    BY <1>2
  <2>1. g \in buffered_frames \ {f}
    BY <1>3 DEF Rest
  <2>2. g.seq \in Nat /\ f.seq \in Nat
    BY <1>1, <2>1, FrameFacts DEF BufferInv, TypeOK
  <2>3. g.seq > last_decoded /\ g.seq # f.seq
    BY <1>1, <1>3, <2>1 DEF BufferInv, BufferIsAhead
  <2> QED
    BY <1>1, <1>3, <2>2, <2>3
<1>4. CASE f.key /\ (last_decoded # None => f.seq # last_decoded + 1)
  BY <1>4 DEF Rest
<1> QED
  BY <1>1, <1>2, <1>3, <1>4

-----------------------------------------------------------------------------
(* An old frame is counted or makes the buffer flush. *)
LEMMA InsertOldInv ==
    ASSUME BufferInv, NEW f \in Frame, InsertFrame(f), IsOld(f)
    PROVE  BufferInv'
<1>1. /\ arrived' \subseteq Stream \X SeqNum
      /\ UNCHANGED <<playing, ready, decoder, reference, skipped, resets>>
  BY FrameFacts DEF BufferInv, TypeOK, InsertFrame, InsertOld, decoderVars
<1>2. CASE FlushBuffer
  <2>1. TypeOK'
    BY <1>1, <1>2 DEF BufferInv, TypeOK, FlushBuffer
  <2>2. IsFiniteSet(buffered_frames)' /\ BufferIsAhead'
    BY <1>2, FS_EmptySet DEF FlushBuffer, BufferIsAhead
  <2>3. ReferenceIsLast' /\ DecoderHasReference'
    BY <1>1, <1>2
    DEF BufferInv, ReferenceIsLast, Latest, DecoderHasReference, FlushBuffer
  <2> QED
    BY <2>1, <2>2, <2>3 DEF BufferInv
<1>3. CASE ~ TooManyOld /\ old_frames' = old_frames + 1
           /\ UNCHANGED <<buffered_frames, last_decoded>>
  <2>1. TypeOK'
    BY <1>1, <1>3 DEF BufferInv, TypeOK, TooManyOld
  <2> QED
    BY <1>1, <1>3, <2>1
    DEF BufferInv, BufferIsAhead, ReferenceIsLast, Latest, DecoderHasReference
<1> QED
  BY <1>2, <1>3 DEF InsertFrame, InsertOld

(* A new frame is taken into a buffer with room, in the place of one of its *)
(* number; a full buffer takes a keyframe, and holds nothing else then.     *)
LEMMA InsertNewInv ==
    ASSUME BufferInv, NEW f \in Frame, InsertFrame(f), ~ IsOld(f)
    PROVE  BufferInv'
<1>1. /\ arrived' \subseteq Stream \X SeqNum
      /\ old_frames' = 0 /\ old_frames' \in 0 .. MAX_CONSECUTIVE_OLD_FRAMES
      /\ UNCHANGED <<last_decoded, decoder, reference, skipped, resets>>
  BY FrameFacts DEF BufferInv, TypeOK, InsertFrame, InsertNew, decoderVars
<1>2. ReferenceIsLast' /\ DecoderHasReference'
  BY <1>1 DEF BufferInv, ReferenceIsLast, Latest, DecoderHasReference
<1>3. CASE UNCHANGED <<buffered_frames, playing, ready>>
  BY <1>1, <1>2, <1>3 DEF BufferInv, TypeOK, BufferIsAhead
<1>4. CASE ~ (UNCHANGED <<buffered_frames, playing, ready>>)
  <2> DEFINE kept == IF IsFull THEN {}
                     ELSE {g \in buffered_frames : g.seq # f.seq}
  <2>1. /\ buffered_frames' = kept \cup {f} /\ playing' = TRUE
        /\ ready' \in SUBSET (Seqs(buffered_frames') \ {f.seq})
    BY <1>4 DEF InsertFrame, InsertNew
  <2>2. /\ kept \in SUBSET buffered_frames
        /\ \A g \in kept : g.seq # f.seq
    OBVIOUS
  <2>3. IsFiniteSet(kept) /\ Cardinality(kept) \in Nat
        /\ Cardinality(kept) < MAX_BUFFER_SIZE
    <3>1. CASE IsFull
      BY <3>1, FS_EmptySet
    <3>2. CASE ~ IsFull
      <4>1. IsFiniteSet(buffered_frames)
        BY DEF BufferInv
      <4>2. /\ IsFiniteSet(kept)
            /\ Cardinality(kept) <= Cardinality(buffered_frames)
        BY <2>2, <4>1, FS_Subset
      <4>3. /\ Cardinality(buffered_frames) \in Nat
            /\ Cardinality(kept) \in Nat
        BY <4>1, <4>2, FS_CardinalityType
      <4> QED
        BY <3>2, <4>2, <4>3 DEF IsFull
    <3> QED
      BY <3>1, <3>2
  <2> HIDE DEF kept
  <2>4. /\ IsFiniteSet(buffered_frames')
        /\ Cardinality(buffered_frames') <= MAX_BUFFER_SIZE
    <3>1. /\ IsFiniteSet(kept \cup {f})
          /\ \/ Cardinality(kept \cup {f}) = Cardinality(kept)
             \/ Cardinality(kept \cup {f}) = Cardinality(kept) + 1
      BY <2>3, FS_AddElement
    <3> QED
      BY <2>1, <2>3, <3>1
  <2>5. TypeOK'
    <3>1. buffered_frames' \subseteq Frame
      BY <2>1, <2>2 DEF BufferInv, TypeOK
    <3>2. ready' \subseteq SeqNum
      BY <2>1, <3>1, SeqsFacts
    <3> QED
      BY <1>1, <2>1, <3>1, <3>2 DEF BufferInv, TypeOK
  <2>6. BufferIsAhead'
    <3>1. \A g, h \in buffered_frames' : g.seq = h.seq => g = h
      BY <2>1, <2>2 DEF BufferInv, BufferIsAhead
    <3>2. last_decoded # None => f.seq > last_decoded
      BY FrameFacts DEF IsOld, BufferInv, TypeOK, SeqNum
    <3>3. last_decoded' # None =>
              \A g \in buffered_frames' : g.seq > last_decoded'
      BY <1>1, <2>1, <2>2, <3>2 DEF BufferInv, BufferIsAhead
    <3> QED
      BY <2>4, <3>1, <3>3 DEF BufferIsAhead
  <2> QED
    BY <1>2, <2>4, <2>5, <2>6 DEF BufferInv
<1> QED
  BY <1>3, <1>4

(* A frame is played: what stays lies behind it, and if the decoder takes   *)
(* it, it is the decoder's reference.                                       *)
LEMMA PlayFrameInv ==
    ASSUME BufferInv, PlayFrame
    PROVE  BufferInv'
<1>1. PICK f \in NextDecodable :
          /\ Decode(f) /\ buffered_frames' = Rest(f) /\ last_decoded' = f.seq
  BY DEF PlayFrame
<1>2. UNCHANGED <<arrived, old_frames, playing>> /\ ready' \subseteq ready
  BY DEF PlayFrame
<1>3. f \in Frame /\ f.seq \in SeqNum /\ f # None
  BY NextFrame, FrameFacts
<1>4. /\ Rest(f) \in SUBSET buffered_frames
      /\ \A g \in Rest(f) : g.seq > f.seq
  BY RestFacts
<1>5. /\ IsFiniteSet(Rest(f)) /\ Cardinality(Rest(f)) <= MAX_BUFFER_SIZE
  BY <1>4, SmallerBuffer
<1>6. TypeOK'
  <2>1. /\ decoder' \in {"none", "Configured", "Closed"}
        /\ reference' \in Chunk \cup {None}
        /\ skipped' \in SeqNum \cup {None}
        /\ resets' \in Nat
    <3>1. ChunkOf(f) \in Chunk
      BY <1>3, FrameFacts DEF Chunk, ChunkOf
    <3> QED
      BY <1>1, <1>3, <3>1 DEF BufferInv, TypeOK, Decode, NoDecoder
  <2> QED
    BY <1>1, <1>2, <1>3, <1>4, <2>1 DEF BufferInv, TypeOK
<1>7. BufferIsAhead'
  BY <1>1, <1>4, <1>5 DEF BufferInv, BufferIsAhead
<1>8. ReferenceIsLast' /\ DecoderHasReference'
  <2>1. ChunkOf(f).seq = f.seq /\ ChunkOf(f) # None
    BY <1>3, FrameFacts DEF ChunkOf, Chunk
  <2>2. f.seq # None
    BY <1>3
  <2> QED
    BY <1>1, <2>1, <2>2
    DEF BufferInv, ReferenceIsLast, Latest, DecoderHasReference, Decode,
        NoDecoder
<1> QED
  BY <1>1, <1>5, <1>6, <1>7, <1>8 DEF BufferInv

(* Every step of the worker keeps the invariant. *)
LEMMA BufferInvStep == BufferInv /\ [Next]_vars => BufferInv'
<1> SUFFICES ASSUME BufferInv, [Next]_vars
             PROVE  BufferInv'
  OBVIOUS
<1>1. ASSUME NEW f \in Frame, InsertFrame(f)
      PROVE  BufferInv'
  BY <1>1, InsertOldInv, InsertNewInv
<1>2. CASE PlayFrame
  BY <1>2, PlayFrameInv
<1>3. CASE Poll
  <2>1. ready' \subseteq SeqNum
    BY <1>3, SeqsFacts DEF BufferInv, TypeOK, Poll
  <2> QED
    BY <1>3, <2>1 DEF BufferInv, TypeOK, BufferIsAhead, ReferenceIsLast,
                      Latest, DecoderHasReference, decoderVars, Poll
<1>4. CASE PlayDone
  BY <1>4 DEF BufferInv, TypeOK, BufferIsAhead, ReferenceIsLast,
              Latest, DecoderHasReference, decoderVars, PlayDone
<1>5. CASE DecoderError
  BY <1>5 DEF BufferInv, TypeOK, BufferIsAhead, ReferenceIsLast,
              Latest, DecoderHasReference, DecoderError
<1>6. CASE Flush \/ ResetJitterBuffer
  <2>1. TypeOK'
    BY <1>6 DEF BufferInv, TypeOK, Flush, ResetJitterBuffer, FlushBuffer,
                NoDecoder, decoderVars
  <2>2. IsFiniteSet(buffered_frames)' /\ BufferIsAhead'
    BY <1>6, FS_EmptySet DEF Flush, ResetJitterBuffer, FlushBuffer,
                             BufferIsAhead
  <2>3. ReferenceIsLast' /\ DecoderHasReference'
    BY <1>6 DEF BufferInv, ReferenceIsLast, DecoderHasReference, Flush,
                ResetJitterBuffer, FlushBuffer, NoDecoder, decoderVars
  <2> QED
    BY <2>1, <2>2, <2>3 DEF BufferInv
<1>7. CASE UNCHANGED vars
  BY <1>7 DEF BufferInv, TypeOK, BufferIsAhead, ReferenceIsLast,
              Latest, DecoderHasReference, decoderVars, vars
<1> QED
  BY <1>1, <1>2, <1>3, <1>4, <1>5, <1>6, <1>7 DEF Next

(* The invariant holds in every state. *)
THEOREM BufferInvariant == Spec => []BufferInv
<1>1. Init => BufferInv
  <2> SUFFICES ASSUME Init
               PROVE  BufferInv
    OBVIOUS
  <2>1. TypeOK
    <3>1. old_frames \in 0 .. MAX_CONSECUTIVE_OLD_FRAMES /\ resets \in Nat
      BY DEF Init
    <3> QED
      BY <3>1 DEF Init, TypeOK
  <2>2. IsFiniteSet(buffered_frames) /\ BufferIsAhead
    BY FS_EmptySet DEF Init, BufferIsAhead
  <2>3. ReferenceIsLast /\ DecoderHasReference
    BY DEF Init, ReferenceIsLast, DecoderHasReference
  <2> QED
    BY <2>1, <2>2, <2>3 DEF BufferInv
<1> QED
  BY <1>1, BufferInvStep, PTL DEF Spec

(* For any limits: the buffer never holds more than MAX_BUFFER_SIZE frames, *)
(* one per number, all of them still to be played, and the counter of old   *)
(* frames stays within its limit.                                           *)
THEOREM BufferStaysSound == Spec => []BufferSound
<1>1. BufferInv => BufferSound
  BY DEF BufferInv, BufferSound
<1> QED
  BY <1>1, BufferInvariant, PTL

(* Only find_and_move_continuous_frames moves playback on. *)
LEMMA OnlyPlayFrameMoves ==
    ASSUME BufferInv, Next, last_decoded' # last_decoded, last_decoded' # None
    PROVE  PlayFrame
BY DEF Next, InsertFrame, InsertOld, InsertNew, FlushBuffer, Poll, PlayDone,
       Flush, DecoderError, ResetJitterBuffer

(* Playback goes on to the next number or jumps ahead to a keyframe. *)
THEOREM KeyframesJump == Spec => OnlyKeyframesJump
<1> DEFINE Jump ==
        last_decoded' # last_decoded /\ last_decoded' # None =>
            \E f \in buffered_frames :
                /\ f.seq = last_decoded'
                /\ \/ last_decoded # None /\ f.seq = last_decoded + 1
                   \/ f.key /\ (last_decoded # None => f.seq > last_decoded)
<1>1. BufferInv /\ [Next]_vars => [Jump]_vars
  <2> SUFFICES ASSUME BufferInv, Next, last_decoded' # last_decoded,
                      last_decoded' # None
               PROVE  Jump
    OBVIOUS
  <2>1. PICK f \in NextDecodable : last_decoded' = f.seq
    BY OnlyPlayFrameMoves DEF PlayFrame
  <2> QED
    BY <2>1, NextFrame
<1>2. Spec => [][Jump]_vars
  BY <1>1, BufferInvariant, PTL DEF Spec
<1> QED
  BY <1>2 DEF OnlyKeyframesJump

(* The decoder in use is given a delta frame only right after the frame      *)
(* numbered one less, or after that frame could not be made a chunk of: what *)
(* the decoder was given last, or was to be given, is what was played last.  *)
THEOREM DeltasHaveReference == Spec => DeltaHasReference
<1> DEFINE Refers ==
        GivesDelta => reference # None /\ Latest + 1 = reference'.seq
<1>1. BufferInv /\ [Next]_vars => [Refers]_vars
  <2> SUFFICES ASSUME BufferInv, Next, GivesDelta
               PROVE  reference # None /\ Latest + 1 = reference'.seq
    OBVIOUS
  <2>1. PlayFrame
    BY DEF GivesDelta, Next, InsertFrame, Poll, PlayDone, Flush, DecoderError,
           ResetJitterBuffer
  <2>2. PICK f \in NextDecodable : Decode(f)
    BY <2>1 DEF PlayFrame
  <2>3. f \in Frame /\ f.seq # None
    BY NextFrame, FrameFacts
  <2>4. reference' = ChunkOf(f) /\ Accepts(f)
    BY <2>2, <2>3 DEF Decode, GivesDelta, NoDecoder
  <2>5. ~f.key /\ reference'.seq = f.seq
    BY <2>4 DEF ChunkOf, GivesDelta
  <2>6. reference # None
    BY <2>4, <2>5 DEF Accepts
  <2>7. last_decoded # None /\ f.seq = last_decoded + 1
    BY <2>5, NextFrame
  <2>8. Latest = last_decoded
    BY <2>6, <2>7 DEF BufferInv, ReferenceIsLast
  <2> QED
    BY <2>5, <2>6, <2>7, <2>8
<1>2. Spec => [][Refers]_vars
  BY <1>1, BufferInvariant, PTL DEF Spec
<1> QED
  BY <1>2 DEF DeltaHasReference
=============================================================================
