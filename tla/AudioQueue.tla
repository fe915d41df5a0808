----------------------------- MODULE AudioQueue -----------------------------
(***************************************************************************)
(* From the game's audio buffers to the sound device (src/main/main.cpp).  *)
(* The game hands chunks of stereo frames to queue_samples, which joins    *)
(* each with the last frames of the one before, resamples the whole, drops *)
(* half the overlap at each end and appends the rest to SDL's queue; when  *)
(* the queue runs away it appends only every 2^k-th frame.  SDL's thread   *)
(* drains the queue at the same time.                                      *)
(*                                                                         *)
(* A frame is the number of its input frame, 0 is silence.  The game is    *)
(* external: it produces a chunk when get_frames_remaining reports no more *)
(* than Low.  Rates are in frames per 100 ms, so that k is the number of   *)
(* queued frames divided by the rate.                                      *)
(***************************************************************************)
EXTENDS Integers, Sequences, FiniteSetsExt

CONSTANTS
  Dup,          \* duplicated_input_frames
  OutRate,      \* output_sample_rate
  FloatBytes,   \* sizeof(float)
  Low,          \* the game produces while it is told of at most this many
  Setups        \* what a behaviour is made of: the frequencies the game sets,
                \* the numbers of frames it hands over, the frames a callback
                \* of the device takes, whether somebody uses fast-forward,
                \* and the last input frame

ASSUME DupAssumption == Dup \in Nat \ {0} /\ Dup % 2 = 0
ASSUME OutputAssumption ==
  OutRate \in Nat \ {0} /\ FloatBytes \in Nat \ {0} /\ Low \in Nat
ASSUME SetupsAssumption == \A s \in Setups :
  /\ s.last \in Nat
  /\ s.rates \subseteq 1 .. OutRate /\ s.rates # {}
  /\ s.chunks \subseteq 1 .. s.last /\ s.chunks # {}
  /\ s.device \in Nat /\ s.turbo \in BOOLEAN
\* The frames dropped from an overlap are an even number: with an odd one
\* half of them is not a whole number of frames.
ASSUME DiscardAssumption ==
  \A s \in Setups : \A r \in s.rates : ((Dup * OutRate) \div r) % 2 = 0

VARIABLES
  setup,        \* the behaviour's setup
  rate,         \* sample_rate
  muted,        \* g_audio_volume = 0
  fastForward,  \* g_fast_forward
  dup,          \* duplicated_sample_buffer
  next,         \* the next input frame
  batch,        \* what queue_samples is about to append
  queue,        \* SDL's queue, byte by byte
  heard,        \* history: the latest frame the device has taken
  lost          \* history: frames of chunks queue_samples did not take

queueVars == <<setup, rate, muted, fastForward, dup, next, batch, queue, heard, lost>>

FrameBytes == 2 * FloatBytes
Discarded(r) == (Dup * OutRate) \div r

\* SDL_ConvertAudio: the frames of s at the output's rate.
Resampled(s, r) == [j \in 1 .. (Len(s) * OutRate) \div r |-> s[1 + ((j - 1) * r) \div OutRate]]

\* Interleaved floats, left first, as bytes that know their frame and channel.
Bytes(s) ==
  [i \in 1 .. Len(s) * FrameBytes |->
     [frame |-> s[1 + (i - 1) \div FrameBytes], right |-> (i - 1) % FrameBytes >= FloatBytes]]

\* Mutant: the whole overlap is dropped in front.
TrimmedInFront(s, r) ==
  LET all == Bytes(Resampled(s, r))
  IN SubSeq(all, Discarded(r) * FrameBytes + 1, Len(all))

\* Mutant: the offset is halved once more.
TrimmedByFloat(s, r) ==
  LET all == Bytes(Resampled(s, r))
      from == (Discarded(r) \div 2) * FloatBytes
  IN SubSeq(all, from + 1, from + Len(all) - Discarded(r) * FrameBytes)

\* samples_to_queue and num_bytes_to_queue: half the overlap goes at each end.
Trimmed(s, r) ==
  LET all == Bytes(Resampled(s, r))
      from == Discarded(r) * FloatBytes
  IN SubSeq(all, from + 1, from + Len(all) - Discarded(r) * FrameBytes)

SkipFactor(queued, r) == (queued \div FrameBytes) \div r

\* Mutant: the length is not reduced.
DecimatedKeepsLength(s, k) == s

\* Every 2^k-th frame, moved forward in place; the length in bytes is divided
\* first, and bytes of a last part frame are what they were.
Decimated(s, k) ==
  LET bytes == Len(s) \div 2 ^ k
      whole == bytes \div FrameBytes
  IN [i \in 1 .. bytes |->
        LET f == (i - 1) \div FrameBytes
        IN IF f < whole THEN s[i + f * FrameBytes * (2 ^ k - 1)] ELSE s[i]]

\* get_frames_remaining: one video frame less than what is queued.
FramesRemaining ==
  LET bytes == (Len(queue) * rate) \div OutRate - FrameBytes * (rate \div 6)
  IN IF fastForward THEN 0 ELSE Max({bytes, 0}) \div FrameBytes

QueueInit ==
  /\ setup \in Setups
  /\ rate \in setup.rates
  /\ muted \in BOOLEAN
  /\ fastForward = FALSE
  /\ dup = [i \in 1 .. Dup |-> 0]
  /\ next = 1
  /\ batch = << >> /\ queue = << >>
  /\ heard = 0 /\ lost = {}

\* The game has a chunk of n frames.
Hands(n) ==
  /\ batch = << >>
  /\ FramesRemaining <= Low
  /\ n \in setup.chunks /\ next + n - 1 <= setup.last
  /\ next' = next + n
  /\ UNCHANGED <<setup, rate, muted, fastForward, queue, heard>>

\* queue_samples returns early: at volume 0, or for a chunk no longer than the
\* overlap; the overlap stays that of an earlier chunk.
Ignore(n) ==
  /\ Hands(n)
  /\ muted \/ n <= Dup
  /\ lost' = lost \union next .. next + n - 1
  /\ UNCHANGED <<dup, batch>>

\* Mutant: the overlap is taken where the chunk starts.
OverlapFirst(s) == SubSeq(s, Dup + 1, 2 * Dup)

\* The end of the chunk becomes the next overlap.
Overlap(s) == SubSeq(s, Len(s) - Dup + 1, Len(s))

Joined(n) == dup \o [i \in 1 .. n |-> next + i - 1]

\* The conversion fails after the overlap was replaced: what would have been
\* appended is lost.
Fail(n) ==
  /\ Hands(n)
  /\ ~ muted /\ n > Dup
  /\ dup' = Overlap(Joined(n))
  /\ lost' = lost \union {Joined(n)[i] : i \in (Dup \div 2) + 1 .. (Dup \div 2) + n}
  /\ UNCHANGED batch

\* The chunk is converted and the depth of the queue decides how much of it is
\* to be appended.
Convert(n) ==
  /\ Hands(n)
  /\ ~ muted /\ n > Dup
  /\ dup' = Overlap(Joined(n))
  /\ batch' = Decimated(Trimmed(Joined(n), rate), SkipFactor(Len(queue), rate))
  /\ UNCHANGED lost

\* SDL_QueueAudio
QueueAudio ==
  /\ batch # << >>
  /\ queue' = queue \o batch
  /\ batch' = << >>
  /\ UNCHANGED <<setup, rate, muted, fastForward, dup, next, heard, lost>>

\* A callback of the device: it takes what there is and fills up with silence.
Drain ==
  /\ LET n == Min({Len(queue), setup.device * FrameBytes}) IN
       /\ queue' = SubSeq(queue, n + 1, Len(queue))
       /\ heard' = IF n = 0 THEN heard ELSE queue[n].frame
  /\ UNCHANGED <<setup, rate, muted, fastForward, dup, next, batch, lost>>

\* set_frequency, called by the thread that calls queue_samples
SetFrequency(r) ==
  /\ batch = << >>
  /\ rate' = r
  /\ UNCHANGED <<setup, muted, fastForward, dup, next, batch, queue, heard, lost>>

\* The volume command of the debug server
SetVolume ==
  /\ muted' = ~ muted
  /\ UNCHANGED <<setup, rate, fastForward, dup, next, batch, queue, heard, lost>>

\* TAB or the fast_forward command
SetForward ==
  /\ setup.turbo
  /\ fastForward' = ~ fastForward
  /\ UNCHANGED <<setup, rate, muted, dup, next, batch, queue, heard, lost>>

QueueNext ==
  \/ \E n \in setup.chunks : Ignore(n) \/ Fail(n) \/ Convert(n)
  \/ QueueAudio \/ Drain \/ SetVolume \/ SetForward
  \/ \E r \in setup.rates : SetFrequency(r)

QueueSpec == QueueInit /\ [][QueueNext]_queueVars
-----------------------------------------------------------------------------
(* Properties *)

Byte == [frame : 0 .. setup.last, right : BOOLEAN]

\* Types of the buffers.
QueueTypeOK ==
  /\ setup \in Setups /\ rate \in setup.rates
  /\ muted \in BOOLEAN /\ fastForward \in BOOLEAN
  /\ dup \in [1 .. Dup -> 0 .. setup.last]
  /\ next \in 1 .. setup.last + 1
  /\ queue \in Seq(Byte) /\ batch \in Seq(Byte)
  /\ heard \in 0 .. setup.last /\ lost \subseteq 0 .. setup.last

\* What the device hears from the latest frame on.
Stream == queue \o batch
Latest(i) == IF i = 1 THEN heard ELSE Stream[i - 1].frame

\* Without fast-forward no frame is skipped: between two frames that follow
\* each other in the stream lie only frames of chunks that were not taken,
\* and what follows the end of the stream is in the overlap.  So a game
\* that paces itself by get_frames_remaining is never decimated, and the
\* overlaps meet exactly, also across a mute, a short chunk or a new rate.
Seamless == ~ setup.turbo =>
  /\ \A i \in 1 .. Len(Stream) : (Latest(i) + 1) .. (Stream[i].frame - 1) \subseteq lost
  /\ (Latest(Len(Stream) + 1) + 1) .. (next - 1) \subseteq lost \union {dup[i] : i \in 1 .. Dup}

\* The stream never goes back: the overlap kept over a mute or a short chunk
\* holds nothing that was played before.
NeverBack == ~ setup.turbo => \A i \in 1 .. Len(Stream) : Latest(i) <= Stream[i].frame

\* The buffers keep their type and the stream its order.
StreamInv == QueueTypeOK /\ NeverBack

\* Left samples are played on the left: a frame of the device is a left float
\* and a right one.  Without fast-forward this holds whatever the lengths.
LeftOnLeft ==
  \A i \in 1 .. Len(Stream) : Stream[i].right = ((i - 1) % FrameBytes >= FloatBytes)

ChannelsKept == ~ setup.turbo => LeftOnLeft

\* However much the game produces under fast-forward, and with a device that
\* takes nothing, the queue stays below the depth at which a whole chunk is
\* decimated to nothing, plus a chunk ("keeps latency bounded").
Longest ==
  Max({((Dup + n) * OutRate) \div r - Discarded(r) : n \in setup.chunks, r \in setup.rates})
    * FrameBytes
Deepest == CHOOSE k \in 0 .. Longest : 2 ^ k > Longest /\ \A j \in 0 .. k - 1 : 2 ^ j <= Longest
LatencyBounded == Len(Stream) <= Deepest * Max(setup.rates) * FrameBytes + Longest

(* What a game that paces itself relies on *)

\* A queue of which it is told to be at most Low frames long does not hold
\* enough for a tenth of a second, from which on it is decimated.
Paces ==
  \A s \in Setups : ~ s.turbo =>
    \A r \in s.rates : OutRate * (Low + 1 + r \div 6) <= r * r

\* Half the overlap's frames at the end of a chunk, rounded, leave the last
\* input frame that is to be played.
Reaches ==
  \A s \in Setups : ~ s.turbo =>
    \A r \in s.rates, n \in s.chunks : n > Dup =>
      LET kept == ((Dup + n) * OutRate) \div r - Discarded(r) \div 2
      IN 1 + ((kept - 1) * r) \div OutRate = n + Dup \div 2
=============================================================================
