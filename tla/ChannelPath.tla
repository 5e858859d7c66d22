----------------------------- MODULE ChannelPath -----------------------------
(***************************************************************************)
(* The per-channel rings between a network thread and the Core Audio IO      *)
(* thread, and the two loops over them.  A producer (processOutput,          *)
(* mapChannelsToDevice) writes one batch into ring after ring, a consumer    *)
(* (readDeviceChannels, processInput) reads one batch from ring after ring   *)
(* and fills what is missing with silence; each ring call is one step (ring  *)
(* calls themselves are module SPSCRingBuffer) and the two loops interleave. *)
(* A sample is the number of the frame it belongs to.                        *)
(***************************************************************************)
EXTENDS Integers, Sequences

CONSTANTS DeviceChannels,   \* 128 in the code
          RingCapacity,
          WriteFrames, ReadFrames,   \* frames per producer and consumer call
          MaxFrame          \* bound on the frames produced

ASSUME ChannelPathAssumption ==
  /\ DeviceChannels \in Nat \ {0} /\ RingCapacity \in Nat \ {0}
  /\ WriteFrames \in Nat \ {0} /\ ReadFrames \in Nat \ {0} /\ MaxFrame \in Nat

VARIABLES
  ring,        \* ring[c]: frames in the ring of device channel c
  frame,       \* next frame the producer gets
  wChan,       \* channels the producer's call has written, or -1 outside one
  rChan,       \* stream channels the consumer's call has read, or -1
  audio,       \* the consumer's interleaved buffer, a sequence per channel
  clean,       \* clean[c]: no call on ring c was short so far
  wShort, rShort,          \* hadOverrun, hadUnderrun of the calls under way
  overruns, underruns      \* counted calls that were short (up to 1)

pathVars == <<ring, frame, wChan, rChan, audio, clean, wShort, rShort,
              overruns, underruns>>

NoSample == -1
Device == 0 .. DeviceChannels - 1
Fewer(a, b) == IF a < b THEN a ELSE b

PathInit ==
  /\ ring = [c \in Device |-> <<>>] /\ frame = 0
  /\ wChan = -1 /\ rChan = -1 /\ audio = <<>>
  /\ clean = [c \in Device |-> TRUE]
  /\ wShort = FALSE /\ rShort = FALSE /\ overruns = 0 /\ underruns = 0

consumerVars == <<rChan, audio, rShort, underruns>>
producerVars == <<frame, wChan, wShort, overruns>>

-----------------------------------------------------------------------------
(* Producer: the channels first .. first + n - 1, one after the other       *)

BeginWrite ==
  /\ wChan = -1 /\ frame + WriteFrames <= MaxFrame
  /\ wChan' = 0 /\ wShort' = FALSE
  /\ UNCHANGED <<ring, frame, clean, overruns, consumerVars>>

\* Fault: a ring is written beyond its capacity.
OverfullWrite(first) ==
  LET c == first + wChan
  IN  /\ wChan >= 0
      /\ ring' = [ring EXCEPT ![c] = @ \o [i \in 1 .. WriteFrames |-> frame + i - 1]]
      /\ UNCHANGED <<clean, wShort, overruns>>

\* Fault: a full ring takes the end of a batch and drops its beginning.
TailFirstWrite(first) ==
  LET c    == first + wChan
      n    == Fewer(WriteFrames, RingCapacity - Len(ring[c]))
      full == n < WriteFrames
  IN  /\ wChan >= 0
      /\ ring' = [ring EXCEPT ![c] = @ \o [i \in 1 .. n |-> frame + WriteFrames - i]]
      /\ clean' = [clean EXCEPT ![c] = @ /\ ~full]
      /\ wShort' = (wShort \/ full)
      /\ overruns' = IF full /\ ~wShort THEN 1 ELSE overruns

\* Writes what fits and drops the rest; a short call is counted once.
WriteChannel(first) ==
  LET c    == first + wChan
      n    == Fewer(WriteFrames, RingCapacity - Len(ring[c]))
      full == n < WriteFrames
  IN  /\ wChan >= 0
      /\ ring' = [ring EXCEPT ![c] = @ \o [i \in 1 .. n |-> frame + i - 1]]
      /\ clean' = [clean EXCEPT ![c] = @ /\ ~full]
      /\ wShort' = (wShort \/ full)
      /\ overruns' = IF full /\ ~wShort THEN 1 ELSE overruns

WriteNext(first, channels) ==
  /\ wChan < channels /\ WriteChannel(first)
  /\ wChan' = wChan + 1
  /\ UNCHANGED <<frame, consumerVars>>

EndWrite(channels) ==
  /\ wChan = channels
  /\ wChan' = -1 /\ frame' = frame + WriteFrames
  /\ UNCHANGED <<ring, clean, wShort, overruns, consumerVars>>

-----------------------------------------------------------------------------
(* Consumer                                                                 *)

BeginRead ==
  /\ rChan = -1
  /\ rChan' = 0 /\ rShort' = FALSE /\ audio' = <<>>
  /\ UNCHANGED <<ring, clean, underruns, producerVars>>

\* Fault: a short read is not counted.
SilentRead(first, channels) ==
  LET c     == first + rChan
      n     == Fewer(ReadFrames, Len(ring[c]))
  IN  /\ rChan >= 0 /\ rChan < channels
      /\ ring' = [ring EXCEPT ![c] = SubSeq(@, n + 1, Len(@))]
      /\ audio' = Append(audio, [i \in 1 .. ReadFrames |-> IF i <= n THEN ring[c][i] ELSE NoSample])
      /\ clean' = [clean EXCEPT ![c] = @ /\ n = ReadFrames]
      /\ rChan' = rChan + 1
      /\ UNCHANGED <<rShort, underruns, producerVars>>

\* Fault: the first channel's index is not moved on.
FirstStaysRead(first, channels) ==
  LET c     == first + rChan
      n     == Fewer(ReadFrames, Len(ring[c]))
      empty == n < ReadFrames
  IN  /\ rChan >= 0 /\ rChan < channels
      /\ ring' = [ring EXCEPT ![c] = IF rChan = 0 THEN @ ELSE SubSeq(@, n + 1, Len(@))]
      /\ audio' = Append(audio, [i \in 1 .. ReadFrames |-> IF i <= n THEN ring[c][i] ELSE NoSample])
      /\ clean' = [clean EXCEPT ![c] = @ /\ ~empty]
      /\ rShort' = (rShort \/ empty)
      /\ underruns' = IF empty /\ ~rShort THEN 1 ELSE underruns
      /\ rChan' = rChan + 1
      /\ UNCHANGED producerVars

\* Reads what there is, silence for the rest; a short call is counted once.
ReadNext(first, channels) ==
  LET c     == first + rChan
      n     == Fewer(ReadFrames, Len(ring[c]))
      empty == n < ReadFrames
  IN  /\ rChan >= 0 /\ rChan < channels
      /\ ring' = [ring EXCEPT ![c] = SubSeq(@, n + 1, Len(@))]
      /\ audio' = Append(audio, [i \in 1 .. ReadFrames |->
                                   IF i <= n THEN ring[c][i] ELSE NoSample])
      /\ clean' = [clean EXCEPT ![c] = @ /\ ~empty]
      /\ rShort' = (rShort \/ empty)
      /\ underruns' = IF empty /\ ~rShort THEN 1 ELSE underruns
      /\ rChan' = rChan + 1
      /\ UNCHANGED producerVars

-----------------------------------------------------------------------------
\* The rings and the two loops keep their types.
PathTypeOK ==
  /\ ring \in [Device -> Seq(0 .. MaxFrame)]
  /\ \A c \in Device : Len(ring[c]) <= RingCapacity
  /\ frame \in 0 .. MaxFrame
  /\ wChan \in -1 .. DeviceChannels /\ rChan \in -1 .. DeviceChannels
  /\ clean \in [Device -> BOOLEAN]
  /\ overruns \in 0 .. 1 /\ underruns \in 0 .. 1

\* In one consumer call all the channels whose rings were never short carry
\* the same frames, although either loop may be overtaken by the other
\* between any two channels: only a short call can shift channels apart.
AlignedWhileClean(first) ==
  \A i, j \in DOMAIN audio :
    clean[first + i - 1] /\ clean[first + j - 1] => audio[i] = audio[j]

\* A ring holds consecutive frames, in order, between any two shortages: a
\* wrong order of the loops' steps would duplicate or reorder them.
RingsInOrder ==
  \A c \in Device : \A i \in 1 .. Len(ring[c]) - 1 :
    /\ ring[c][i] < ring[c][i + 1]
    /\ clean[c] => ring[c][i] + 1 = ring[c][i + 1]
=============================================================================
