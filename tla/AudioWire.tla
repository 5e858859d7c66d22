------------------------------ MODULE AudioWire -------------------------------
(***************************************************************************)
(* Audio on its way over the wire: RTPTransmitter encodes and interleaves a  *)
(* block of frames, RTPReceiver validates, decodes and de-interleaves what   *)
(* arrives, and L16Codec and L24Codec (SimpleRTP) do the same for the tools  *)
(* and tests.  A sample is a fraction with denominator Den; bytes and words  *)
(* have their real widths.                                                   *)
(***************************************************************************)
EXTENDS Integers, Sequences, FiniteSets

CONSTANTS Den,          \* denominator of the samples
          Samples,      \* numerators, also beyond full scale
          Words,        \* raw byte triples of another sender
          Channels,     \* sdp_.numChannels
          MaxFrames     \* frames per packet (512)

ASSUME AudioWireAssumption ==
  /\ Den \in Nat \ {0} /\ Samples \subseteq Int /\ Channels \in Nat \ {0}
  /\ MaxFrames \in Nat \ {0} /\ Words \subseteq Seq(0 .. 255)

VARIABLES sentFrames,   \* frame -> channel -> sample, as encoded; <<>> if unknown
          bytes,        \* bytes per sample: 2 (L16) or 3 (L24)
          payload,      \* the payload on the wire
          heardFrames   \* what mapChannelsToDevice was given

wireVars == <<sentFrames, bytes, payload, heardFrames>>

Scale(b) == IF b = 2 THEN 32768 ELSE 8388608
AbsVal(x) == IF x < 0 THEN -x ELSE x
Clamp(n) == IF n > Den THEN Den ELSE IF n < -Den THEN -Den ELSE n

\* A cast of a double to an integer drops the fraction.
Truncate(n, d) == IF n < 0 THEN -((-n) \div d) ELSE n \div d

-----------------------------------------------------------------------------
(* Encoding: RTPTransmitter::encodeL16/24, the same as the codecs'           *)

\* Fault: a sample beyond full scale wraps.
UnclampedPcm(n, b) == Truncate(n * (Scale(b) - 1), Den)

ToPcm(n, b) == Truncate(Clamp(n) * (Scale(b) - 1), Den)

\* The low b bytes of a two's complement word, most significant first.
ToBytes(pcm, b) ==
  [i \in 1 .. b |-> (pcm \div (IF b - i = 0 THEN 1 ELSE IF b - i = 1 THEN 256 ELSE 65536)) % 256]

\* Interleaved: channel after channel of frame after frame.
Encode(frames, b) ==
  [i \in 1 .. Len(frames) * Channels * b |->
     LET sample == (i - 1) \div b
         f == sample \div Channels + 1
         c == (sample % Channels) + 1
     IN  ToBytes(ToPcm(frames[f][c], b), b)[((i - 1) % b) + 1]]

-----------------------------------------------------------------------------
(* Decoding                                                                 *)

Unsigned(w) == IF Len(w) = 2 THEN w[1] * 256 + w[2]
               ELSE (w[1] * 256 + w[2]) * 256 + w[3]

\* Fault: the most negative word counts as positive.
CodecDecodeAbove(w) ==
  IF w[1] > 128 THEN Unsigned(w) - 2 * Scale(Len(w)) ELSE Unsigned(w)

\* L16Codec and L24Codec: a word with the sign bit set is negative.
CodecDecode(w) ==
  IF w[1] >= 128 THEN Unsigned(w) - 2 * Scale(Len(w)) ELSE Unsigned(w)

\* RTPReceiver::decodeL24 shifts the word to the top of 32 bits, takes it as
\* signed, and shifts it back with the sign; decodeL16 casts to int16_t.
Signed8(x) == IF x >= 128 THEN x - 256 ELSE x
\* Fault: the sign is not extended.
UnsignedDecode(w) == Unsigned(w)

ReceiverDecode(w) ==
  IF Len(w) = 2 THEN Signed8(w[1]) * 256 + w[2]
  ELSE (Signed8(w[1]) * 16777216 + w[2] * 65536 + w[3] * 256) \div 256

\* The whole frames of a payload.  (The audio buffer holds 512 frames, so
\* that the test for its size never fails.)
FramesIn(p, b) == Len(p) \div (b * Channels)
Decodable(p, b) == FramesIn(p, b) \in 1 .. MaxFrames

Word(p, b, i) == SubSeq(p, i * b + 1, (i + 1) * b)

Decode(p, b) ==
  [f \in 1 .. FramesIn(p, b) |->
     [c \in 1 .. Channels |-> ReceiverDecode(Word(p, b, (f - 1) * Channels + c - 1))]]

-----------------------------------------------------------------------------
WireInit ==
  /\ sentFrames = <<>> /\ bytes \in {2, 3} /\ payload = <<>>
  /\ heardFrames = <<>>

\* One packet of a behaviour: nothing is kept from one to the next.
SendBlock(frames) ==
  /\ payload = <<>> /\ sentFrames = <<>> /\ heardFrames = <<>>
  /\ sentFrames' = frames /\ payload' = Encode(frames, bytes)
  /\ UNCHANGED <<bytes, heardFrames>>

\* Another sender: a word of its own in front, or a packet that is not a
\* whole number of frames long.
OtherSender(w, n) ==
  /\ payload # <<>> /\ Len(w) = bytes
  /\ \/ payload' = w \o SubSeq(payload, bytes + 1, Len(payload)) /\ sentFrames' = <<>>
     \/ n < Len(payload) /\ payload' = SubSeq(payload, 1, n) /\ UNCHANGED sentFrames
  /\ UNCHANGED <<bytes, heardFrames>>

ReceiveBlock ==
  /\ payload # <<>> /\ payload' = <<>>
  /\ heardFrames' = IF Decodable(payload, bytes) THEN Decode(payload, bytes) ELSE <<>>
  /\ UNCHANGED <<sentFrames, bytes>>

WireNext ==
  \/ \E c \in [1 .. MaxFrames * Channels -> Samples], n \in 1 .. MaxFrames :
       SendBlock([f \in 1 .. n |-> [k \in 1 .. Channels |-> c[(f - 1) * Channels + k]]])
  \/ \E w \in Words, n \in 1 .. MaxFrames * Channels * 3 : OtherSender(w, n)
  \/ ReceiveBlock

WireSpec == WireInit /\ [][WireNext]_wireVars

-----------------------------------------------------------------------------
\* The wire's state keeps its types; every byte is one.
WireTypeOK ==
  /\ bytes \in {2, 3} /\ payload \in Seq(0 .. 255)
  /\ Len(payload) <= MaxFrames * Channels * 3
  /\ \A f \in DOMAIN heardFrames : \A c \in 1 .. Channels :
       heardFrames[f][c] \in -Scale(bytes) .. Scale(bytes) - 1

\* A sample that is sent is heard on its own channel, in its own frame, less
\* than two steps from it and never with the other sign: clamping, the two
\* scales (32767 out, 32768 in), sign extension and interleaving together.
HeardIsSent ==
  payload = <<>> /\ sentFrames # <<>> =>
    \A f \in DOMAIN heardFrames : \A c \in 1 .. Channels :
      LET x == Clamp(sentFrames[f][c])
          y == heardFrames[f][c]
      IN  /\ AbsVal(y * Den - x * Scale(bytes)) < 2 * Den
          /\ x > 0 => y >= 0
          /\ x < 0 => y <= 0

\* The codec of the tools and tests and the receiver's own decoder agree on
\* every word, although one masks the sign bit and the other shifts it.
DecodersAgree ==
  payload # <<>> =>
    \A i \in 0 .. Len(payload) \div bytes - 1 :
      CodecDecode(Word(payload, bytes, i)) = ReceiverDecode(Word(payload, bytes, i))
=============================================================================
