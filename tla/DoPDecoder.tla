------------------------------ MODULE DoPDecoder ------------------------------
(***************************************************************************)
(* DSD over PCM: two DSD bytes and a marker make a 24-bit sample, and the    *)
(* markers alternate.  A stream is encoded block by block, and a receiver    *)
(* may join it at any sample.                                                *)
(***************************************************************************)
EXTENDS Integers, Sequences

CONSTANTS DsdBytes,      \* bytes of DSD
          BlockFrames,   \* lengths of the blocks encode() is called with
          MaxDsdFrames   \* bound: frames of a stream

ASSUME DoPAssumption ==
  BlockFrames \subseteq Nat \ {0} /\ MaxDsdFrames \in Nat

Marker1 == 5      \* kDoPMarker1, 0x05
Marker2 == 250    \* kDoPMarker2, 0xFA

VARIABLES dsd,       \* the DSD stream so far
          dop,       \* the samples on the wire, <<marker, byte 1, byte 0>> each
          oddBlock   \* history: a block of an odd length was followed by another

dopVars == <<dsd, dop, oddBlock>>

\* Fault: only every other sample carries a marker.
MarkerOnce(frame) == IF frame % 2 = 0 THEN Marker1 ELSE 0

MarkerOf(frame) == IF frame % 2 = 0 THEN Marker1 ELSE Marker2

\* encode(): the alternation starts anew in every call.
EncodeDsd(bytes) ==
  [i \in 1 .. Len(bytes) \div 2 |-> <<MarkerOf(i - 1), bytes[2 * i - 1], bytes[2 * i]>>]

\* Fault: the two bytes of a sample are swapped.
SwappedDop(samples) ==
  [i \in 1 .. 2 * Len(samples) |-> samples[(i + 1) \div 2][3 - ((i - 1) % 2)]]

\* decode() skips the markers.
DecodeDop(samples) ==
  [i \in 1 .. 2 * Len(samples) |-> samples[(i + 1) \div 2][2 + ((i - 1) % 2)]]

\* isDoPStream() looks at the first two samples, in either phase;
\* validateDoPMarkers() at all of them, in the phase that starts with 0x05.
IsDoPStream(samples) ==
  Len(samples) >= 2 /\ {samples[1][1], samples[2][1]} = {Marker1, Marker2}
ValidateDoPMarkers(samples) ==
  Len(samples) > 0 /\ \A i \in DOMAIN samples : samples[i][1] = MarkerOf(i - 1)

\* getDoPSampleRate() and getDSDRate(); 0 is unknown.
DoPRates == [r \in {2822400, 5644800, 11289600} |->
               IF r = 2822400 THEN 176400 ELSE IF r = 5644800 THEN 352800 ELSE 705600]
GetDoPSampleRate(r) == IF r \in DOMAIN DoPRates THEN DoPRates[r] ELSE 0
GetDSDRate(r) == IF \E d \in DOMAIN DoPRates : DoPRates[d] = r
                 THEN CHOOSE d \in DOMAIN DoPRates : DoPRates[d] = r ELSE 0

-----------------------------------------------------------------------------
DoPInit == dsd = <<>> /\ dop = <<>> /\ oddBlock = FALSE

EncodeBlock(bytes) ==
  /\ Len(dop) + Len(bytes) \div 2 <= MaxDsdFrames
  /\ dsd' = dsd \o bytes /\ dop' = dop \o EncodeDsd(bytes)
  /\ oddBlock' = (oddBlock \/ Len(dop) % 2 = 1)

DoPNext == \E n \in BlockFrames : \E bytes \in [1 .. 2 * n -> DsdBytes] : EncodeBlock(bytes)

DoPSpec == DoPInit /\ [][DoPNext]_dopVars

-----------------------------------------------------------------------------
Join(k) == SubSeq(dop, k, Len(dop))

\* Bytes are bytes, and every sample carries a marker.
DoPTypeOK ==
  /\ Len(dsd) = 2 * Len(dop)
  /\ \A i \in DOMAIN dop : dop[i][1] \in {Marker1, Marker2}

\* A container carries sixteen bits per sample, whatever the rate.
RatesInvert ==
  \A r \in DOMAIN DoPRates :
    GetDSDRate(GetDoPSampleRate(r)) = r /\ r = 16 * GetDoPSampleRate(r)

\* A receiver that joins anywhere gets the bytes from there on, at their rate;
\* as long as the blocks were even it recognises the stream, and it calls the
\* markers valid exactly when it has joined at an even sample.
JoinAnywhere ==
  /\ dop # <<>> => RatesInvert
  /\ \A k \in 1 .. Len(dop) :
       /\ DecodeDop(Join(k)) = SubSeq(dsd, 2 * k - 1, Len(dsd))
       /\ ~oddBlock /\ k < Len(dop) =>
            IsDoPStream(Join(k)) /\ (ValidateDoPMarkers(Join(k)) <=> k % 2 = 1)

\* Every encoded stream has alternating markers.  Violated: after a block of
\* an odd number of frames the next one starts with the same marker again.
MarkersAlternate == Len(dop) > 0 => ValidateDoPMarkers(dop)
=============================================================================
