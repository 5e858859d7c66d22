----------------------------- MODULE RateMatcher -----------------------------
(***************************************************************************)
(* The adaptive rate matching of RTPReceiver::consumeLoop, closed over what  *)
(* it controls: the consume thread moves one packet from the jitter buffer   *)
(* to the device ring per adjusted interval, while the device reads one and  *)
(* the sender sends one per nominal interval.  The three clocks agree: all    *)
(* drift comes from the adjustment itself.                                  *)
(*                                                                          *)
(* Data abstracted: ring and jitter buffer are counted in packets, time in   *)
(* ticks, and a check moves the adjustment by one unit in the direction of    *)
(* the error (error * kRateAdjustmentGain in the code).                     *)
(***************************************************************************)
EXTENDS Integers

CONSTANTS Interval,        \* nominal packet interval, in ticks
          MaxAdjustment,   \* kMaxRateAdjustment, in ticks per interval
          CheckInterval,   \* kRateCheckIntervalPackets
          RingCapacity,    \* device ring, in packets
          JitterCapacity   \* jitter buffer, in packets

VARIABLES
  ring, jitter,              \* packets in the device ring and the jitter buffer
  rateAdjustment, packetsSinceRateCheck,
  untilConsume, untilRead, untilSend   \* ticks to the next event of each clock

vars == <<ring, jitter, rateAdjustment, packetsSinceRateCheck,
          untilConsume, untilRead, untilSend>>

Half == RingCapacity \div 2

\* Started in the middle: the ring one packet off its target at most.
Init ==
  /\ ring \in Half - 1 .. Half + 1 /\ jitter = JitterCapacity \div 2
  /\ rateAdjustment = 0 /\ packetsSinceRateCheck = 0
  /\ untilConsume = 0
  /\ untilRead \in 0 .. Interval - 1 /\ untilSend \in 0 .. Interval - 1

Limit(a) == IF a > MaxAdjustment THEN MaxAdjustment
            ELSE IF a < -MaxAdjustment THEN -MaxAdjustment ELSE a

\* The error is positive when the ring is more than half full.
Nudged(fill) ==
  Limit(CASE fill > Half -> rateAdjustment - 1
          [] fill < Half -> rateAdjustment + 1
          [] fill = Half -> rateAdjustment)

\* One iteration of the loop: the interval just begun has the old adjustment.
Consume ==
  /\ untilConsume = 0
  /\ untilConsume' = Interval + rateAdjustment
  /\ IF jitter > 0
     THEN /\ jitter' = jitter - 1
          /\ ring' = IF ring < RingCapacity THEN ring + 1 ELSE ring   \* write() truncates
     ELSE UNCHANGED <<jitter, ring>>
  /\ IF packetsSinceRateCheck + 1 = CheckInterval
     THEN packetsSinceRateCheck' = 0 /\ rateAdjustment' = Nudged(ring')
     ELSE /\ packetsSinceRateCheck' = packetsSinceRateCheck + 1
          /\ UNCHANGED rateAdjustment
  /\ UNCHANGED <<untilRead, untilSend>>

\* The device takes a packet's worth, or silence from an empty ring.
Read ==
  /\ untilRead = 0
  /\ untilRead' = Interval
  /\ ring' = IF ring > 0 THEN ring - 1 ELSE ring
  /\ UNCHANGED <<jitter, rateAdjustment, packetsSinceRateCheck, untilConsume, untilSend>>

\* A packet arrives; a full jitter buffer drops it.
Send ==
  /\ untilSend = 0
  /\ untilSend' = Interval
  /\ jitter' = IF jitter < JitterCapacity THEN jitter + 1 ELSE jitter
  /\ UNCHANGED <<ring, rateAdjustment, packetsSinceRateCheck, untilConsume, untilRead>>

Tick ==
  /\ untilConsume > 0 /\ untilRead > 0 /\ untilSend > 0
  /\ untilConsume' = untilConsume - 1
  /\ untilRead' = untilRead - 1
  /\ untilSend' = untilSend - 1
  /\ UNCHANGED <<ring, jitter, rateAdjustment, packetsSinceRateCheck>>

Next == Consume \/ Read \/ Send \/ Tick

Spec == Init /\ [][Next]_vars

-----------------------------------------------------------------------------
\* "nudge the consume rate to keep it near 50%" (RTPReceiver.cpp 353-354): a
\* ring that starts at its target, with nothing else disturbing it, does not
\* leave the middle half.
NearHalfFull == 4 * ring \in RingCapacity .. 3 * RingCapacity
=============================================================================
