------------------------------ MODULE PTPServo -------------------------------
(***************************************************************************)
(* PTPSlave::calculateOffsetAndDelay: from the four timestamps of an         *)
(* exchange to the filtered offset, the path delay and the lock.  A          *)
(* measurement is given by what is true of it: the clock offset o and the    *)
(* delays out and back, so that t2 - t1 = out + o and t4 - t3 = back - o.    *)
(* Drift (a smoothed quotient of doubles) is left out: nothing depends on it.*)
(***************************************************************************)
EXTENDS Integers, Sequences, FiniteSets

CONSTANTS FilterSize,      \* kOffsetFilterSize = kDelayFilterSize (8)
          LockThreshold,   \* kLockThreshold (8)
          Tolerance,       \* kLockToleranceNs
          Offsets, Delays  \* true offsets and one-way delays measured

ASSUME PTPServoAssumption ==
  /\ FilterSize \in Nat \ {0} /\ LockThreshold \in Nat \ {0} /\ Tolerance \in Nat
  /\ Offsets \subseteq Int /\ Delays \subseteq Nat

VARIABLES
  offsetHistory, delayHistory,  \* newest last, at most FilterSize
  pathDelay, offset,
  consecutiveGood, locked,
  badRun,        \* measurements out of tolerance since the last one in it
  goodSince,     \* measurements in tolerance since the lock was last reset
  lastError      \* of the latest four-timestamp measurement

servoVars == <<offsetHistory, delayHistory, pathDelay, offset, consecutiveGood,
               locked, badRun, goodSince, lastError>>

Abs(x) == IF x < 0 THEN -x ELSE x
Least(a, b) == IF a < b THEN a ELSE b
Most(a, b) == IF a < b THEN b ELSE a

\* int64 division truncates towards zero.
TruncDiv(a, b) == IF a < 0 THEN -((-a) \div b) ELSE a \div b

SetLeast(S) == CHOOSE x \in S : \A y \in S : x <= y
ValuesOf(s) == {s[i] : i \in DOMAIN s}
SeqTotal(s) ==
  LET f[i \in 0 .. Len(s)] == IF i = 0 THEN 0 ELSE f[i - 1] + s[i] IN f[Len(s)]

\* Fault: one value more than the filter holds is kept.
GreedyPush(s, x) == IF Len(s) <= FilterSize THEN Append(s, x) ELSE Append(Tail(s), x)

\* The circular arrays keep the FilterSize latest values.
Push(s, x) == IF Len(s) < FilterSize THEN Append(s, x) ELSE Append(Tail(s), x)

ServoInit ==
  /\ offsetHistory = <<>> /\ delayHistory = <<>>
  /\ pathDelay = 0 /\ offset = 0 /\ consecutiveGood = 0 /\ locked = FALSE
  /\ badRun = 0 /\ goodSince = 0 /\ lastError = [o |-> 0, out |-> 0, back |-> 0]

\* Fault: the difference of the two ways is not halved.
UnhalvedStamps(ms2slave, slave2m) ==
  [offset |-> ms2slave - slave2m, delay |-> TruncDiv(ms2slave + slave2m, 2)]

FourStamps(ms2slave, slave2m) ==
  [offset |-> TruncDiv(ms2slave - slave2m, 2), delay |-> TruncDiv(ms2slave + slave2m, 2)]

\* Fault: a measurement out of tolerance leaves the count alone.
StickyLockStep(inTolerance) ==
  /\ consecutiveGood' =
       IF inTolerance THEN Least(consecutiveGood + 1, 2 * LockThreshold) ELSE consecutiveGood
  /\ locked' = (consecutiveGood' >= LockThreshold)
  /\ badRun' = IF inTolerance THEN 0 ELSE Least(badRun + 1, LockThreshold + 1)
  /\ goodSince' = IF inTolerance THEN Least(goodSince + 1, LockThreshold) ELSE goodSince

\* Lock detection: up to twice the threshold, one up or one down.
LockStep(inTolerance) ==
  /\ consecutiveGood' =
       IF inTolerance THEN Least(consecutiveGood + 1, 2 * LockThreshold)
       ELSE Most(0, consecutiveGood - 1)
  /\ locked' = (consecutiveGood' >= LockThreshold)
  /\ badRun' = IF inTolerance THEN 0 ELSE Least(badRun + 1, LockThreshold + 1)
  /\ goodSince' = IF inTolerance THEN Least(goodSince + 1, LockThreshold) ELSE goodSince

\* Fault: divides by the filter's size before it is full.
FullFilterOffset(raw) ==
  /\ offsetHistory' = Push(offsetHistory, raw)
  /\ offset' = TruncDiv(SeqTotal(offsetHistory'), FilterSize)
  /\ LockStep(Abs(offset') < Tolerance)

FilterOffset(raw) ==
  /\ offsetHistory' = Push(offsetHistory, raw)
  /\ offset' = TruncDiv(SeqTotal(offsetHistory'), Len(offsetHistory'))
  /\ LockStep(Abs(offset') < Tolerance)

\* With a delay exchange the path delay becomes the least of the recent ones;
\* a negative one is not recorded, but its offset is still used.
MeasureWithDelay(o, out, back) ==
  LET m == FourStamps(out + o, back - o)
  IN  /\ IF m.delay >= 0
         THEN /\ delayHistory' = Push(delayHistory, m.delay)
              /\ pathDelay' = SetLeast(ValuesOf(delayHistory'))
         ELSE UNCHANGED <<delayHistory, pathDelay>>
      /\ FilterOffset(m.offset)
      /\ lastError' = [o |-> m.offset - o, out |-> out, back |-> back]

\* Without one (none yet, or a Delay_Req is out) the stored delay is used.
MeasureOneWay(o, out) ==
  /\ FilterOffset(out + o - pathDelay)
  /\ UNCHANGED <<delayHistory, pathDelay, lastError>>

\* A better master, or none any more: the lock is reset, the filters are not.
MasterChange ==
  /\ locked' = FALSE /\ consecutiveGood' = 0 /\ goodSince' = 0 /\ badRun' = 0
  /\ UNCHANGED <<offsetHistory, delayHistory, pathDelay, offset, lastError>>

\* start() empties the filters and keeps the stored path delay and offset.
Restart ==
  /\ offsetHistory' = <<>> /\ delayHistory' = <<>>
  /\ locked' = FALSE /\ consecutiveGood' = 0 /\ goodSince' = 0 /\ badRun' = 0
  /\ UNCHANGED <<pathDelay, offset, lastError>>

ServoNext ==
  \/ \E o \in Offsets, out \in Delays :
       MeasureOneWay(o, out) \/ \E back \in Delays : MeasureWithDelay(o, out, back)
  \/ MasterChange \/ Restart

ServoSpec == ServoInit /\ [][ServoNext]_servoVars

-----------------------------------------------------------------------------
\* The servo's state keeps its types.
ServoTypeOK ==
  /\ offsetHistory \in Seq(Int) /\ Len(offsetHistory) <= FilterSize
  /\ delayHistory \in Seq(Nat) /\ Len(delayHistory) <= FilterSize
  /\ pathDelay \in Nat /\ offset \in Int
  /\ consecutiveGood \in 0 .. 2 * LockThreshold /\ locked \in BOOLEAN
  /\ badRun \in 0 .. LockThreshold + 1 /\ goodSince \in 0 .. LockThreshold

\* The lock follows the count, is earned by LockThreshold measurements in
\* tolerance since the master was chosen, and does not outlive LockThreshold
\* + 1 consecutive ones out of it: the hysteresis cannot hold a dead lock.
LockDiscipline ==
  /\ locked <=> consecutiveGood >= LockThreshold
  /\ consecutiveGood >= LockThreshold => goodSince = LockThreshold
  /\ consecutiveGood + badRun <= 2 * LockThreshold

\* The moving average, with its truncating division, never leaves the range
\* of the offsets it averages.
FilterWithinHistory ==
  offsetHistory # <<>> =>
    /\ \E v \in ValuesOf(offsetHistory) : offset <= v
    /\ \E v \in ValuesOf(offsetHistory) : offset >= v

\* The four-timestamp formula is off by at most half the path's asymmetry,
\* rounded up, whatever the offset and the delays.
OffsetErrorBounded ==
  2 * Abs(lastError.o) <= Abs(lastError.out - lastError.back) + 1

\* What calculateOffsetAndDelay promises its callers: an earned and losable
\* lock, and an offset as exact as the path allows.
ServoSafe == LockDiscipline /\ OffsetErrorBounded
=============================================================================
