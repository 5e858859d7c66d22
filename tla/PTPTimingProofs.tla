--------------------------- MODULE PTPTimingProofs ---------------------------
(***************************************************************************)
(* Theorems about PTPServo, MediaClock and PTPInterface for any filter sizes, *)
(* thresholds, tolerances and delays.  Each lock is a count that goes up only *)
(* with a measurement that counts for it; the invariants relate the count to *)
(* how many of those there were.                                             *)
(***************************************************************************)
EXTENDS PTPServo, MediaClock, PTPInterface, SequenceTheorems, WellFoundedInduction, TLAPS

\* Induction over the numbers, as a fact about sets: among the numbers for which
\* something fails there is a least one.
LEMMA LeastNumber ==
  ASSUME NEW T \in SUBSET Nat, T # {}
  PROVE  \E m \in T : \A n \in T : m <= n
<1> DEFINE R == {ss \in Nat \X Nat : ss[1] < ss[2]}
<1>1. IsWellFoundedOn(R, Nat)
  BY NatLessThanWellFounded DEF OpToRel
<1>2. \E m \in T : \A n \in T : ~(<<n, m>> \in R)
  <2> HIDE DEF R
  <2> QED BY <1>1, WFMin
<1>3. PICK m \in T : \A n \in T : ~(<<n, m>> \in R)
  BY <1>2
<1>4. ASSUME NEW n \in T PROVE m <= n
  <2>1. <<n, m>> \in Nat \X Nat /\ <<n, m>>[1] = n /\ <<n, m>>[2] = m
    OBVIOUS
  <2>2. ~(n < m)
    BY <1>3, <2>1
  <2> QED BY <2>2
<1> QED BY <1>4

-----------------------------------------------------------------------------
(* The servo's lock                                                         *)

\* The count is at most the number of good measurements (which is only
\* followed up to the threshold).
CountIsEarned == consecutiveGood <= goodSince \/ goodSince = LockThreshold

CountsInv ==
  /\ consecutiveGood \in 0 .. 2 * LockThreshold
  /\ badRun \in 0 .. LockThreshold + 1 /\ goodSince \in 0 .. LockThreshold
  /\ CountIsEarned /\ consecutiveGood + badRun <= 2 * LockThreshold

LockFollows == locked <=> consecutiveGood >= LockThreshold

ServoLockInv == CountsInv /\ LockFollows

LEMMA ServoLockInvMeans == ServoLockInv => LockDiscipline
<1>1. CountsInv /\ consecutiveGood >= LockThreshold => goodSince = LockThreshold
  BY PTPServoAssumption DEF CountsInv, CountIsEarned
<1> QED
  BY <1>1 DEF ServoLockInv, LockFollows, LockDiscipline, CountsInv

\* With no measurement counted there is no lock.
LEMMA EmptyCounts ==
  ASSUME locked' = FALSE, consecutiveGood' = 0, goodSince' = 0, badRun' = 0
  PROVE  ServoLockInv'
<1>1. CountsInv'
  BY PTPServoAssumption DEF CountsInv, CountIsEarned
<1>2. ~(consecutiveGood' >= LockThreshold)
  BY PTPServoAssumption
<1> QED
  BY <1>1, <1>2 DEF ServoLockInv, LockFollows

\* One measurement, in tolerance or not, keeps the lock's invariant.
LEMMA LockStepKeeps ==
  ASSUME ServoLockInv, NEW inTolerance \in BOOLEAN, LockStep(inTolerance)
  PROVE  ServoLockInv'
<1>1. LockFollows'
  BY DEF LockStep, LockFollows
<1>2. CASE inTolerance
  <2>1. /\ consecutiveGood' = Least(consecutiveGood + 1, 2 * LockThreshold)
        /\ badRun' = 0 /\ goodSince' = Least(goodSince + 1, LockThreshold)
    BY <1>2 DEF LockStep
  <2>2. CountsInv'
    BY <2>1, PTPServoAssumption DEF ServoLockInv, CountsInv, CountIsEarned, Least
  <2> QED BY <1>1, <2>2 DEF ServoLockInv
<1>3. CASE ~inTolerance
  <2>1. /\ consecutiveGood' = Most(0, consecutiveGood - 1)
        /\ badRun' = Least(badRun + 1, LockThreshold + 1) /\ goodSince' = goodSince
    BY <1>3 DEF LockStep
  <2>2. CountsInv'
    BY <2>1, PTPServoAssumption DEF ServoLockInv, CountsInv, CountIsEarned, Least, Most
  <2> QED BY <1>1, <2>2 DEF ServoLockInv
<1> QED
  BY <1>2, <1>3

LEMMA ServoLockInvIsInvariant == ServoSpec => []ServoLockInv
<1>1. ServoInit => ServoLockInv
  <2> SUFFICES ASSUME ServoInit PROVE ServoLockInv
    OBVIOUS
  <2>1. CountsInv
    BY PTPServoAssumption DEF ServoInit, CountsInv, CountIsEarned
  <2>2. ~(consecutiveGood >= LockThreshold) /\ locked = FALSE
    BY PTPServoAssumption DEF ServoInit
  <2> QED BY <2>1, <2>2 DEF ServoLockInv, LockFollows
<1>2. ServoLockInv /\ [ServoNext]_servoVars => ServoLockInv'
  <2> SUFFICES ASSUME ServoLockInv, [ServoNext]_servoVars PROVE ServoLockInv'
    OBVIOUS
  <2>1. ASSUME NEW raw, FilterOffset(raw) PROVE ServoLockInv'
    <3>1. PICK good \in BOOLEAN : LockStep(good)
      BY <2>1 DEF FilterOffset, LockStep
    <3> QED BY <3>1, LockStepKeeps
  <2>2. ASSUME NEW o \in Offsets, NEW out \in Delays, MeasureOneWay(o, out)
        PROVE  ServoLockInv'
    BY <2>1, <2>2 DEF MeasureOneWay
  <2>3. ASSUME NEW o \in Offsets, NEW out \in Delays, NEW back \in Delays,
               MeasureWithDelay(o, out, back)
        PROVE  ServoLockInv'
    BY <2>1, <2>3 DEF MeasureWithDelay
  <2>4. CASE MasterChange \/ Restart
    <3>1. locked' = FALSE /\ consecutiveGood' = 0 /\ goodSince' = 0 /\ badRun' = 0
      BY <2>4 DEF MasterChange, Restart
    <3> QED BY <3>1, EmptyCounts
  <2>5. CASE UNCHANGED servoVars
    BY <2>5 DEF servoVars, ServoLockInv, CountsInv, CountIsEarned, LockFollows
  <2> QED
    BY <2>2, <2>3, <2>4, <2>5 DEF ServoNext
<1> QED
  BY <1>1, <1>2, PTL DEF ServoSpec

\* calculateOffsetAndDelay only says locked after LockThreshold measurements
\* in tolerance, and stops after at most LockThreshold + 1 out of it in a row.
THEOREM ServoLock == ServoSpec => []LockDiscipline
  BY ServoLockInvIsInvariant, ServoLockInvMeans, PTL

-----------------------------------------------------------------------------
(* The four-timestamp formula                                               *)

\* Truncating division by two is off by at most a half.
LEMMA HalfTruncated ==
  ASSUME NEW a \in Int
  PROVE  /\ TruncDiv(a, 2) \in Int
         /\ 2 * TruncDiv(a, 2) - a \in {-1, 0, 1}
<1>1. CASE a < 0
  BY <1>1 DEF TruncDiv
<1>2. CASE ~(a < 0)
  BY <1>2 DEF TruncDiv
<1> QED
  BY <1>1, <1>2

\* The offset's error is half the difference of the two ways, within a half.
LEMMA OffsetError ==
  ASSUME NEW o \in Int, NEW out \in Nat, NEW back \in Nat
  PROVE  LET e == FourStamps(out + o, back - o).offset - o
         IN  2 * Abs(e) <= Abs(out - back) + 1
<1> DEFINE a == (out + o) - (back - o)
           h == TruncDiv(a, 2)
<1>1. h \in Int /\ 2 * h - a \in {-1, 0, 1}
  BY HalfTruncated
<1>2. FourStamps(out + o, back - o).offset = h
  BY DEF FourStamps
<1>3. a = out - back + 2 * o
  OBVIOUS
<1> HIDE DEF a, h
<1>4. 2 * Abs(h - o) <= Abs(out - back) + 1
  BY <1>1, <1>3 DEF Abs
<1> QED
  BY <1>2, <1>4

\* Whatever the delays of the two ways, the offset of an exchange is wrong by
\* at most half their difference, rounded up.
THEOREM OffsetBound == ServoSpec => []OffsetErrorBounded
<1>1. ServoInit => OffsetErrorBounded
  BY DEF ServoInit, OffsetErrorBounded, Abs
<1>2. OffsetErrorBounded /\ [ServoNext]_servoVars => OffsetErrorBounded'
  <2> SUFFICES ASSUME OffsetErrorBounded, [ServoNext]_servoVars PROVE OffsetErrorBounded'
    OBVIOUS
  <2>1. ASSUME lastError' = lastError PROVE OffsetErrorBounded'
    BY <2>1 DEF OffsetErrorBounded
  <2>2. ASSUME NEW o \in Offsets, NEW out \in Delays, MeasureOneWay(o, out)
        PROVE  OffsetErrorBounded'
    BY <2>1, <2>2 DEF MeasureOneWay
  <2>3. ASSUME NEW o \in Offsets, NEW out \in Delays, NEW back \in Delays,
               MeasureWithDelay(o, out, back)
        PROVE  OffsetErrorBounded'
    <3>1. o \in Int /\ out \in Nat /\ back \in Nat
      BY PTPServoAssumption
    <3>2. lastError' = [o |-> FourStamps(out + o, back - o).offset - o,
                        out |-> out, back |-> back]
      BY <2>3 DEF MeasureWithDelay
    <3>3. /\ lastError'.o = FourStamps(out + o, back - o).offset - o
          /\ lastError'.out = out /\ lastError'.back = back
      BY <3>2
    <3>4. 2 * Abs(FourStamps(out + o, back - o).offset - o) <= Abs(out - back) + 1
      BY <3>1, OffsetError
    <3> QED BY <3>3, <3>4 DEF OffsetErrorBounded
  <2>4. CASE MasterChange \/ Restart
    BY <2>1, <2>4 DEF MasterChange, Restart
  <2>5. CASE UNCHANGED servoVars
    BY <2>1, <2>5 DEF servoVars
  <2> QED
    BY <2>2, <2>3, <2>4, <2>5 DEF ServoNext
<1> QED
  BY <1>1, <1>2, PTL DEF ServoSpec

\* Both promises of calculateOffsetAndDelay.
THEOREM ServoIsSafe == ServoSpec => []ServoSafe
  BY ServoLock, OffsetBound, PTL DEF ServoSafe

-----------------------------------------------------------------------------
(* Media clock recovery                                                     *)

\* The loop's clock is behind the model's, a refused update leaves it there,
\* and its lock count is at most the number of converged updates.
LoopInv ==
  /\ pllTime \in 0 .. now /\ lockCount \in Int
  /\ pllGood \in 0 .. LockAbove + 1
  /\ lockCount <= pllGood \/ pllGood = LockAbove + 1
  /\ frozen => pllTime # 0 /\ now - pllTime > MaxGap

\* The current reference is of this moment and in the history.
NewestInv ==
  current # <<>> => current[1].local = now /\ history # <<>>

ClockInv == now \in Nat \ {0} /\ LoopInv /\ NewestInv

\* One update of the loop, at any later time.
LEMMA UpdateKeeps ==
  ASSUME now \in Nat, LoopInv, NEW local \in Nat, local > now, NEW ptp \in Int,
         now' = local,
         PllUpdate(local, ptp) \/ UNCHANGED <<pllTime, lockCount, frozen, pllGood>>
  PROVE  LoopInv'
<1> USE MediaClockAssumption DEF LoopInv
<1>1. CASE UNCHANGED <<pllTime, lockCount, frozen, pllGood>>
  BY <1>1
<1>2. CASE PllUpdate(local, ptp) /\ pllTime = 0
  <2>1. pllTime' = local /\ UNCHANGED <<lockCount, frozen, pllGood>>
    BY <1>2 DEF PllUpdate
  <2> QED BY <1>2, <2>1
<1>3. CASE PllUpdate(local, ptp) /\ pllTime # 0 /\ local - pllTime > MaxGap
  <2>1. frozen' = TRUE /\ UNCHANGED <<pllTime, lockCount, pllGood>>
    BY <1>3 DEF PllUpdate
  <2> QED BY <1>3, <2>1
<1>4. CASE PllUpdate(local, ptp) /\ pllTime # 0 /\ ~(local - pllTime > MaxGap)
  <2>1. pllTime' = local /\ frozen' = frozen
    BY <1>4 DEF PllUpdate
  <2>2. ~(now - pllTime > MaxGap)
    BY <1>4
  <2>3. ~frozen'
    BY <2>1, <2>2
  <2>4. \/ /\ pllGood' = Lower(pllGood + 1, LockAbove + 1)
           /\ lockCount' = Lower(lockCount + 1, MaxLockCount)
        \/ pllGood' = pllGood /\ lockCount' = Upper(0, lockCount - 2)
    <3> HIDE DEF LoopInv
    <3>1. CASE Magnitude(ptp - local) < Converged
      BY <1>4, <3>1 DEF PllUpdate
    <3>2. CASE ~(Magnitude(ptp - local) < Converged)
      BY <1>4, <3>2 DEF PllUpdate
    <3> QED BY <3>1, <3>2
  <2>5. CASE pllGood' = pllGood /\ lockCount' = Upper(0, lockCount - 2)
    BY <2>1, <2>3, <2>5 DEF Upper
  <2>6. CASE /\ pllGood' = Lower(pllGood + 1, LockAbove + 1)
             /\ lockCount' = Lower(lockCount + 1, MaxLockCount)
    BY <2>1, <2>3, <2>6 DEF Lower
  <2> QED BY <2>4, <2>5, <2>6
<1> QED
  BY <1>1, <1>2, <1>3, <1>4

LEMMA ClockInvIsInvariant == ClockSpec => []ClockInv
<1>1. ClockInit => ClockInv
  <2> SUFFICES ASSUME ClockInit PROVE ClockInv
    OBVIOUS
  <2>1. now = 1 /\ pllTime = 0 /\ lockCount = 0 /\ pllGood = 0 /\ ~frozen /\ current = <<>>
    BY DEF ClockInit
  <2> QED BY <2>1, MediaClockAssumption DEF ClockInv, LoopInv, NewestInv
<1>2. ClockInv /\ [ClockNext]_clockVars => ClockInv'
  <2> SUFFICES ASSUME ClockInv, [ClockNext]_clockVars PROVE ClockInv'
    OBVIOUS
  <2>1. ASSUME NEW dt \in Steps, NEW err \in ClockErrors, RecordMediaClockReference(dt, err)
        PROVE  ClockInv'
    <3> DEFINE local == now + dt
               ref == Reference(local % RtpMod, local + err, local)
    <3>1. local \in Nat \ {0} /\ local > now /\ local + err \in Int /\ now \in Nat
      BY MediaClockAssumption DEF ClockInv
    <3>2. /\ now' = local /\ current' = <<ref>>
          /\ history' = Append(history, ref) \/ history' = Append(Tail(history), ref)
          /\ \/ PllUpdate(local, ref.ptp)
             \/ UNCHANGED <<pllTime, lockCount, frozen, pllGood>>
      BY <2>1 DEF RecordMediaClockReference
    <3>3. ref.ptp = local + err /\ ref.local = local
      BY DEF Reference
    <3>4. LoopInv'
      <4> HIDE DEF local, ref
      <4> QED BY <3>1, <3>2, <3>3, UpdateKeeps DEF ClockInv
    <3>5. NewestInv'
      <4>1. history' # <<>>
        BY <3>2
      <4>2. current'[1] = ref
        BY <3>2
      <4> QED BY <3>2, <3>3, <4>1, <4>2 DEF NewestInv
    <3> QED BY <3>1, <3>2, <3>4, <3>5 DEF ClockInv
  <2>2. CASE PllReset
    <3>1. /\ pllTime' = 0 /\ lockCount' = 0 /\ ~frozen' /\ pllGood' = 0
          /\ UNCHANGED <<now, history, current>>
      BY <2>2 DEF PllReset
    <3> QED BY <3>1, MediaClockAssumption DEF ClockInv, LoopInv, NewestInv
  <2>3. CASE UNCHANGED clockVars
    BY <2>3 DEF clockVars, ClockInv, LoopInv, NewestInv
  <2> QED
    BY <2>1, <2>2, <2>3 DEF ClockNext
<1> QED
  BY <1>1, <1>2, PTL DEF ClockSpec

\* isMediaClockLocked is only true with PTP locked after LockAbove + 1
\* converged updates, and never with a reference older than the limit.
THEOREM MediaLock == ClockSpec => []MediaLockEarned
<1>1. ClockInv => MediaLockEarned
  <2> SUFFICES ASSUME ClockInv, NEW t \in now .. now + MaxAge + 1
               PROVE  /\ MediaClockLocked(TRUE, t) => pllGood = LockAbove + 1
                      /\ MediaClockLocked(FALSE, t) => t <= now + MaxAge /\ history # <<>>
    BY DEF MediaLockEarned
  <2>1. MediaClockLocked(TRUE, t) => pllGood = LockAbove + 1
    BY MediaClockAssumption DEF ClockInv, LoopInv, MediaClockLocked, PllLocked
  <2>2. MediaClockLocked(FALSE, t) => t <= now + MaxAge /\ history # <<>>
    BY MediaClockAssumption DEF ClockInv, NewestInv, MediaClockLocked
  <2> QED BY <2>1, <2>2
<1> QED
  BY <1>1, ClockInvIsInvariant, PTL

\* Once update() has refused a deltaTime it refuses every later one, until
\* reset(): the time it measures from stays.
THEOREM Refused == ClockSpec => []RefusedForGood
<1>1. ClockInv => RefusedForGood
  BY DEF ClockInv, LoopInv, RefusedForGood
<1> QED
  BY <1>1, ClockInvIsInvariant, PTL

\* Both promises of isMediaClockLocked.
THEOREM MediaClockIsSafe == ClockSpec => []MediaClockSafe
  BY MediaLock, Refused, PTL DEF MediaClockSafe

-----------------------------------------------------------------------------
(* The media clock's references                                             *)

References == [rtp : 0 .. RtpMod - 1, ptp : Int, local : Nat]

\* The history ends with the reference of this moment, and what is before it
\* is older, each entry than the next.
HistoryInv ==
  /\ now \in 1 .. MaxNow
  /\ history \in Seq(References) /\ Len(history) <= MaxHistory
  /\ \A i \in 1 .. Len(history) : history[i].rtp = history[i].local % RtpMod
  /\ \A i \in 1 .. Len(history) - 1 : history[i].local < history[i + 1].local
  /\ \A i \in 1 .. Len(history) - 1 : history[i].local < now
  /\ history # <<>> => history[Len(history)].local = now

CurrentInv ==
  /\ history = <<>> => current = <<>> /\ previous = <<>>
  /\ history # <<>> => current = <<history[Len(history)]>>
  /\ Len(history) > 1 => previous = <<history[Len(history) - 1]>>
  /\ Len(previous) <= 1

LoopTyped ==
  /\ pllTime \in 0 .. now /\ lockCount \in 0 .. MaxLockCount /\ frozen \in BOOLEAN

ReferencesInv == HistoryInv /\ CurrentInv /\ LoopTyped

LEMMA OneOrNone == Len(<<>>) = 0 /\ \A r : Len(<<r>>) = 1
OBVIOUS

LEMMA NonEmptyReferences ==
  ASSUME NEW s \in Seq(References), Len(s) # 0
  PROVE  s # <<>>
BY EmptySeq

Recorded(ref) ==
  /\ ref.local > now /\ now' = ref.local /\ ref.local <= MaxNow
  /\ ref.rtp = ref.local % RtpMod
  /\ history' = IF Len(history) < MaxHistory THEN Append(history, ref)
                ELSE Append(Tail(history), ref)

\* Recording puts the new reference at the end and, at the limit, drops the
\* oldest.
LEMMA HistoryGrows ==
  ASSUME HistoryInv, NEW ref \in References, Recorded(ref)
  PROVE  /\ HistoryInv' /\ history' # <<>> /\ history'[Len(history')] = ref
         /\ Len(history') > 1 => /\ history # <<>>
                                 /\ history'[Len(history') - 1] = history[Len(history)]
<1> DEFINE kept == IF Len(history) < MaxHistory THEN history ELSE Tail(history)
<1>1. /\ history \in Seq(References) /\ Len(history) \in 0 .. MaxHistory
      /\ MaxHistory \in Nat \ {0} /\ now \in Nat /\ MaxNow \in Nat /\ ref.local \in Nat
  BY LenProperties, MediaClockAssumption DEF HistoryInv, References
<1>2. PICK k \in 0 .. 1 :
        /\ k = 1 => history # <<>>
        /\ kept \in Seq(References) /\ Len(kept) = Len(history) - k
        /\ Len(kept) \in 0 .. MaxHistory - 1
        /\ \A i \in 1 .. Len(kept) : kept[i] = history[i + k]
  <2>1. CASE Len(history) < MaxHistory
    <3>1. kept = history
      BY <2>1
    <3> QED BY <1>1, <2>1, <3>1
  <2>2. CASE ~(Len(history) < MaxHistory)
    <3>1. kept = Tail(history) /\ history # <<>> /\ Len(history) = MaxHistory
      BY <1>1, <2>2
    <3>2. kept \in Seq(References) /\ Len(kept) = Len(history) - 1
          /\ \A i \in 1 .. Len(history) - 1 : kept[i] = history[i + 1]
      BY <1>1, <3>1, HeadTailProperties
    <3> QED BY <1>1, <3>1, <3>2
  <2> QED BY <2>1, <2>2
<1>3. history' = Append(kept, ref)
  BY DEF Recorded
<1> HIDE DEF kept
<1>0. /\ ref.local > now /\ now' = ref.local /\ ref.local <= MaxNow
      /\ ref.rtp = ref.local % RtpMod
  BY DEF Recorded
<1>4. /\ history' \in Seq(References) /\ Len(history') = Len(kept) + 1
      /\ \A i \in 1 .. Len(kept) : history'[i] = kept[i]
      /\ history'[Len(kept) + 1] = ref /\ Len(history') \in Nat
  <2>1. kept \in Seq(References)
    BY <1>2
  <2>2. /\ history' \in Seq(References) /\ Len(history') = Len(kept) + 1
        /\ \A i \in 1 .. Len(kept) : history'[i] = kept[i]
        /\ history'[Len(kept) + 1] = ref
    BY <1>3, <2>1, AppendProperties
  <2> QED BY <2>2, LenProperties
<1>5. history' # <<>> /\ history'[Len(history')] = ref
  <2>1. Len(history') # 0
    BY <1>2, <1>4
  <2> QED BY <1>4, <2>1, NonEmptyReferences
<1>6. ASSUME NEW i \in 1 .. Len(kept)
      PROVE  /\ history'[i] = history[i + k] /\ i + k \in 1 .. Len(history)
             /\ history'[i].local \in Nat /\ history'[i].local < ref.local
             /\ history'[i].rtp = history'[i].local % RtpMod
             /\ i < Len(kept) => history'[i].local < history'[i + 1].local
  <2>1. history'[i] = history[i + k] /\ i + k \in 1 .. Len(history)
    BY <1>1, <1>2, <1>4
  <2>2. history[i + k] \in References
    BY <1>1, <2>1, ElementOfSeq
  <2>3. history[i + k].local \in Nat /\ history[i + k].local <= now
    <3>1. CASE i + k = Len(history)
      <4>1. history # <<>>
        BY <1>1, <2>1, NonEmptyReferences
      <4>2. history[i + k].local = now
        BY <3>1, <4>1 DEF HistoryInv
      <4> QED BY <1>1, <4>2
    <3>2. CASE i + k # Len(history)
      <4>1. i + k \in 1 .. Len(history) - 1
        BY <1>1, <2>1, <3>2
      <4>2. history[i + k].local < now
        BY <4>1 DEF HistoryInv
      <4>3. history[i + k].local \in Nat /\ now \in Nat
        BY <1>1, <2>2 DEF References
      <4> QED BY <4>2, <4>3
    <3> QED BY <3>1, <3>2
  <2>4. ASSUME i < Len(kept) PROVE history'[i].local < history'[i + 1].local
    <3>1. i + 1 \in 1 .. Len(kept) /\ i + k \in 1 .. Len(history) - 1 /\ (i + 1) + k = (i + k) + 1
      BY <1>1, <1>2, <2>4
    <3>2. history'[i + 1] = kept[i + 1] /\ kept[i + 1] = history[(i + 1) + k]
      BY <1>2, <1>4, <3>1
    <3>3. history'[i + 1] = history[(i + k) + 1]
      BY <3>1, <3>2
    <3> QED BY <2>1, <3>1, <3>3 DEF HistoryInv
  <2>5. history'[i].rtp = history'[i].local % RtpMod
    BY <2>1 DEF HistoryInv
  <2>6. history'[i].local \in Nat /\ history'[i].local < ref.local
    BY <1>0, <1>1, <2>1, <2>3
  <2> QED BY <2>1, <2>4, <2>5, <2>6
<1>7. HistoryInv'
  <2>1. now' \in 1 .. MaxNow /\ Len(history') <= MaxHistory
    BY <1>0, <1>1, <1>2, <1>4
  <2>2. ASSUME NEW i \in 1 .. Len(history')
        PROVE  history'[i].rtp = history'[i].local % RtpMod
    <3>1. CASE i = Len(kept) + 1
      BY <1>0, <1>4, <3>1
    <3>2. CASE i # Len(kept) + 1
      <4>1. i \in 1 .. Len(kept)
        BY <1>2, <1>4, <3>2
      <4> QED BY <1>6, <4>1
    <3> QED BY <3>1, <3>2
  <2>3. \A i \in 1 .. Len(history') - 1 :
          history'[i].local < history'[i + 1].local /\ history'[i].local < now'
    <3> SUFFICES ASSUME NEW i \in 1 .. Len(kept)
                 PROVE  history'[i].local < history'[i + 1].local /\ history'[i].local < now'
      BY <1>2, <1>4
    <3>1. CASE i < Len(kept)
      BY <1>0, <1>6, <3>1
    <3>2. CASE i = Len(kept)
      BY <1>0, <1>4, <1>6, <3>2
    <3> QED BY <1>2, <3>1, <3>2
  <2> QED BY <1>0, <1>4, <1>5, <2>1, <2>2, <2>3 DEF HistoryInv
<1>8. Len(history') > 1 => history # <<>> /\ history'[Len(history') - 1] = history[Len(history)]
  <2> SUFFICES ASSUME Len(history') > 1
               PROVE  history # <<>> /\ history'[Len(history') - 1] = history[Len(history)]
    OBVIOUS
  <2>1. Len(kept) \in 1 .. Len(kept) /\ Len(history') - 1 = Len(kept) /\ Len(kept) + k = Len(history)
    BY <1>1, <1>2, <1>4
  <2>2. history'[Len(kept)] = history[Len(kept) + k]
    BY <1>6, <2>1
  <2>3. history # <<>>
    BY <1>1, <1>2, <2>1, NonEmptyReferences
  <2> QED BY <2>1, <2>2, <2>3
<1> QED BY <1>5, <1>7, <1>8

LEMMA InitReferences == ClockInit => ReferencesInv
<1> SUFFICES ASSUME ClockInit PROVE ReferencesInv
  OBVIOUS
<1>1. /\ now = 1 /\ history = <<>> /\ current = <<>> /\ previous = <<>>
      /\ pllTime = 0 /\ lockCount = 0 /\ frozen = FALSE
  BY DEF ClockInit
<1>2. <<>> \in Seq(References) /\ Len(<<>>) = 0
  BY EmptySeq
<1>3. HistoryInv
  BY <1>1, <1>2, MediaClockAssumption DEF HistoryInv
<1>4. CurrentInv
  BY <1>1, <1>2 DEF CurrentInv
<1>5. LoopTyped
  <2>1. frozen \in BOOLEAN
    BY <1>1
  <2> QED BY <1>1, <2>1, MediaClockAssumption DEF LoopTyped
<1> QED BY <1>3, <1>4, <1>5 DEF ReferencesInv

LEMMA LoopStaysTyped ==
  ASSUME LoopTyped, now \in Nat, NEW local \in Nat, local > now, now' = local, NEW ptp \in Int,
         PllUpdate(local, ptp) \/ UNCHANGED <<pllTime, lockCount, frozen, pllGood>>
  PROVE  LoopTyped'
<1>1. frozen' \in BOOLEAN
  BY DEF PllUpdate, LoopTyped
<1>2. pllTime' \in {pllTime, local}
  BY DEF PllUpdate
<1>3. lockCount' \in {lockCount, Lower(lockCount + 1, MaxLockCount), Upper(0, lockCount - 2)}
  BY DEF PllUpdate
<1>4. lockCount' \in 0 .. MaxLockCount
  BY <1>3, MediaClockAssumption DEF LoopTyped, Lower, Upper
<1>5. pllTime' \in 0 .. now'
  BY <1>2 DEF LoopTyped
<1> QED BY <1>1, <1>4, <1>5 DEF LoopTyped

LEMMA NextReferences == ReferencesInv /\ [ClockNext]_clockVars => ReferencesInv'
<1> SUFFICES ASSUME ReferencesInv, [ClockNext]_clockVars PROVE ReferencesInv'
  OBVIOUS
<1>0. HistoryInv /\ CurrentInv /\ LoopTyped
  BY DEF ReferencesInv
<1>1. ASSUME NEW dt \in Steps, NEW err \in ClockErrors, RecordMediaClockReference(dt, err)
      PROVE  ReferencesInv'
  <2> DEFINE local == now + dt
             ref == Reference(local % RtpMod, local + err, local)
  <2>1. now \in Nat /\ local \in Nat /\ local > now /\ local + err \in Int
    BY <1>0, MediaClockAssumption DEF HistoryInv
  <2>2. ref.rtp = local % RtpMod /\ ref.ptp = local + err /\ ref.local = local /\ ref \in References
    <3>1. local % RtpMod \in 0 .. RtpMod - 1
      BY <2>1, MediaClockAssumption
    <3> HIDE DEF local
    <3> QED BY <2>1, <3>1 DEF Reference, References
  <2>3. /\ local <= MaxNow /\ now' = local /\ previous' = current /\ current' = <<ref>>
        /\ history' = IF Len(history) < MaxHistory THEN Append(history, ref)
                      ELSE Append(Tail(history), ref)
        /\ \/ PllUpdate(local, ref.ptp)
           \/ UNCHANGED <<pllTime, lockCount, frozen, pllGood>>
    BY <1>1 DEF RecordMediaClockReference
  <2> HIDE DEF local, ref
  <2>4. Recorded(ref)
    BY <2>1, <2>2, <2>3 DEF Recorded
  <2>5. /\ HistoryInv' /\ history' # <<>> /\ history'[Len(history')] = ref
        /\ Len(history') > 1 => /\ history # <<>>
                                /\ history'[Len(history') - 1] = history[Len(history)]
    BY <1>0, <2>2, <2>4, HistoryGrows
  <2>6. CurrentInv'
    <3>1. Len(previous') <= 1
      <4>1. current = <<>> \/ current = <<history[Len(history)]>>
        BY <1>0 DEF CurrentInv
      <4>2. Len(current) = 0 \/ Len(current) = 1
        BY <4>1, OneOrNone
      <4>3. previous' = current
        BY <2>3
      <4>4. Len(previous') = Len(current)
        BY <4>3
      <4>5. PICK n \in 0 .. 1 : n = Len(previous')
        BY <4>2, <4>4
      <4> QED BY <4>5
    <3>2. Len(history') > 1 => previous' = <<history'[Len(history') - 1]>>
      BY <1>0, <2>3, <2>5 DEF CurrentInv
    <3> QED BY <2>3, <2>5, <3>1, <3>2 DEF CurrentInv
  <2>7. LoopTyped'
    <3>1. ref.ptp \in Int
      BY <2>1, <2>2
    <3> QED BY <1>0, <2>1, <2>3, <3>1, LoopStaysTyped
  <2> QED BY <2>5, <2>6, <2>7 DEF ReferencesInv
<1>2. CASE PllReset
  <2>1. /\ pllTime' = 0 /\ lockCount' = 0 /\ frozen' = FALSE
        /\ UNCHANGED <<now, history, current, previous>>
    BY <1>2 DEF PllReset
  <2>2. LoopTyped'
    <3>1. frozen' \in BOOLEAN
      BY <2>1
    <3> QED BY <1>0, <2>1, <3>1, MediaClockAssumption DEF LoopTyped, HistoryInv
  <2> QED BY <1>0, <2>1, <2>2 DEF ReferencesInv, HistoryInv, CurrentInv
<1>3. CASE UNCHANGED clockVars
  BY <1>0, <1>3 DEF clockVars, ReferencesInv, HistoryInv, CurrentInv, LoopTyped
<1> QED BY <1>1, <1>2, <1>3 DEF ClockNext

LEMMA ReferencesInvIsInvariant == ClockSpec => []ReferencesInv
BY InitReferences, NextReferences, PTL DEF ClockSpec

LEMMA Divides ==
  \A a \in Int, m \in Int : m > 0 => a = m * (a \div m) + (a % m)
BY Z3

LEMMA RestIsTheRest ==
  ASSUME NEW m \in Nat \ {0}, NEW k \in Int, NEW r \in 0 .. m - 1
  PROVE  (m * k + r) % m = r
OBVIOUS

LEMMA Rest ==
  ASSUME NEW m \in Nat \ {0}, NEW c \in Int
  PROVE  \E k \in Int, x \in 0 .. m - 1 : c = m * k + x /\ c % m = x
<1>1. c % m \in 0 .. m - 1 /\ c \div m \in Int
  OBVIOUS
<1>2. c = m * (c \div m) + (c % m)
  BY Divides
<1>3. PICK k \in Int, x \in 0 .. m - 1 : k = c \div m /\ x = c % m
  BY <1>1
<1>4. c = m * k + x
  BY <1>2, <1>3
<1> QED BY <1>3, <1>4

\* Within half the range the difference of two RTP timestamps is the
\* difference of the numbers they stand for.
LEMMA DifferenceExact ==
  ASSUME NEW a \in Nat, NEW d \in 1 - Half .. Half
  PROVE  RtpTimestampDifference((a + d) % RtpMod, a % RtpMod) = d
<1>1. RtpMod \in Nat \ {0} /\ Half \in Nat /\ RtpMod = 2 * Half
  BY MediaClockAssumption DEF Half
<1>2. PICK k \in Int, x \in 0 .. RtpMod - 1 : a = RtpMod * k + x /\ a % RtpMod = x
  BY <1>1, Rest
<1>3. PICK l \in Int, y \in 0 .. RtpMod - 1 : a + d = RtpMod * l + y /\ (a + d) % RtpMod = y
  <2>1. a + d \in Int
    BY <1>1
  <2> QED BY <1>1, <2>1, Rest
<1>4. y - x = RtpMod * (k - l) + d
  BY <1>1, <1>2, <1>3
<1>5. (y - x) % RtpMod = IF d < 0 THEN d + RtpMod ELSE d
  <2>1. CASE d < 0
    <3>1. y - x = RtpMod * (k - l - 1) + (d + RtpMod) /\ k - l - 1 \in Int
          /\ d + RtpMod \in 0 .. RtpMod - 1
      BY <1>1, <1>4, <2>1
    <3> QED BY <1>1, <2>1, <3>1, RestIsTheRest
  <2>2. CASE ~(d < 0)
    <3>1. k - l \in Int /\ d \in 0 .. RtpMod - 1
      BY <1>1, <2>2
    <3> QED BY <1>1, <1>4, <2>2, <3>1, RestIsTheRest
  <2> QED BY <2>1, <2>2
<1>6. RtpTimestampDifference(y, x) = d
  <2> DEFINE diff == (y - x) % RtpMod
  <2>1. RtpTimestampDifference(y, x) = IF diff > Half THEN diff - RtpMod ELSE diff
    BY DEF RtpTimestampDifference
  <2> HIDE DEF diff
  <2>2. diff = IF d < 0 THEN d + RtpMod ELSE d
    BY <1>5 DEF diff
  <2> QED BY <1>1, <2>1, <2>2
<1> QED BY <1>2, <1>3, <1>6

\* The reference a timestamp is presented from is the newest of a history in
\* which time only moves on, and within half the counter's range the time is
\* exact across the wrap (PTPClock.cpp recordMediaClockReference,
\* rtpTimestampToPTPTime and rtpTimestampDifference).
THEOREM ReferencesExact == ClockSpec => [](ClockTypeOK /\ ReferencesAgree /\ PresentationExact)
<1>1. ReferencesInv => ClockTypeOK
  <2> SUFFICES ASSUME ReferencesInv PROVE ClockTypeOK
    OBVIOUS
  <2>1. Len(current) <= 1
    <3>1. current = <<>> \/ current = <<history[Len(history)]>>
      BY DEF ReferencesInv, CurrentInv
    <3>2. Len(current) = 0 \/ Len(current) = 1
      BY <3>1, OneOrNone
    <3> QED BY <3>2
  <2>2. now \in 1 .. MaxNow /\ pllTime \in 0 .. MaxNow
    BY MediaClockAssumption DEF ReferencesInv, HistoryInv, LoopTyped
  <2> QED BY <2>1, <2>2 DEF ClockTypeOK, ReferencesInv, HistoryInv, CurrentInv, LoopTyped
<1>2. ReferencesInv => ReferencesAgree
  <2> SUFFICES ASSUME ReferencesInv PROVE ReferencesAgree
    OBVIOUS
  <2>1. HistoryInv /\ CurrentInv
    BY DEF ReferencesInv
  <2>2. ASSUME Len(history) > 1 PROVE DriftSpans.local > 0
    <3>1. Len(history) \in Nat /\ history # <<>> /\ history[1] \in References
      BY <2>1, <2>2, LenProperties, EmptySeq, ElementOfSeq DEF HistoryInv
    <3>2. history[1].local \in Nat /\ history[1].local < now
      BY <2>1, <2>2, <3>1 DEF HistoryInv, References
    <3>3. history[Len(history)].local = now /\ now \in Nat
      BY <2>1, <3>1 DEF HistoryInv
    <3>4. DriftSpans.local = history[Len(history)].local - history[1].local
      BY DEF DriftSpans
    <3> QED BY <3>2, <3>3, <3>4
  <2> QED BY <2>1, <2>2 DEF ReferencesAgree, HistoryInv, CurrentInv
<1>3. ReferencesInv => PresentationExact
  <2> SUFFICES ASSUME ReferencesInv, current # <<>>, NEW d \in 1 - Half .. Half,
                      current[1].ptp + d >= 0
               PROVE  RtpTimestampToPTPTime((current[1].local + d) % RtpMod) = current[1].ptp + d
    BY DEF PresentationExact
  <2>1. history # <<>> /\ current[1] = history[Len(history)] /\ history \in Seq(References)
    BY DEF ReferencesInv, CurrentInv, HistoryInv
  <2>2. Len(history) \in 1 .. Len(history)
    BY <2>1, LenProperties, EmptySeq
  <2>3. current[1] \in References /\ current[1].rtp = current[1].local % RtpMod
    <3>1. history[Len(history)] \in References
      BY <2>1, <2>2, ElementOfSeq
    <3> QED BY <2>1, <2>2, <3>1 DEF ReferencesInv, HistoryInv
  <2>4. current[1].local \in Nat /\ current[1].ptp \in Int
    BY <2>3 DEF References
  <2> DEFINE diff == RtpTimestampDifference((current[1].local + d) % RtpMod, current[1].rtp)
  <2>5. diff = d
    BY <2>3, <2>4, DifferenceExact
  <2>6. RtpTimestampToPTPTime((current[1].local + d) % RtpMod) =
          IF current[1].ptp + diff < 0 THEN current[1].ptp ELSE current[1].ptp + diff
    BY DEF RtpTimestampToPTPTime
  <2>7. d \in Int
    BY MediaClockAssumption DEF Half
  <2> HIDE DEF diff
  <2> QED BY <2>4, <2>5, <2>6, <2>7
<1> QED BY <1>1, <1>2, <1>3, ReferencesInvIsInvariant, PTL

-----------------------------------------------------------------------------
(* The clock of a domain and its slave                                      *)

PtpIfTyped ==
  /\ listed \in BOOLEAN /\ ptpEnabled \in BOOLEAN /\ clockRunning \in BOOLEAN
  /\ ifRunning \in BOOLEAN /\ stubMode \in BOOLEAN /\ ifLocked \in BOOLEAN
  /\ classTraceable \in BOOLEAN /\ slaveRunning \in BOOLEAN
  /\ stopPc \in {"none", "join", "clear", "done"}

\* A lock the interface holds has a running slave behind it, except between
\* the join and the clear of a stop(); no call is under way in a clock whose
\* flags differ.
SlaveBehindLock ==
  /\ ifLocked => slaveRunning \/ stopPc = "clear"
  /\ slaveRunning => listed /\ stopPc \in {"none", "join"}
  /\ stubMode => ~slaveRunning /\ ~ifLocked /\ ~classTraceable
  /\ stopPc = "none" => (listed <=> clockRunning) /\ (clockRunning <=> ifRunning)
  /\ stopPc # "none" => listed /\ ~clockRunning /\ ~ifRunning

PtpIfInv == PtpIfTyped /\ SlaveBehindLock

\* start() of a stopped interface that has no lock and no slave.
LEMMA InterfaceStarts ==
  ASSUME PtpIfInv, ~ifRunning, ~ifLocked, ~slaveRunning, NEW ok \in BOOLEAN, StartInterface(ok)
  PROVE  /\ ifRunning' = TRUE /\ ifLocked' = FALSE
         /\ stubMode' \in BOOLEAN /\ slaveRunning' = ~stubMode'
         /\ classTraceable' \in BOOLEAN /\ (stubMode' => ~classTraceable')
<1>1. /\ ifRunning' = TRUE /\ stubMode' = (stubMode \/ ~ok)
      /\ ifLocked' = (ifLocked /\ ~stubMode') /\ classTraceable' = (classTraceable /\ ~stubMode')
      /\ slaveRunning' = (slaveRunning \/ ~stubMode')
  BY DEF StartInterface
<1> QED BY <1>1

LEMMA NextPtpIf == PtpIfInv /\ [PtpIfNext]_ptpIfVars => PtpIfInv'
<1> SUFFICES ASSUME PtpIfInv, [PtpIfNext]_ptpIfVars PROVE PtpIfInv'
  OBVIOUS
<1> USE DEF PtpIfInv, PtpIfTyped, SlaveBehindLock
<1>1. ASSUME GetClock PROVE PtpIfInv'
  <2>1. /\ listed' = TRUE /\ clockRunning' = TRUE /\ ~listed /\ stopPc = "none"
        /\ UNCHANGED <<ptpEnabled, stopPc>>
    BY <1>1 DEF GetClock
  <2>2. ~ifRunning /\ ~ifLocked /\ ~slaveRunning
    BY <2>1
  <2>3. /\ ifRunning' = TRUE /\ ifLocked' = FALSE
        /\ stubMode' \in BOOLEAN /\ slaveRunning' = ~stubMode'
        /\ classTraceable' \in BOOLEAN /\ (stubMode' => ~classTraceable')
    BY <1>1, <2>2, InterfaceStarts DEF GetClock
  <2> QED BY <2>1, <2>3
<1>2. ASSUME NEW n \in Nics, SetNetworkInterface(n) PROVE PtpIfInv'
  <2>1. /\ stopPc = "done" /\ stopPc' = "none" /\ clockRunning' = TRUE
        /\ UNCHANGED <<ptpEnabled, listed>>
    BY <1>2 DEF SetNetworkInterface
  <2>2. ~ifRunning /\ ~ifLocked /\ ~slaveRunning /\ listed
    BY <2>1
  <2>3. /\ ifRunning' = TRUE /\ ifLocked' = FALSE
        /\ stubMode' \in BOOLEAN /\ slaveRunning' = ~stubMode'
        /\ classTraceable' \in BOOLEAN /\ (stubMode' => ~classTraceable')
    BY <1>2, <2>2, InterfaceStarts DEF SetNetworkInterface
  <2> QED BY <2>1, <2>2, <2>3
<1>3. CASE StopClock
  BY <1>3 DEF StopClock, slaveSide
<1>4. CASE JoinSlave
  BY <1>4 DEF JoinSlave, interfaceVars
<1>5. CASE ClearLock
  BY <1>5 DEF ClearLock, slaveSide
<1>6. CASE RemoveClock
  BY <1>6 DEF RemoveClock, slaveSide
<1>7. CASE SetPtpEnabled
  BY <1>7 DEF SetPtpEnabled, interfaceVars, slaveSide
<1>8. ASSUME NEW l \in BOOLEAN, Measurement(l) PROVE PtpIfInv'
  BY <1>8 DEF Measurement
<1>9. CASE SlaveLosesMaster
  BY <1>9 DEF SlaveLosesMaster, interfaceVars
<1>10. CASE UNCHANGED ptpIfVars
  BY <1>10 DEF ptpIfVars, interfaceVars, slaveSide
<1> QED
  <2> HIDE DEF PtpIfInv
  <2> QED BY <1>1, <1>2, <1>3, <1>4, <1>5, <1>6, <1>7, <1>8, <1>9, <1>10 DEF PtpIfNext

\* No domain runs on PTP time without a running slave behind it, and stub mode
\* excludes one, whatever measurement arrives while the owner stops or moves
\* the clock (PTPDInterface.cpp start, stop and onPTPMeasurement;
\* PTPClock.cpp setNetworkInterface).
THEOREM SlaveBehindTime == PtpIfSpec => [](NoTimeWithoutSlave /\ StubHasNoSlave)
<1>1. PtpIfInit => PtpIfInv
  <2> SUFFICES ASSUME PtpIfInit PROVE PtpIfInv
    OBVIOUS
  <2>1. PtpIfTyped
    BY DEF PtpIfInit, PtpIfTyped
  <2>2. SlaveBehindLock
    BY DEF PtpIfInit, SlaveBehindLock
  <2> QED BY <2>1, <2>2 DEF PtpIfInv
<1>2. PtpIfInv => NoTimeWithoutSlave /\ StubHasNoSlave
  <2> SUFFICES ASSUME PtpIfInv PROVE NoTimeWithoutSlave /\ StubHasNoSlave
    OBVIOUS
  <2>1. TimeSource = "ptp" => ifLocked
    BY DEF TimeSource
  <2>2. SlaveBehindLock
    BY DEF PtpIfInv
  <2> QED BY <2>1, <2>2 DEF NoTimeWithoutSlave, StubHasNoSlave, SlaveBehindLock
<1> QED BY <1>1, <1>2, NextPtpIf, PTL DEF PtpIfSpec

-----------------------------------------------------------------------------
(* The servo's filter                                                       *)

\* Truncating division loses less than one divisor, towards zero.
LEMMA TruncDivNear ==
  ASSUME NEW x \in Int, NEW d \in Nat \ {0}
  PROVE  /\ TruncDiv(x, d) \in Int
         /\ TruncDiv(x, d) * d < x + d /\ x - d < TruncDiv(x, d) * d
<1>1. ASSUME NEW y \in Nat
      PROVE  /\ y \div d \in Int /\ (y \div d) * d <= y /\ y < (y \div d) * d + d
  <2>1. y = d * (y \div d) + (y % d) /\ y % d \in 0 .. d - 1 /\ y \div d \in Int
    BY Divides
  <2>2. PICK q \in Int : q = y \div d
    BY <2>1
  <2> QED BY <2>1, <2>2
<1>2. CASE x >= 0
  BY <1>1, <1>2 DEF TruncDiv
<1>3. CASE x < 0
  <2>1. PICK q \in Int : /\ q = (-x) \div d /\ q * d <= -x /\ -x < q * d + d
    <3>1. -x \in Nat
      BY <1>3
    <3> QED BY <1>1, <3>1
  <2>2. TruncDiv(x, d) = -q
    BY <1>3, <2>1 DEF TruncDiv
  <2>3. (-q) * d = -(q * d) /\ q * d \in Int
    OBVIOUS
  <2> QED BY <1>3, <2>1, <2>2, <2>3
<1> QED BY <1>2, <1>3

\* The partial sums of a sequence are a function on its indices.
Sums(s, n, g) ==
  /\ g \in [0 .. n -> Int] /\ g[0] = 0
  /\ \A i \in 1 .. n : g[i] = g[i - 1] + s[i]

LEMMA SumsExist ==
  ASSUME NEW s \in Seq(Int)
  PROVE  \E g : Sums(s, Len(s), g)
<1> DEFINE T == {n \in 0 .. Len(s) : ~ \E g : Sums(s, n, g)}
<1>0. Len(s) \in Nat /\ \A i \in 1 .. Len(s) : s[i] \in Int
  BY LenProperties, ElementOfSeq
<1>1. ASSUME NEW n \in 1 .. Len(s), n - 1 \notin T PROVE n \notin T
  <2>1. n - 1 \in 0 .. Len(s) /\ n \in Nat
    BY <1>0
  <2>2. PICK g : Sums(s, n - 1, g)
    BY <1>1, <2>1
  <2> DEFINE h == [i \in 0 .. n |-> IF i = n THEN g[n - 1] + s[n] ELSE g[i]]
  <2>3. g[n - 1] + s[n] \in Int /\ \A i \in 0 .. n - 1 : g[i] \in Int
    BY <1>0, <2>1, <2>2 DEF Sums
  <2>4. h \in [0 .. n -> Int]
    BY <2>1, <2>3
  <2>5. \A i \in 0 .. n : h[i] = IF i = n THEN g[n - 1] + s[n] ELSE g[i]
    OBVIOUS
  <2>6. g[0] = 0 /\ \A i \in 1 .. n - 1 : g[i] = g[i - 1] + s[i]
    BY <2>2 DEF Sums
  <2>7. h[0] = 0
    BY <2>1, <2>5, <2>6
  <2>8. \A i \in 1 .. n : h[i] = h[i - 1] + s[i]
    <3> HIDE DEF h
    <3> TAKE i \in 1 .. n
    <3>1. i \in 0 .. n /\ i - 1 \in 0 .. n /\ i - 1 # n
      BY <2>1
    <3>2. h[i - 1] = g[i - 1]
      BY <2>5, <3>1
    <3>3. CASE i = n
      BY <2>5, <3>1, <3>2, <3>3
    <3>4. CASE i # n
      BY <2>1, <2>5, <2>6, <3>1, <3>2, <3>4
    <3> QED BY <3>3, <3>4
  <2>9. Sums(s, n, h)
    <3> HIDE DEF h
    <3> QED BY <2>4, <2>7, <2>8 DEF Sums
  <2> QED BY <2>9
<1>2. 0 \notin T
  <2> DEFINE h == [i \in 0 .. 0 |-> 0]
  <2>1. Sums(s, 0, h)
    BY DEF Sums
  <2> QED BY <2>1
<1>3. ASSUME Len(s) \in T PROVE FALSE
  <2>1. T # {} /\ T \in SUBSET Nat
    BY <1>0, <1>3
  <2>2. PICK m \in T : \A n \in T : m <= n
    <3> HIDE DEF T
    <3> QED BY <2>1, LeastNumber
  <2>3. m \in 0 .. Len(s)
    OBVIOUS
  <2>4. m # 0 /\ m - 1 \notin T
    <3> HIDE DEF T
    <3> QED BY <1>0, <1>2, <2>2, <2>3
  <2> HIDE DEF T
  <2> QED BY <1>0, <1>1, <2>3, <2>4
<1>4. Len(s) \in 0 .. Len(s)
  BY <1>0
<1> QED BY <1>3, <1>4

\* The total of the code's loop is the last of the partial sums.
LEMMA TotalIsLastSum ==
  ASSUME NEW s \in Seq(Int)
  PROVE  \E g : Sums(s, Len(s), g) /\ SeqTotal(s) = g[Len(s)]
<1> DEFINE step(g) == [i \in 0 .. Len(s) |-> IF i = 0 THEN 0 ELSE g[i - 1] + s[i]]
           f == CHOOSE g : g = step(g)
<1>0. Len(s) \in Nat /\ \A i \in 1 .. Len(s) : s[i] \in Int
  BY LenProperties, ElementOfSeq
<1>1. PICK g : Sums(s, Len(s), g)
  BY SumsExist
<1>2. g = step(g)
  BY <1>0, <1>1 DEF Sums
<1>3. f = step(f)
  <2> HIDE DEF step
  <2>1. \E p : p = step(p)
    BY <1>2
  <2> QED BY <2>1, Zenon
<1>4. SeqTotal(s) = f[Len(s)]
  BY DEF SeqTotal
<1>5. \A i \in 0 .. Len(s) : f[i] = IF i = 0 THEN 0 ELSE f[i - 1] + s[i]
  <2> HIDE DEF f
  <2> QED BY <1>3
<1> HIDE DEF f
<1> DEFINE T == {n \in 0 .. Len(s) : f[n] # g[n]}
<1>6. ASSUME T # {} PROVE FALSE
  <2>1. T \in SUBSET Nat
    BY <1>0
  <2>2. PICK m \in T : \A n \in T : m <= n
    <3> HIDE DEF T
    <3> QED BY <1>6, <2>1, LeastNumber
  <2>3. m \in 0 .. Len(s) /\ f[m] # g[m]
    OBVIOUS
  <2>4. m # 0
    BY <1>0, <1>1, <1>5, <2>3 DEF Sums
  <2>5. m - 1 \in 0 .. Len(s) /\ m - 1 \notin T
    <3> HIDE DEF T
    <3> QED BY <1>0, <2>2, <2>3, <2>4
  <2>6. f[m - 1] = g[m - 1]
    BY <2>5
  <2> HIDE DEF T
  <2> QED BY <1>0, <1>1, <1>5, <2>3, <2>4, <2>6 DEF Sums
<1>7. Len(s) \in 0 .. Len(s)
  BY <1>0
<1>8. f[Len(s)] = g[Len(s)]
  BY <1>6, <1>7
<1> QED BY <1>1, <1>4, <1>8

\* A bound of every value, times their number, bounds the total.
LEMMA SumsAtMost ==
  ASSUME NEW s \in Seq(Int), NEW g, Sums(s, Len(s), g),
         NEW b \in Int, \A i \in 1 .. Len(s) : s[i] <= b
  PROVE  g[Len(s)] <= Len(s) * b
<1> DEFINE T == {n \in 0 .. Len(s) : ~(g[n] <= n * b)}
<1>0. Len(s) \in Nat /\ \A i \in 1 .. Len(s) : s[i] \in Int
  BY LenProperties, ElementOfSeq
<1>1. ASSUME T # {} PROVE FALSE
  <2>1. T \in SUBSET Nat
    BY <1>0
  <2>2. PICK m \in T : \A n \in T : m <= n
    <3> HIDE DEF T
    <3> QED BY <1>1, <2>1, LeastNumber
  <2>3. m \in 0 .. Len(s) /\ ~(g[m] <= m * b)
    OBVIOUS
  <2>4. m # 0
    BY <2>3 DEF Sums
  <2>5. m - 1 \in 0 .. Len(s) /\ m - 1 \notin T
    <3> HIDE DEF T
    <3> QED BY <1>0, <2>2, <2>3, <2>4
  <2>6. g[m - 1] <= (m - 1) * b
    BY <2>5
  <2> HIDE DEF T
  <2>7. PICK p \in Int : p = (m - 1) * b /\ m * b = p + b
    <3>1. m \in Int
      BY <1>0, <2>3
    <3> QED BY <3>1
  <2>8. /\ g[m] = g[m - 1] + s[m] /\ g[m] \in Int /\ g[m - 1] \in Int
        /\ s[m] \in Int /\ s[m] <= b
    <3>1. m \in 1 .. Len(s)
      BY <1>0, <2>3, <2>4
    <3>2. g[m] = g[m - 1] + s[m] /\ g[m] \in Int /\ g[m - 1] \in Int
      BY <2>3, <2>5, <3>1 DEF Sums
    <3> QED BY <1>0, <3>1, <3>2
  <2> QED BY <2>3, <2>6, <2>7, <2>8
<1>2. Len(s) \in 0 .. Len(s)
  BY <1>0
<1> QED BY <1>1, <1>2

LEMMA SumsAtLeast ==
  ASSUME NEW s \in Seq(Int), NEW g, Sums(s, Len(s), g),
         NEW b \in Int, \A i \in 1 .. Len(s) : s[i] >= b
  PROVE  g[Len(s)] >= Len(s) * b
<1> DEFINE T == {n \in 0 .. Len(s) : ~(g[n] >= n * b)}
<1>0. Len(s) \in Nat /\ \A i \in 1 .. Len(s) : s[i] \in Int
  BY LenProperties, ElementOfSeq
<1>1. ASSUME T # {} PROVE FALSE
  <2>1. T \in SUBSET Nat
    BY <1>0
  <2>2. PICK m \in T : \A n \in T : m <= n
    <3> HIDE DEF T
    <3> QED BY <1>1, <2>1, LeastNumber
  <2>3. m \in 0 .. Len(s) /\ ~(g[m] >= m * b)
    OBVIOUS
  <2>4. m # 0
    BY <2>3 DEF Sums
  <2>5. m - 1 \in 0 .. Len(s) /\ m - 1 \notin T
    <3> HIDE DEF T
    <3> QED BY <1>0, <2>2, <2>3, <2>4
  <2>6. g[m - 1] >= (m - 1) * b
    BY <2>5
  <2> HIDE DEF T
  <2>7. PICK p \in Int : p = (m - 1) * b /\ m * b = p + b
    <3>1. m \in Int
      BY <1>0, <2>3
    <3> QED BY <3>1
  <2>8. /\ g[m] = g[m - 1] + s[m] /\ g[m] \in Int /\ g[m - 1] \in Int
        /\ s[m] \in Int /\ s[m] >= b
    <3>1. m \in 1 .. Len(s)
      BY <1>0, <2>3, <2>4
    <3>2. g[m] = g[m - 1] + s[m] /\ g[m] \in Int /\ g[m - 1] \in Int
      BY <2>3, <2>5, <3>1 DEF Sums
    <3> QED BY <1>0, <3>1, <3>2
  <2> QED BY <2>3, <2>6, <2>7, <2>8
<1>2. Len(s) \in 0 .. Len(s)
  BY <1>0
<1> QED BY <1>1, <1>2

\* The truncated average is neither above nor below every value.
LEMMA AverageWithin ==
  ASSUME NEW s \in Seq(Int), s # <<>>
  PROVE  /\ TruncDiv(SeqTotal(s), Len(s)) \in Int
         /\ \E v \in ValuesOf(s) : TruncDiv(SeqTotal(s), Len(s)) <= v
         /\ \E v \in ValuesOf(s) : TruncDiv(SeqTotal(s), Len(s)) >= v
<1>1. PICK n \in Nat \ {0} : n = Len(s)
  BY LenProperties, EmptySeq
<1>2. PICK g : Sums(s, n, g) /\ SeqTotal(s) = g[n]
  BY <1>1, TotalIsLastSum
<1>3. PICK t \in Int : t = SeqTotal(s)
  BY <1>2 DEF Sums
<1>4. PICK a \in Int : /\ a = TruncDiv(t, n)
                       /\ a * n < t + n /\ t - n < a * n
  BY TruncDivNear
<1>5. \A i \in 1 .. n : s[i] \in Int /\ s[i] \in ValuesOf(s)
  BY <1>1, LenProperties, ElementOfSeq DEF ValuesOf
<1>6. PICK p \in Int : p = a * n /\ n * (a - 1) = p - n /\ n * (a + 1) = p + n
  OBVIOUS
<1>7. ASSUME \A v \in ValuesOf(s) : ~(a <= v) PROVE FALSE
  <2>1. \A i \in 1 .. n : s[i] <= a - 1
    BY <1>5, <1>7
  <2>2. a - 1 \in Int
    OBVIOUS
  <2>3. t <= n * (a - 1)
    BY <1>1, <1>2, <1>3, <2>1, <2>2, SumsAtMost
  <2> QED BY <1>4, <1>6, <2>3
<1>8. ASSUME \A v \in ValuesOf(s) : ~(a >= v) PROVE FALSE
  <2>1. \A i \in 1 .. n : s[i] >= a + 1
    BY <1>5, <1>8
  <2>2. a + 1 \in Int
    OBVIOUS
  <2>3. t >= n * (a + 1)
    BY <1>1, <1>2, <1>3, <2>1, <2>2, SumsAtLeast
  <2> QED BY <1>4, <1>6, <2>3
<1> QED BY <1>1, <1>3, <1>4, <1>7, <1>8

\* A filter keeps its type and its size, and has the new value.
LEMMA PushKeeps ==
  ASSUME NEW S, NEW s \in Seq(S), Len(s) <= FilterSize, NEW x \in S
  PROVE  Push(s, x) \in Seq(S) /\ Len(Push(s, x)) <= FilterSize /\ Push(s, x) # <<>>
<1>0. Len(s) \in Nat /\ FilterSize \in Nat \ {0}
  BY LenProperties, PTPServoAssumption
<1>1. CASE Len(s) < FilterSize
  <2>1. Push(s, x) = Append(s, x)
    BY <1>1 DEF Push
  <2>2. Append(s, x) \in Seq(S) /\ Len(Append(s, x)) = Len(s) + 1
    BY AppendProperties
  <2>3. Len(Append(s, x)) # 0
    BY <1>0, <2>2
  <2> QED BY <1>0, <1>1, <2>1, <2>2, <2>3, EmptySeq
<1>2. CASE ~(Len(s) < FilterSize)
  <2>1. Push(s, x) = Append(Tail(s), x)
    BY <1>2 DEF Push
  <2>2. s # <<>>
    BY <1>0, <1>2, EmptySeq
  <2>3. Tail(s) \in Seq(S) /\ Len(Tail(s)) = Len(s) - 1
    BY <2>2, HeadTailProperties
  <2>4. Append(Tail(s), x) \in Seq(S) /\ Len(Append(Tail(s), x)) = Len(s)
    BY <1>0, <2>3, AppendProperties
  <2>5. Len(Append(Tail(s), x)) # 0
    BY <1>0, <1>2, <2>4
  <2> QED BY <2>1, <2>4, <2>5, EmptySeq
<1> QED BY <1>1, <1>2

LEMMA LeastDelay ==
  ASSUME NEW s \in Seq(Nat), s # <<>>
  PROVE  SetLeast(ValuesOf(s)) \in Nat
<1>1. Len(s) \in Nat /\ Len(s) # 0 /\ DOMAIN s = 1 .. Len(s)
  BY LenProperties, EmptySeq
<1>2. ValuesOf(s) \in SUBSET Nat /\ s[1] \in ValuesOf(s)
  BY <1>1, ElementOfSeq DEF ValuesOf
<1>3. PICK V \in SUBSET Nat : V = ValuesOf(s) /\ V # {}
  BY <1>2
<1>4. \E x \in V : \A y \in V : x <= y
  BY <1>3, LeastNumber
<1>5. SetLeast(V) \in V
  BY <1>4, Zenon DEF SetLeast
<1> QED BY <1>3, <1>5

FilterInv == ServoTypeOK /\ FilterWithinHistory /\ ServoLockInv

LockTyped ==
  /\ consecutiveGood \in 0 .. 2 * LockThreshold /\ locked \in BOOLEAN
  /\ badRun \in 0 .. LockThreshold + 1 /\ goodSince \in 0 .. LockThreshold

LEMMA ResetTyped ==
  ASSUME locked' = FALSE, consecutiveGood' = 0, goodSince' = 0, badRun' = 0
  PROVE  LockTyped'
<1>1. /\ consecutiveGood' \in 0 .. 2 * LockThreshold
      /\ badRun' \in 0 .. LockThreshold + 1 /\ goodSince' \in 0 .. LockThreshold
  BY PTPServoAssumption
<1> QED BY <1>1 DEF LockTyped

\* A measurement that reaches the filter, whatever it says.
LEMMA FilterOffsetKeeps ==
  ASSUME FilterInv, NEW raw \in Int, FilterOffset(raw)
  PROVE  /\ offsetHistory' \in Seq(Int) /\ Len(offsetHistory') <= FilterSize
         /\ offset' \in Int /\ FilterWithinHistory' /\ LockTyped' /\ ServoLockInv'
<1>1. PICK good \in BOOLEAN : LockStep(good)
  BY DEF FilterOffset, LockStep
<1>2. ServoLockInv'
  BY <1>1, LockStepKeeps DEF FilterInv
<1>3. LockTyped'
  BY <1>1, <1>2 DEF LockStep, LockTyped, ServoLockInv, CountsInv
<1>4. /\ offsetHistory' = Push(offsetHistory, raw)
      /\ offset' = TruncDiv(SeqTotal(offsetHistory'), Len(offsetHistory'))
  BY DEF FilterOffset
<1>5. /\ offsetHistory' \in Seq(Int) /\ Len(offsetHistory') <= FilterSize
      /\ offsetHistory' # <<>>
  BY <1>4, PushKeeps DEF FilterInv, ServoTypeOK
<1>6. offset' \in Int /\ FilterWithinHistory'
  BY <1>4, <1>5, AverageWithin DEF FilterWithinHistory
<1> QED BY <1>2, <1>3, <1>5, <1>6

LEMMA FilterInvIsInvariant == ServoSpec => []FilterInv
<1>1. ServoInit => ServoTypeOK /\ FilterWithinHistory
  <2> SUFFICES ASSUME ServoInit PROVE ServoTypeOK /\ FilterWithinHistory
    OBVIOUS
  <2>1. /\ offsetHistory = <<>> /\ delayHistory = <<>>
        /\ pathDelay = 0 /\ offset = 0 /\ consecutiveGood = 0 /\ locked = FALSE
        /\ badRun = 0 /\ goodSince = 0
    BY DEF ServoInit
  <2>2. <<>> \in Seq(Int) /\ <<>> \in Seq(Nat) /\ Len(<<>>) = 0
    OBVIOUS
  <2>3. LockTyped
    <3>1. /\ consecutiveGood \in 0 .. 2 * LockThreshold
          /\ badRun \in 0 .. LockThreshold + 1 /\ goodSince \in 0 .. LockThreshold
      BY <2>1, PTPServoAssumption
    <3> QED BY <2>1, <3>1 DEF LockTyped
  <2>4. Len(offsetHistory) <= FilterSize /\ Len(delayHistory) <= FilterSize
    BY <2>1, <2>2, PTPServoAssumption
  <2> QED BY <2>1, <2>2, <2>3, <2>4 DEF ServoTypeOK, FilterWithinHistory, LockTyped
<1>2. FilterInv /\ [ServoNext]_servoVars => (ServoTypeOK /\ FilterWithinHistory)'
  <2> SUFFICES ASSUME FilterInv, [ServoNext]_servoVars
               PROVE  (ServoTypeOK /\ FilterWithinHistory)'
    OBVIOUS
  <2>0. FilterInv /\ Offsets \subseteq Int /\ Delays \subseteq Nat
    BY PTPServoAssumption
  <2>1. ASSUME NEW o \in Offsets, NEW out \in Delays, MeasureOneWay(o, out)
        PROVE  (ServoTypeOK /\ FilterWithinHistory)'
    <3>1. out + o - pathDelay \in Int
      BY <2>0 DEF FilterInv, ServoTypeOK
    <3>2. FilterOffset(out + o - pathDelay) /\ UNCHANGED <<delayHistory, pathDelay>>
      BY <2>1 DEF MeasureOneWay
    <3> QED
      BY <2>0, <3>1, <3>2, FilterOffsetKeeps DEF FilterInv, ServoTypeOK, LockTyped
  <2>2. ASSUME NEW o \in Offsets, NEW out \in Delays, NEW back \in Delays,
               MeasureWithDelay(o, out, back)
        PROVE  (ServoTypeOK /\ FilterWithinHistory)'
    <3>1. PICK m : m = FourStamps(out + o, back - o)
      OBVIOUS
    <3>2. m.offset \in Int /\ m.delay \in Int
      <4>1. (out + o) - (back - o) \in Int /\ (out + o) + (back - o) \in Int
        BY <2>0
      <4>2. /\ m.offset = TruncDiv((out + o) - (back - o), 2)
            /\ m.delay = TruncDiv((out + o) + (back - o), 2)
        <5>1. m = [offset |-> TruncDiv((out + o) - (back - o), 2),
                   delay |-> TruncDiv((out + o) + (back - o), 2)]
          BY <3>1 DEF FourStamps
        <5> QED BY <5>1
      <4> QED BY <4>1, <4>2, HalfTruncated
    <3>3. /\ FilterOffset(m.offset)
          /\ IF m.delay >= 0
             THEN /\ delayHistory' = Push(delayHistory, m.delay)
                  /\ pathDelay' = SetLeast(ValuesOf(delayHistory'))
             ELSE UNCHANGED <<delayHistory, pathDelay>>
      BY <2>2, <3>1 DEF MeasureWithDelay
    <3>4. /\ delayHistory' \in Seq(Nat) /\ Len(delayHistory') <= FilterSize
          /\ pathDelay' \in Nat
      <4>1. CASE m.delay >= 0
        <5>1. m.delay \in Nat
          BY <3>2, <4>1
        <5>2. /\ delayHistory' \in Seq(Nat) /\ Len(delayHistory') <= FilterSize
              /\ delayHistory' # <<>>
          BY <2>0, <3>3, <4>1, <5>1, PushKeeps DEF FilterInv, ServoTypeOK
        <5> QED BY <3>3, <4>1, <5>2, LeastDelay
      <4>2. CASE ~(m.delay >= 0)
        BY <2>0, <3>3, <4>2 DEF FilterInv, ServoTypeOK
      <4> QED BY <4>1, <4>2
    <3> QED
      BY <2>0, <3>2, <3>3, <3>4, FilterOffsetKeeps DEF ServoTypeOK, LockTyped
  <2>3. CASE MasterChange
    <3>1. /\ locked' = FALSE /\ consecutiveGood' = 0 /\ goodSince' = 0 /\ badRun' = 0
          /\ UNCHANGED <<offsetHistory, delayHistory, pathDelay, offset>>
      BY <2>3 DEF MasterChange
    <3>2. LockTyped'
      BY <3>1, ResetTyped
    <3> QED
      BY <2>0, <3>1, <3>2 DEF FilterInv, ServoTypeOK, FilterWithinHistory, LockTyped
  <2>4. CASE Restart
    <3>1. /\ offsetHistory' = <<>> /\ delayHistory' = <<>>
          /\ locked' = FALSE /\ consecutiveGood' = 0 /\ goodSince' = 0 /\ badRun' = 0
          /\ UNCHANGED <<pathDelay, offset>>
      BY <2>4 DEF Restart
    <3>2. LockTyped'
      BY <3>1, ResetTyped
    <3>3. /\ offsetHistory' \in Seq(Int) /\ delayHistory' \in Seq(Nat)
          /\ Len(offsetHistory') = 0 /\ Len(delayHistory') = 0
      BY <3>1, EmptySeq
    <3>4. Len(offsetHistory') <= FilterSize /\ Len(delayHistory') <= FilterSize
      BY <3>3, PTPServoAssumption
    <3> QED
      BY <2>0, <3>1, <3>2, <3>3, <3>4
         DEF FilterInv, ServoTypeOK, FilterWithinHistory, LockTyped
  <2>5. CASE UNCHANGED servoVars
    BY <2>0, <2>5 DEF servoVars, FilterInv, ServoTypeOK, FilterWithinHistory
  <2> QED
    BY <2>1, <2>2, <2>3, <2>4, <2>5 DEF ServoNext
<1> QED
  BY <1>1, <1>2, ServoLockInvIsInvariant, PTL DEF ServoSpec, FilterInv

\* calculateOffsetAndDelay's moving average, over any number of measurements: the
\* circular arrays keep their size, and the truncated average of the offsets is
\* within the range of those it averages.
THEOREM AverageInRange == ServoSpec => [](ServoTypeOK /\ FilterWithinHistory)
  BY FilterInvIsInvariant, PTL DEF FilterInv
=============================================================================
