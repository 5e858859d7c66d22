----------------------------- MODULE MediaClock ------------------------------
(***************************************************************************)
(* Media clock recovery: PTPClock::recordMediaClockReference and its readers,*)
(* with the PhaseLockedLoop it feeds.  The receive thread records, for every *)
(* packet, the RTP timestamp with the PTP and local time of its arrival.     *)
(* One tick of the model is the time of one sample; the loop filter          *)
(* (doubles) is left out, its update conditions and its lock are kept.       *)
(***************************************************************************)
EXTENDS Integers, Sequences

CONSTANTS RtpMod,        \* RTP timestamps: 2^32
          MaxHistory,    \* kMaxReferenceHistory (16)
          MinInterval,   \* kMinDriftCalcIntervalNs (100 ms)
          MaxGap,        \* the longest deltaTime update() accepts (10 s)
          MaxAge,        \* kMaxReferenceAgeNs (5 s)
          Converged,     \* CONVERGENCE_THRESHOLD (1 ms)
          LockAbove,     \* isLocked(): lockCount_ > 10
          MaxLockCount,  \* MAX_LOCK_COUNT (100)
          Steps,         \* times between two packets
          ClockErrors,   \* PTP time minus local time, as measured
          MaxNow         \* bound on the model's clock

ASSUME MediaClockAssumption ==
  /\ RtpMod \in Nat \ {0} /\ RtpMod % 2 = 0
  /\ MaxHistory \in Nat \ {0} /\ MinInterval \in Nat /\ MaxGap \in Nat
  /\ LockAbove \in Nat /\ MaxLockCount \in Nat /\ LockAbove + 1 < MaxLockCount
  /\ MaxAge \in Nat /\ MaxNow \in Nat \ {0}
  /\ Steps \subseteq Nat \ {0} /\ ClockErrors \subseteq Int

VARIABLES
  now,                 \* local time; the stream's timestamp is now % RtpMod
  history,             \* referenceHistory_, newest last
  current, previous,   \* currentReference_, previousReference_ (0 or 1 of each)
  pllTime, lockCount,  \* lastLocalTime_ (0: none yet) and lockCount_
  frozen,              \* an update was refused for its deltaTime
  pllGood              \* converged updates applied, up to LockAbove + 1

clockVars == <<now, history, current, previous, pllTime, lockCount, frozen, pllGood>>

Half == RtpMod \div 2
Magnitude(x) == IF x < 0 THEN -x ELSE x
Upper(a, b) == IF a < b THEN b ELSE a
Lower(a, b) == IF a < b THEN a ELSE b

\* Fault: the wrap is not taken into account.
PlainDifference(ts1, ts2) == ts1 - ts2

\* ts1 - ts2 for counters of RtpMod: the unsigned difference, made negative
\* when it is beyond half the range.
RtpTimestampDifference(ts1, ts2) ==
  LET diff == (ts1 - ts2) % RtpMod IN IF diff > Half THEN diff - RtpMod ELSE diff

Reference(rtp, ptp, local) == [rtp |-> rtp, ptp |-> ptp, local |-> local]

ClockInit ==
  /\ now = 1 /\ history = <<>> /\ current = <<>> /\ previous = <<>>
  /\ pllTime = 0 /\ lockCount = 0 /\ frozen = FALSE /\ pllGood = 0

\* Fault: the lock count has no upper bound.
UncappedPllUpdate(local, remote) ==
  IF pllTime = 0 THEN pllTime' = local /\ UNCHANGED <<lockCount, frozen, pllGood>>
  ELSE IF local - pllTime > MaxGap
  THEN frozen' = TRUE /\ UNCHANGED <<pllTime, lockCount, pllGood>>
  ELSE /\ pllTime' = local /\ lockCount' = lockCount + 1
       /\ pllGood' = Lower(pllGood + 1, LockAbove + 1) /\ UNCHANGED frozen

\* Fault: an update counts towards the lock whatever its error.
BlindPllUpdate(local, remote) ==
  IF pllTime = 0 THEN pllTime' = local /\ UNCHANGED <<lockCount, frozen, pllGood>>
  ELSE IF local - pllTime > MaxGap
  THEN frozen' = TRUE /\ UNCHANGED <<pllTime, lockCount, pllGood>>
  ELSE LET good == Magnitude(remote - local) < Converged
       IN  /\ pllTime' = local /\ lockCount' = Lower(lockCount + 1, MaxLockCount)
           /\ pllGood' = IF good THEN Lower(pllGood + 1, LockAbove + 1) ELSE pllGood
           /\ UNCHANGED frozen

\* Fault: a refused update takes the new time.
ForgivingPllUpdate(local, remote) ==
  IF pllTime = 0 THEN pllTime' = local /\ UNCHANGED <<lockCount, frozen, pllGood>>
  ELSE /\ pllTime' = local /\ frozen' = (frozen \/ local - pllTime > MaxGap)
       /\ lockCount' = IF local - pllTime > MaxGap THEN lockCount
                       ELSE Lower(lockCount + 1, MaxLockCount)
       /\ UNCHANGED pllGood

\* PhaseLockedLoop::update.  A deltaTime beyond MaxGap is refused and leaves
\* lastLocalTime_ where it was.
PllUpdate(local, remote) ==
  IF pllTime = 0 THEN pllTime' = local /\ UNCHANGED <<lockCount, frozen, pllGood>>
  ELSE IF local - pllTime > MaxGap
  THEN frozen' = TRUE /\ UNCHANGED <<pllTime, lockCount, pllGood>>
  ELSE LET good == Magnitude(remote - local) < Converged
       IN  /\ pllTime' = local
           /\ lockCount' = IF good THEN Lower(lockCount + 1, MaxLockCount)
                           ELSE Upper(0, lockCount - 2)
           /\ pllGood' = IF good THEN Lower(pllGood + 1, LockAbove + 1) ELSE pllGood
           /\ UNCHANGED frozen

\* Fault: the current reference is replaced before it becomes the previous.
SwappedRecord(dt, err) ==
  LET local == now + dt
      ref   == Reference(local % RtpMod, local + err, local)
  IN  /\ local <= MaxNow /\ now' = local
      /\ current' = <<ref>> /\ previous' = current'
      /\ history' = IF Len(history) < MaxHistory THEN Append(history, ref)
                    ELSE Append(Tail(history), ref)
      /\ UNCHANGED <<pllTime, lockCount, frozen, pllGood>>

\* A packet arrives dt after the last one: the current reference becomes the
\* previous, and the loop is updated when PTP time moved far enough between.
RecordMediaClockReference(dt, err) ==
  LET local == now + dt
      ref   == Reference(local % RtpMod, local + err, local)
  IN  /\ local <= MaxNow
      /\ now' = local
      /\ previous' = current /\ current' = <<ref>>
      /\ history' = IF Len(history) < MaxHistory THEN Append(history, ref)
                    ELSE Append(Tail(history), ref)
      /\ IF current # <<>> /\ Magnitude(ref.ptp - current[1].ptp) > MinInterval
         THEN PllUpdate(local, ref.ptp)
         ELSE UNCHANGED <<pllTime, lockCount, frozen, pllGood>>

\* PhaseLockedLoop::reset
PllReset ==
  /\ pllTime # 0
  /\ pllTime' = 0 /\ lockCount' = 0 /\ frozen' = FALSE /\ pllGood' = 0
  /\ UNCHANGED <<now, history, current, previous>>

ClockNext ==
  \/ \E dt \in Steps, err \in ClockErrors : RecordMediaClockReference(dt, err)
  \/ PllReset

ClockSpec == ClockInit /\ [][ClockNext]_clockVars

\* rtpTimestampToPTPTime, from the current reference (one tick per sample;
\* the loop's correction is left out).  0 stands for the clock's own time.
RtpTimestampToPTPTime(ts) ==
  IF current = <<>> THEN 0
  ELSE LET t == current[1].ptp + RtpTimestampDifference(ts, current[1].rtp)
       IN  IF t < 0 THEN current[1].ptp ELSE t

PllLocked == lockCount > LockAbove

\* isMediaClockLocked at local time t, with PTP locked or in stub mode.
MediaClockLocked(ptpLocked, t) ==
  /\ current # <<>>
  /\ t - current[1].local <= MaxAge
  /\ ptpLocked => PllLocked

\* getClockDriftRatio without a locked loop: the spans it divides.
DriftSpans ==
  LET oldest == history[1]
      newest == history[Len(history)]
  IN  [local |-> newest.local - oldest.local, ptp |-> newest.ptp - oldest.ptp]

-----------------------------------------------------------------------------
\* The media clock's state keeps its types.
ClockTypeOK ==
  /\ now \in 1 .. MaxNow
  /\ Len(history) <= MaxHistory /\ Len(current) <= 1 /\ Len(previous) <= 1
  /\ pllTime \in 0 .. MaxNow /\ lockCount \in 0 .. MaxLockCount
  /\ frozen \in BOOLEAN

\* The two references and the history agree: the current one is the newest of
\* the history and the previous the one before it, and time only moves
\* forward along the history, so the drift's divisor is positive.
ReferencesAgree ==
  /\ history # <<>> => current = <<history[Len(history)]>>
  /\ Len(history) > 1 => previous = <<history[Len(history) - 1]>>
  /\ \A i \in 1 .. Len(history) - 1 : history[i].local < history[i + 1].local
  /\ Len(history) > 1 => DriftSpans.local > 0

\* A packet of the stream within half the counter's range of the reference
\* is presented at the PTP time it was sent at, also across the wrap.
PresentationExact ==
  current # <<>> => \A d \in 1 - Half .. Half :
    current[1].ptp + d >= 0 =>
      RtpTimestampToPTPTime((current[1].local + d) % RtpMod) = current[1].ptp + d

\* With PTP locked the media clock only counts as locked after LockAbove + 1
\* converged updates (refused ones, and ones too close together, never
\* count), and no lock outlives the age limit of the newest reference.
MediaLockEarned ==
  \A t \in now .. now + MaxAge + 1 :
    /\ MediaClockLocked(TRUE, t) => pllGood = LockAbove + 1
    /\ MediaClockLocked(FALSE, t) => t <= now + MaxAge /\ history # <<>>

\* An update refused for its deltaTime is never followed by an accepted one:
\* lastLocalTime_ stays, so every later deltaTime is longer still, and the
\* lock the loop reports is that of before the gap until reset().
RefusedForGood == frozen => now - pllTime > MaxGap

\* "Invalid delta time, skip this update" (PhaseLockedLoop.cpp:63): it skips
\* this one; a later update that comes soon after the packet before is applied.
GapSkipsOneUpdate ==
  [][(/\ now # now' /\ now' - now <= MaxGap /\ previous' # <<>>
      /\ Magnitude(current'[1].ptp - previous'[1].ptp) > MinInterval)
     => pllTime' = now']_clockVars

\* What isMediaClockLocked promises: a lock that was earned and is fresh, and no
\* update behind a refused one.
MediaClockSafe == MediaLockEarned /\ RefusedForGood
=============================================================================
