-------------------------- MODULE BufferStatusMonitor --------------------------
(***************************************************************************)
(* BufferStatusMonitor: the fill level of a buffer, and counters of          *)
(* underruns, overruns and near misses.  An underrun or overrun is counted   *)
(* once per HYSTERESIS_PERIOD.                                               *)
(***************************************************************************)
EXTENDS Integers, FiniteSets

CONSTANTS BufferSizes,    \* bufferSize_; 0 is an unsized buffer
          FillLevels,     \* levels reported
          Hysteresis,     \* HYSTERESIS_PERIOD (100 ms), in ticks
          MonitorTicks    \* bound: the clock, one update at most per tick

ASSUME MonitorAssumption ==
  /\ BufferSizes \subseteq Nat /\ FillLevels \subseteq Nat
  /\ Hysteresis \in Nat /\ MonitorTicks \in Nat

VARIABLES monitorNow, bufferSize,
          currentFillLevel,
          underrunCount, overrunCount, dangerEventsCount,
          lastUnderrunEvent, lastOverrunEvent,
          lows, highs,     \* history: ticks of underruns and of overruns since a reset
          counted,         \* history: ticks at which an underrun was counted
          watchedSince     \* history: construction or the last reset

monitorVars == <<monitorNow, bufferSize, currentFillLevel, underrunCount, overrunCount,
                 dangerEventsCount, lastUnderrunEvent, lastOverrunEvent, lows, highs, counted, watchedSince>>

\* Thresholds in percent; an unsized buffer counts as empty.
CriticalLow(level)  == bufferSize = 0 \/ 100 * level < 2 * bufferSize
CriticalHigh(level) == bufferSize > 0 /\ 100 * level > 98 * bufferSize
Dangerous(level)    == \/ bufferSize = 0 \/ 100 * level < 10 * bufferSize
                       \/ 100 * level > 90 * bufferSize

MonitorInit ==
  /\ monitorNow = 0 /\ bufferSize \in BufferSizes /\ currentFillLevel = 0
  /\ underrunCount = 0 /\ overrunCount = 0 /\ dangerEventsCount = 0
  /\ lastUnderrunEvent = 0 /\ lastOverrunEvent = 0
  /\ lows = {} /\ highs = {} /\ counted = {} /\ watchedSince = 0

-----------------------------------------------------------------------------
\* Fault: the time of a counted event is not kept.
ImpatientUpdate(level) ==
  LET under == CriticalLow(level) /\ monitorNow - lastUnderrunEvent > Hysteresis
      over  == CriticalHigh(level) /\ monitorNow - lastOverrunEvent > Hysteresis
  IN  /\ monitorNow < MonitorTicks /\ monitorNow' = monitorNow + 1
      /\ currentFillLevel' = level
      /\ underrunCount' = underrunCount + (IF under THEN 1 ELSE 0)
      /\ overrunCount' = overrunCount + (IF over THEN 1 ELSE 0)
      /\ dangerEventsCount' = dangerEventsCount + (IF Dangerous(level) THEN 1 ELSE 0)
      /\ lows' = lows \cup (IF CriticalLow(level) THEN {monitorNow} ELSE {})
      /\ highs' = highs \cup (IF CriticalHigh(level) THEN {monitorNow} ELSE {})
      /\ counted' = counted \cup (IF under THEN {monitorNow} ELSE {})
      /\ UNCHANGED <<bufferSize, watchedSince, lastUnderrunEvent, lastOverrunEvent>>

\* Fault: an event that is not counted starts the period anew.
RestartingUpdate(level) ==
  LET under == CriticalLow(level) /\ monitorNow - lastUnderrunEvent > Hysteresis
      over  == CriticalHigh(level) /\ monitorNow - lastOverrunEvent > Hysteresis
  IN  /\ monitorNow < MonitorTicks /\ monitorNow' = monitorNow + 1
      /\ currentFillLevel' = level
      /\ underrunCount' = underrunCount + (IF under THEN 1 ELSE 0)
      /\ overrunCount' = overrunCount + (IF over THEN 1 ELSE 0)
      /\ dangerEventsCount' = dangerEventsCount + (IF Dangerous(level) THEN 1 ELSE 0)
      /\ lastUnderrunEvent' = IF CriticalLow(level) THEN monitorNow ELSE lastUnderrunEvent
      /\ lastOverrunEvent' = IF CriticalHigh(level) THEN monitorNow ELSE lastOverrunEvent
      /\ lows' = lows \cup (IF CriticalLow(level) THEN {monitorNow} ELSE {})
      /\ highs' = highs \cup (IF CriticalHigh(level) THEN {monitorNow} ELSE {})
      /\ counted' = counted \cup (IF under THEN {monitorNow} ELSE {})
      /\ UNCHANGED <<bufferSize, watchedSince>>

\* updateFillLevel().  An event that is too soon after the last counted one is
\* not counted and does not move the time of it.
UpdateFillLevel(level) ==
  LET under == CriticalLow(level) /\ monitorNow - lastUnderrunEvent > Hysteresis
      over  == CriticalHigh(level) /\ monitorNow - lastOverrunEvent > Hysteresis
  IN  /\ monitorNow < MonitorTicks /\ monitorNow' = monitorNow + 1
      /\ currentFillLevel' = level
      /\ underrunCount' = underrunCount + (IF under THEN 1 ELSE 0)
      /\ overrunCount' = overrunCount + (IF over THEN 1 ELSE 0)
      /\ dangerEventsCount' = dangerEventsCount + (IF Dangerous(level) THEN 1 ELSE 0)
      /\ lastUnderrunEvent' = IF under THEN monitorNow ELSE lastUnderrunEvent
      /\ lastOverrunEvent' = IF over THEN monitorNow ELSE lastOverrunEvent
      /\ lows' = lows \cup (IF CriticalLow(level) THEN {monitorNow} ELSE {})
      /\ highs' = highs \cup (IF CriticalHigh(level) THEN {monitorNow} ELSE {})
      /\ counted' = counted \cup (IF under THEN {monitorNow} ELSE {})
      /\ UNCHANGED <<bufferSize, watchedSince>>

\* A tick in which nobody reports a level.
MonitorTick ==
  /\ monitorNow < MonitorTicks /\ monitorNow' = monitorNow + 1
  /\ UNCHANGED <<bufferSize, currentFillLevel, underrunCount, overrunCount,
                 dangerEventsCount, lastUnderrunEvent, lastOverrunEvent, lows, highs, counted, watchedSince>>

\* Fault: a reset mutes the monitor for a period by dating the events ahead.
ResetAhead ==
  /\ underrunCount' = 0 /\ overrunCount' = 0 /\ dangerEventsCount' = 0
  /\ lastUnderrunEvent' = monitorNow + Hysteresis /\ lastOverrunEvent' = monitorNow + Hysteresis
  /\ lows' = {} /\ highs' = {} /\ counted' = {} /\ watchedSince' = monitorNow
  /\ UNCHANGED <<monitorNow, bufferSize, currentFillLevel>>

\* resetStatistics() starts both periods anew.
ResetMonitor ==
  /\ underrunCount' = 0 /\ overrunCount' = 0 /\ dangerEventsCount' = 0
  /\ lastUnderrunEvent' = monitorNow /\ lastOverrunEvent' = monitorNow
  /\ lows' = {} /\ highs' = {} /\ counted' = {} /\ watchedSince' = monitorNow
  /\ UNCHANGED <<monitorNow, bufferSize, currentFillLevel>>

MonitorNext ==
  \/ \E level \in FillLevels : UpdateFillLevel(level)
  \/ MonitorTick \/ ResetMonitor

MonitorSpec == MonitorInit /\ [][MonitorNext]_monitorVars

-----------------------------------------------------------------------------
\* The monitor's state keeps its types.
MonitorTypeOK ==
  /\ underrunCount \in Nat /\ overrunCount \in Nat /\ dangerEventsCount \in Nat
  /\ lastUnderrunEvent \in 0 .. monitorNow /\ lastOverrunEvent \in 0 .. monitorNow

\* What is counted has happened, in its own counter, and never twice within a
\* period; an event of either kind is a near miss too.
EventsCounted ==
  /\ underrunCount = Cardinality(counted) /\ counted \subseteq lows
  /\ overrunCount <= Cardinality(highs)
  /\ underrunCount + overrunCount <= dangerEventsCount
  /\ \A t, u \in counted : t < u => u - t > Hysteresis

\* An underrun that is not counted is within a period of one that is, or of
\* the start of watching.
MissedOnlyWithinPeriod ==
  \A t \in lows \ counted :
    \E u \in counted \cup {watchedSince} : u <= t /\ t - u <= Hysteresis

\* A buffer that has run dry is reported.  Violated: an underrun within the
\* first period is not counted, because construction and reset set the time
\* of the last event to now.
UnderrunIsCounted == lows # {} => underrunCount > 0
=============================================================================
