------------------------- MODULE NetworkErrorHandler -------------------------
(***************************************************************************)
(* NetworkErrorHandler: threads report errors; many of them start a          *)
(* recovery, not twice within five seconds, and every error goes to a        *)
(* callback under a mutex.                                                   *)
(***************************************************************************)
EXTENDS Integers, FiniteSets

CONSTANTS Reporters,     \* threads that report network errors
          MaxRecent,     \* MAX_RECENT_ERRORS (10)
          HandlerPause,  \* RECOVERY_COOLDOWN (5 s), in ticks
          HandlerTicks,  \* bound: the clock
          MaxErrors      \* bound: errors counted since the last reset

ASSUME HandlerAssumption ==
  MaxRecent \in Nat /\ HandlerPause \in Nat /\ HandlerTicks \in Nat /\ MaxErrors \in Nat

VARIABLES handlerNow,          \* steady_clock
          recentErrorCount, totalErrorCount,
          lastRecoveryAttempt, \* lastRecoveryAttempt_
          recoveryActive,      \* recoveryActive_
          reporterPc,          \* thread -> where it stands in reportError()
          recovering           \* history: [thread, at] of each recovery

handlerVars == <<handlerNow, recentErrorCount, totalErrorCount, lastRecoveryAttempt,
                 recoveryActive, reporterPc, recovering>>

HandlerInit ==
  /\ handlerNow = 0 /\ recentErrorCount = 0 /\ totalErrorCount = 0
  /\ lastRecoveryAttempt = 0 /\ recoveryActive = FALSE
  /\ reporterPc = [t \in Reporters |-> "idle"] /\ recovering = {}

HandlerTick ==
  /\ handlerNow < HandlerTicks /\ handlerNow' = handlerNow + 1
  /\ UNCHANGED <<recentErrorCount, totalErrorCount, lastRecoveryAttempt, recoveryActive,
                 reporterPc, recovering>>

Go(t, from, to) == reporterPc[t] = from /\ reporterPc' = [reporterPc EXCEPT ![t] = to]

\* Fault: an error is counted twice among the recent ones.
CountsRecentTwice(t) ==
  /\ totalErrorCount < MaxErrors /\ Go(t, "idle", "look")
  /\ totalErrorCount' = totalErrorCount + 1 /\ recentErrorCount' = recentErrorCount + 2
  /\ UNCHANGED <<handlerNow, lastRecoveryAttempt, recoveryActive, recovering>>

\* reportError(): count, then look at the counters.  The difference is in
\* whole seconds and has to exceed the cool-down.
ReportNetworkError(t) ==
  /\ totalErrorCount < MaxErrors /\ Go(t, "idle", "look")
  /\ totalErrorCount' = totalErrorCount + 1 /\ recentErrorCount' = recentErrorCount + 1
  /\ UNCHANGED <<handlerNow, lastRecoveryAttempt, recoveryActive, recovering>>

Due == recentErrorCount > MaxRecent /\ handlerNow - lastRecoveryAttempt > HandlerPause

LookAtCounters(t) ==
  /\ Go(t, "look", IF Due THEN "test" ELSE "callback")
  /\ UNCHANGED <<handlerNow, recentErrorCount, totalErrorCount, lastRecoveryAttempt,
                 recoveryActive, recovering>>

\* attemptRecovery(): the test of the flag and the setting of it are two steps.
TestRecoveryActive(t) ==
  /\ Go(t, "test", IF recoveryActive THEN "callback" ELSE "begin")
  /\ UNCHANGED <<handlerNow, recentErrorCount, totalErrorCount, lastRecoveryAttempt,
                 recoveryActive, recovering>>

BeginRecovery(t) ==
  /\ Go(t, "begin", "end") /\ recoveryActive' = TRUE
  /\ recovering' = recovering \cup {[thread |-> t, at |-> handlerNow]}
  /\ UNCHANGED <<handlerNow, recentErrorCount, totalErrorCount, lastRecoveryAttempt>>

\* Fault: the time of the recovery is not kept.
EndUntimed(t) ==
  /\ Go(t, "end", "callback")
  /\ recentErrorCount' = 0 /\ recoveryActive' = FALSE
  /\ UNCHANGED <<handlerNow, totalErrorCount, lastRecoveryAttempt, recovering>>

EndRecovery(t) ==
  /\ Go(t, "end", "callback")
  /\ recentErrorCount' = 0 /\ lastRecoveryAttempt' = handlerNow /\ recoveryActive' = FALSE
  /\ UNCHANGED <<handlerNow, totalErrorCount, recovering>>

\* The callback runs with callbackMutex_ held; one that registers a handler
\* would wait for it, so that it must not.
CallErrorHandler(t) ==
  /\ Go(t, "callback", "idle")
  /\ UNCHANGED <<handlerNow, recentErrorCount, totalErrorCount, lastRecoveryAttempt,
                 recoveryActive, recovering>>

\* reset() leaves the time of the last recovery alone.
ResetErrors ==
  /\ totalErrorCount' = 0 /\ recentErrorCount' = 0
  /\ UNCHANGED <<handlerNow, lastRecoveryAttempt, recoveryActive, reporterPc, recovering>>

HandlerNext ==
  \/ HandlerTick \/ ResetErrors
  \/ \E t \in Reporters :
       \/ ReportNetworkError(t) \/ LookAtCounters(t) \/ TestRecoveryActive(t)
       \/ BeginRecovery(t) \/ EndRecovery(t) \/ CallErrorHandler(t)

HandlerSpec == HandlerInit /\ [][HandlerNext]_handlerVars

-----------------------------------------------------------------------------
\* Counters and times keep their types.
HandlerTypeOK ==
  /\ recentErrorCount \in 0 .. totalErrorCount /\ lastRecoveryAttempt \in 0 .. handlerNow
  /\ recoveryActive \in BOOLEAN
  /\ reporterPc \in [Reporters -> {"idle", "look", "test", "begin", "end", "callback"}]

\* A thread that has recovered does not recover again within the pause,
\* whatever the other threads report and reset meanwhile.
RecoveriesSpaced ==
  \A x, y \in recovering :
    x.thread = y.thread /\ x.at < y.at => y.at - x.at > HandlerPause

\* Only one thread is in a recovery.  Violated: the flag is tested and then
\* set, and a second thread tests it in between.
OneRecoveryAtATime ==
  Cardinality({t \in Reporters : reporterPc[t] = "end"}) <= 1
=============================================================================
