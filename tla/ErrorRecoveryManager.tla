------------------------ MODULE ErrorRecoveryManager ------------------------
(***************************************************************************)
(* ErrorRecoveryManager, for one registered action: reported errors run the  *)
(* action, at most three times in a row without success and not twice within *)
(* five seconds.                                                             *)
(***************************************************************************)
EXTENDS Integers, FiniteSets

CONSTANTS Cooldown,      \* RECOVERY_COOLDOWN (5 s), in ticks
          MaxAttempts,   \* MAX_RECOVERY_ATTEMPTS (3)
          MaxTicks       \* bound: the clock

ASSUME RecoveryAssumption ==
  Cooldown \in Nat \ {0} /\ MaxAttempts \in Nat \ {0} /\ MaxTicks \in Nat

VARIABLES recoveryNow,         \* steady_clock
          attemptCount,        \* state.attemptCount
          lastAttempt,         \* state.lastAttempt; the epoch is long before 0
          autoRecoveryEnabled, \* autoRecoveryEnabled_
          attempts             \* history: [at, ok] of each attempt since a reset

recoveryVars == <<recoveryNow, attemptCount, lastAttempt, autoRecoveryEnabled, attempts>>

Epoch == -Cooldown

\* registerRecoveryAction().
RecoveryInit ==
  /\ recoveryNow = 0 /\ attemptCount = 0 /\ lastAttempt = Epoch
  /\ autoRecoveryEnabled = TRUE /\ attempts = {}

RecoveryTick ==
  /\ recoveryNow < MaxTicks /\ recoveryNow' = recoveryNow + 1
  /\ UNCHANGED <<attemptCount, lastAttempt, autoRecoveryEnabled, attempts>>

\* Fault: one attempt too many.
MayAttemptOnceMore ==
  /\ autoRecoveryEnabled /\ recoveryNow - lastAttempt >= Cooldown
  /\ attemptCount <= MaxAttempts

MayAttempt ==
  /\ autoRecoveryEnabled /\ recoveryNow - lastAttempt >= Cooldown
  /\ attemptCount < MaxAttempts

\* Fault: only a success starts the cool-down.
ReportUntimed(success) ==
  /\ MayAttempt
  /\ lastAttempt' = IF success THEN recoveryNow ELSE lastAttempt
  /\ attemptCount' = IF success THEN 0 ELSE attemptCount + 1
  /\ attempts' = attempts \cup {[at |-> recoveryNow, ok |-> success]}
  /\ UNCHANGED <<recoveryNow, autoRecoveryEnabled>>

\* reportError() of a type with an action: the action may fail or throw.
ReportError(success) ==
  /\ MayAttempt
  /\ lastAttempt' = recoveryNow
  /\ attemptCount' = IF success THEN 0 ELSE attemptCount + 1
  /\ attempts' = attempts \cup {[at |-> recoveryNow, ok |-> success]}
  /\ UNCHANGED <<recoveryNow, autoRecoveryEnabled>>

SetAutoRecovery(enabled) ==
  /\ autoRecoveryEnabled' = enabled
  /\ UNCHANGED <<recoveryNow, attemptCount, lastAttempt, attempts>>

\* resetStatistics(): a fresh allowance, but the cool-down goes on.
ResetAttempts ==
  /\ attemptCount' = 0 /\ attempts' = {}
  /\ UNCHANGED <<recoveryNow, lastAttempt, autoRecoveryEnabled>>

RecoveryNext ==
  \/ RecoveryTick \/ ResetAttempts
  \/ \E b \in BOOLEAN : ReportError(b) \/ SetAutoRecovery(b)

RecoverySpec == RecoveryInit /\ [][RecoveryNext]_recoveryVars

-----------------------------------------------------------------------------
\* Counters and times keep their types.
RecoveryTypeOK ==
  /\ attemptCount \in 0 .. MaxAttempts /\ lastAttempt \in Epoch .. recoveryNow
  /\ attempts \subseteq [at : 0 .. recoveryNow, ok : BOOLEAN]

\* Attempts are a cool-down apart, and more than the allowed number of them
\* means that one has succeeded: an action that keeps failing is given up
\* until statistics are reset.
AttemptsSpacedAndBounded ==
  /\ \A a, b \in attempts : a.at < b.at => b.at - a.at >= Cooldown
  /\ \A a \in attempts :
       Cardinality({b \in attempts : b.at >= a.at}) > MaxAttempts =>
         \E b \in attempts : b.at >= a.at /\ b.ok
=============================================================================
