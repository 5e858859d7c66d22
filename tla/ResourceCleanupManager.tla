------------------------ MODULE ResourceCleanupManager ------------------------
(***************************************************************************)
(* ResourceCleanupManager: clean-up functions, registered by any thread, are *)
(* swapped out and run by one thread at a time; and SocketGuard, the scope   *)
(* guard of a descriptor.  A clean-up function is a number, in the order of  *)
(* registration; it may throw, register another one, or clean up itself.     *)
(***************************************************************************)
EXTENDS Integers, Sequences, FiniteSets, SequencesExt

CONSTANTS Cleaners,        \* threads that call the manager
          MaxFunctions     \* bound: registrations

ASSUME CleanupAssumption == MaxFunctions \in Nat

VARIABLES cleanupFunctions,   \* cleanupFunctions_
          cleanupInProgress,  \* cleanupInProgress_
          cleanerPc,          \* thread -> where it stands
          cleanerBatch,       \* thread -> its localCleanupFunctions
          resetAfter,         \* thread -> it is in performCleanupAndReset()
          registered,         \* how many functions have been registered
          cleanupsRun,        \* functions that were called, in that order
          forgotten,          \* history: functions cleared without being called
          guardFd, guardActive,  \* a SocketGuard's socket_fd_ and active_
          guardLog            \* what happened to its descriptor

managerVars == <<cleanupFunctions, cleanupInProgress, cleanerPc, cleanerBatch, resetAfter,
                 registered, cleanupsRun, forgotten>>
guardVars   == <<guardFd, guardActive, guardLog>>
cleanupVars == <<managerVars, guardVars>>

CleanupInit ==
  /\ cleanupFunctions = <<>> /\ cleanupInProgress = FALSE
  /\ cleanerPc = [t \in Cleaners |-> "idle"] /\ cleanerBatch = [t \in Cleaners |-> <<>>]
  /\ resetAfter = [t \in Cleaners |-> FALSE]
  /\ registered = 0 /\ cleanupsRun = <<>> /\ forgotten = {}
  /\ guardFd \in {-1, 3} /\ guardActive = TRUE /\ guardLog = <<>>

-----------------------------------------------------------------------------
\* registerCleanup(), also from within a clean-up function.
RegisterCleanup(t) ==
  /\ cleanerPc[t] \in {"idle", "run"} /\ registered < MaxFunctions
  /\ registered' = registered + 1
  /\ cleanupFunctions' = Append(cleanupFunctions, registered + 1)
  /\ UNCHANGED <<cleanupInProgress, cleanerPc, cleanerBatch, resetAfter, cleanupsRun,
                 forgotten, guardVars>>

\* Fault: the flag is set and not looked at.
EagerCleanup(t, reset) ==
  /\ cleanerPc[t] = "idle" /\ cleanerPc' = [cleanerPc EXCEPT ![t] = "swap"]
  /\ cleanupInProgress' = TRUE /\ resetAfter' = [resetAfter EXCEPT ![t] = reset]
  /\ UNCHANGED <<cleanupFunctions, cleanerBatch, registered, cleanupsRun, forgotten, guardVars>>

\* performCleanup(), alone or as the first half of performCleanupAndReset():
\* whoever finds another thread at it returns at once.
PerformCleanup(t, reset) ==
  /\ cleanerPc[t] = "idle"
  /\ cleanerPc' = [cleanerPc EXCEPT ![t] =
       IF ~cleanupInProgress THEN "swap" ELSE IF reset THEN "clear" ELSE "idle"]
  /\ cleanupInProgress' = TRUE /\ resetAfter' = [resetAfter EXCEPT ![t] = reset]
  /\ UNCHANGED <<cleanupFunctions, cleanerBatch, registered, cleanupsRun, forgotten, guardVars>>

SwapFunctions(t) ==
  /\ cleanerPc[t] = "swap"
  /\ cleanerBatch' = [cleanerBatch EXCEPT ![t] = cleanupFunctions]
  /\ cleanupFunctions' = <<>>
  /\ cleanerPc' = [cleanerPc EXCEPT ![t] = "run"]
  /\ UNCHANGED <<cleanupInProgress, resetAfter, registered, cleanupsRun, forgotten, guardVars>>

\* Fault: a function that was run stays in the batch.
RerunCleanup(t) ==
  /\ cleanerPc[t] = "run" /\ cleanerBatch[t] # <<>>
  /\ cleanupsRun' = Append(cleanupsRun, Head(cleanerBatch[t]))
  /\ UNCHANGED <<cleanupFunctions, cleanupInProgress, cleanerPc, cleanerBatch, resetAfter,
                 registered, forgotten, guardVars>>

\* A function that throws is logged and counts as run.
RunCleanup(t) ==
  /\ cleanerPc[t] = "run" /\ cleanerBatch[t] # <<>>
  /\ cleanupsRun' = Append(cleanupsRun, Head(cleanerBatch[t]))
  /\ cleanerBatch' = [cleanerBatch EXCEPT ![t] = Tail(@)]
  /\ UNCHANGED <<cleanupFunctions, cleanupInProgress, cleanerPc, resetAfter, registered,
                 forgotten, guardVars>>

\* Fault: the queue is cleared after the batch and not before it.
EndClears(t) ==
  /\ cleanerPc[t] = "run" /\ cleanerBatch[t] = <<>>
  /\ cleanupInProgress' = FALSE /\ cleanupFunctions' = <<>>
  /\ cleanerPc' = [cleanerPc EXCEPT ![t] = IF resetAfter[t] THEN "clear" ELSE "idle"]
  /\ UNCHANGED <<cleanerBatch, resetAfter, registered, cleanupsRun, forgotten, guardVars>>

EndCleanup(t) ==
  /\ cleanerPc[t] = "run" /\ cleanerBatch[t] = <<>>
  /\ cleanupInProgress' = FALSE
  /\ cleanerPc' = [cleanerPc EXCEPT ![t] = IF resetAfter[t] THEN "clear" ELSE "idle"]
  /\ UNCHANGED <<cleanupFunctions, cleanerBatch, resetAfter, registered, cleanupsRun,
                 forgotten, guardVars>>

\* performCleanupAndReset() clears whatever has been registered since.
ClearFunctions(t) ==
  /\ cleanerPc[t] = "clear"
  /\ forgotten' = forgotten \cup ToSet(cleanupFunctions) /\ cleanupFunctions' = <<>>
  /\ cleanerPc' = [cleanerPc EXCEPT ![t] = "idle"]
  /\ UNCHANGED <<cleanupInProgress, cleanerBatch, resetAfter, registered, cleanupsRun, guardVars>>

-----------------------------------------------------------------------------
(* SocketGuard                                                              *)

\* Fault: a closed guard stays active.
CloseAgain(event) ==
  IF guardActive /\ guardFd >= 0
  THEN guardLog' = guardLog \o <<"closed", event>> /\ UNCHANGED <<guardFd, guardActive>>
  ELSE guardLog' = Append(guardLog, event) /\ UNCHANGED <<guardFd, guardActive>>

\* close(), which only an active guard of a real descriptor obeys.
CloseGuard(event) ==
  IF guardActive /\ guardFd >= 0
  THEN guardLog' = guardLog \o <<"closed", event>> /\ guardFd' = -1 /\ guardActive' = FALSE
  ELSE guardLog' = Append(guardLog, event) /\ UNCHANGED <<guardFd, guardActive>>

GuardCloses ==
  /\ Len(guardLog) < 3 /\ Last(<<"new">> \o guardLog) # "destroyed"
  /\ CloseGuard("close") /\ UNCHANGED managerVars

\* The destructor closes an active guard's descriptor.
GuardDestroyed ==
  /\ Last(<<"new">> \o guardLog) # "destroyed" /\ CloseGuard("destroyed")
  /\ UNCHANGED managerVars

GuardReleases ==
  /\ guardLog = <<>> /\ guardActive' = FALSE /\ guardLog' = <<"released">>
  /\ UNCHANGED <<guardFd, managerVars>>

CleanupNext ==
  \/ \E t \in Cleaners :
       \/ RegisterCleanup(t) \/ SwapFunctions(t) \/ RunCleanup(t)
       \/ EndCleanup(t) \/ ClearFunctions(t)
       \/ \E reset \in BOOLEAN : PerformCleanup(t, reset)
  \/ GuardCloses \/ GuardDestroyed \/ GuardReleases

CleanupSpec == CleanupInit /\ [][CleanupNext]_cleanupVars

-----------------------------------------------------------------------------
\* The manager's state keeps its types.
CleanupTypeOK ==
  /\ cleanerPc \in [Cleaners -> {"idle", "swap", "run", "clear"}]
  /\ cleanupInProgress \in BOOLEAN /\ guardFd \in {-1, 3} /\ guardActive \in BOOLEAN
  /\ forgotten \subseteq 1 .. MaxFunctions /\ Len(cleanupsRun) <= MaxFunctions

\* Only one thread cleans up, the flag says so while it does, and functions
\* run at most once and in the order of their registration, however many
\* threads ask for it.
OneCleanerInOrder ==
  /\ Cardinality({t \in Cleaners : cleanerPc[t] \in {"swap", "run"}}) =
       IF cleanupInProgress THEN 1 ELSE 0
  /\ \A i, j \in DOMAIN cleanupsRun : i < j => cleanupsRun[i] < cleanupsRun[j]

\* A function is not lost: it waits, is in the batch being run, has run, or
\* was cleared by a reset.
CleanupAccounted ==
  1 .. registered = ToSet(cleanupFunctions) \cup ToSet(cleanupsRun) \cup forgotten
                      \cup UNION {ToSet(cleanerBatch[t]) : t \in Cleaners}

\* A guard's descriptor is closed at most once, and has been when the guard is
\* gone, unless it was released before.
ClosedByGuard ==
  /\ Cardinality({i \in DOMAIN guardLog : guardLog[i] = "closed"}) <= 1
  /\ guardFd = 3 /\ Last(<<"new">> \o guardLog) = "destroyed" => guardLog[1] = "released"

\* performCleanupAndReset() runs every function it removes.  Violated: one
\* registered by a running clean-up function, or by another thread, or all of
\* them when another thread is already cleaning up, are cleared unrun.
NothingForgotten == forgotten = {}
=============================================================================
