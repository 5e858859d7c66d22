---------------------------- MODULE PTPInterface -----------------------------
(***************************************************************************)
(* NetworkEngine/PTP/PTPDInterface and PTPClock's control: the clock of one  *)
(* domain owns an interface, which owns a PTPSlave or falls back to stub     *)
(* mode.  The slave's receive thread pushes measurements through a callback; *)
(* the owner's thread starts, stops and moves the clock to another network   *)
(* interface.  PTPClockManager hands out one clock per domain.               *)
(*                                                                          *)
(* The slave is its lock and whether its threads run (modules PTPSlave and   *)
(* PTPServo have the rest).                                                  *)
(***************************************************************************)
EXTENDS Integers

CONSTANT Nics        \* network interfaces

VARIABLES
  listed,            \* the manager holds a clock for the domain
  ptpEnabled,        \* PTPClockManager::globalEnabled_
  clockRunning, nic, \* PTPClock
  ifRunning, stubMode, ifLocked, connected, classTraceable, \* PTPDInterface
  slaveRunning, slaveLocked, \* PTPSlave
  stopPc, stopFor    \* how far a stop() has come, and what called it

slaveSide == <<slaveRunning, slaveLocked>>
interfaceVars == <<ifRunning, stubMode, ifLocked, connected, classTraceable>>
ptpIfVars == <<listed, ptpEnabled, clockRunning, nic, interfaceVars, slaveSide, stopPc, stopFor>>

PtpIfInit ==
  /\ listed = FALSE /\ ptpEnabled = TRUE
  /\ clockRunning = FALSE /\ nic \in Nics
  /\ ifRunning = FALSE /\ stubMode = FALSE /\ ifLocked = FALSE
  /\ connected = FALSE /\ classTraceable = FALSE
  /\ slaveRunning = FALSE /\ slaveLocked = FALSE
  /\ stopPc = "none" /\ stopFor = "remove"

\* PTPDInterface::start(): a slave that cannot open its sockets leaves the
\* interface in stub mode for good; the interface counts as connected.
StartInterface(socketsOpen) ==
  IF ifRunning THEN UNCHANGED <<interfaceVars, slaveSide>>
  ELSE /\ ifRunning' = TRUE /\ connected' = TRUE
       /\ stubMode' = (stubMode \/ ~socketsOpen)
       /\ ifLocked' = (ifLocked /\ ~stubMode')
       /\ classTraceable' = (classTraceable /\ ~stubMode')
       /\ slaveRunning' = (slaveRunning \/ ~stubMode')
       /\ slaveLocked' = (slaveLocked /\ stubMode')

\* PTPClockManager::getClockForDomain makes and starts the domain's clock.
GetClock ==
  /\ stopPc = "none" /\ ~listed
  /\ listed' = TRUE /\ clockRunning' = TRUE
  /\ \E ok \in BOOLEAN : StartInterface(ok)
  /\ UNCHANGED <<ptpEnabled, nic, stopPc, stopFor>>

\* stop(), in its steps: the flags first, then the slave's threads are
\* joined, and only then is the lock cleared.
StopClock ==
  /\ stopPc = "none" /\ listed
  /\ stopPc' = "join" /\ stopFor' \in {"remove", "move"}
  /\ clockRunning' = FALSE /\ ifRunning' = FALSE
  /\ UNCHANGED <<listed, ptpEnabled, nic, stubMode, ifLocked, connected,
                 classTraceable, slaveSide>>

\* Fault: the slave's threads are not joined.
DetachSlave ==
  /\ stopPc = "join" /\ stopPc' = "clear"
  /\ UNCHANGED <<stopFor, listed, ptpEnabled, clockRunning, nic, interfaceVars, slaveSide>>

JoinSlave ==
  /\ stopPc = "join" /\ stopPc' = "clear"
  /\ slaveRunning' = FALSE /\ slaveLocked' = FALSE
  /\ UNCHANGED <<stopFor, listed, ptpEnabled, clockRunning, nic, interfaceVars>>

ClearLock ==
  /\ stopPc = "clear" /\ stopPc' = "done"
  /\ ifLocked' = FALSE /\ connected' = FALSE
  /\ UNCHANGED <<stopFor, listed, ptpEnabled, clockRunning, nic, ifRunning, stubMode,
                 classTraceable, slaveSide>>

\* removeClock: the clock is dropped with its interface and its slave.
RemoveClock ==
  /\ stopPc = "done" /\ stopFor = "remove" /\ stopPc' = "none"
  /\ listed' = FALSE /\ stubMode' = FALSE /\ ifLocked' = FALSE
  /\ classTraceable' = FALSE
  /\ UNCHANGED <<stopFor, ptpEnabled, clockRunning, nic, ifRunning, connected, slaveSide>>

\* Fault: the clock does not count as running after a move.
MoveIdle(n) ==
  /\ stopPc = "done" /\ stopFor = "move" /\ stopPc' = "none"
  /\ nic' = n
  /\ \E ok \in BOOLEAN : StartInterface(ok)
  /\ UNCHANGED <<stopFor, listed, ptpEnabled, clockRunning>>

\* setNetworkInterface on an active interface: stop, init, start.  init makes
\* a new slave, or returns at once in stub mode; the clock was running.
SetNetworkInterface(n) ==
  /\ stopPc = "done" /\ stopFor = "move" /\ stopPc' = "none"
  /\ nic' = n /\ clockRunning' = TRUE
  /\ \E ok \in BOOLEAN : StartInterface(ok)
  /\ UNCHANGED <<stopFor, listed, ptpEnabled>>

SetPtpEnabled ==
  /\ ptpEnabled' = ~ptpEnabled
  /\ UNCHANGED <<listed, clockRunning, nic, interfaceVars, slaveSide, stopPc, stopFor>>

-----------------------------------------------------------------------------
(* The slave's receive thread                                               *)

\* calculateOffsetAndDelay sets the slave's lock and calls onPTPMeasurement,
\* which copies it: the only way the lock reaches the interface.
Measurement(nowLocked) ==
  /\ slaveRunning
  /\ slaveLocked' = nowLocked /\ ifLocked' = nowLocked /\ classTraceable' = TRUE
  /\ UNCHANGED <<listed, ptpEnabled, clockRunning, nic, ifRunning, stubMode,
                 connected, slaveRunning, stopPc, stopFor>>

\* The announce timeout, or a switch to a better master, resets the slave's
\* lock and calls nobody.
SlaveLosesMaster ==
  /\ slaveRunning /\ slaveLocked /\ slaveLocked' = FALSE
  /\ UNCHANGED <<listed, ptpEnabled, clockRunning, nic, interfaceVars,
                 slaveRunning, stopPc, stopFor>>

PtpIfNext ==
  \/ GetClock \/ StopClock
  \/ JoinSlave \/ ClearLock \/ RemoveClock
  \/ \E n \in Nics : SetNetworkInterface(n)
  \/ SetPtpEnabled
  \/ \E l \in BOOLEAN : Measurement(l)
  \/ SlaveLosesMaster

PtpIfSpec == PtpIfInit /\ [][PtpIfNext]_ptpIfVars

-----------------------------------------------------------------------------
\* getTimeForDomain, and the offset PTPClock::getTime adds.
TimeSource ==
  IF ptpEnabled /\ listed /\ ifLocked THEN "ptp" ELSE "local"

\* No clock runs on PTP time that has no slave behind it: not in stub mode,
\* not after stop() has returned, not for a removed domain, whatever
\* measurement the receive thread delivers while the owner stops it.
NoTimeWithoutSlave == TimeSource = "ptp" /\ stopPc = "none" => slaveRunning /\ ~stubMode

\* Stub mode and a running slave exclude each other, and a clock the manager
\* lists runs together with its interface whenever no call is under way.
StubHasNoSlave ==
  /\ stubMode => ~slaveRunning /\ ~ifLocked /\ ~classTraceable
  /\ stopPc = "none" => (listed <=> clockRunning) /\ (clockRunning <=> ifRunning)

\* "Lock state is determined by PTPSlave" (PTPDInterface.cpp:161): the
\* interface, and with it PTPClock::isLocked and getTime, never counts as
\* locked while the slave has lost its lock.
LockIsTheSlaves == ifLocked => slaveLocked
=============================================================================
