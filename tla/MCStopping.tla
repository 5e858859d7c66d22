------------------------------ MODULE MCStopping ------------------------------
(***************************************************************************)
(* The components whose owner stops and joins a thread, side by side: the    *)
(* RTP transmitter, the SAP listener and the logger.  They share no state; a *)
(* behaviour runs one of them (unit) and leaves the others at their start.   *)
(***************************************************************************)
EXTENDS RTPTransmitter, SAPListener, NonBlockingLogger

VARIABLE unit

SapLine(k, v) == [key |-> k, value |-> v]
MCSapTexts ==
  {<<SapLine("v", "0"), SapLine("s", "A"), SapLine("c", "g1"), SapLine("m", "p1")>>,
   <<SapLine("v", "0"), SapLine("s", "A"), SapLine("m", "short"), SapLine("m", "p2")>>,
   <<SapLine("v", "0"), SapLine("c", "g2")>>,
   <<SapLine("v", "0"), SapLine("s", "B")>>,
   <<SapLine("s", "A")>>}
SapHeader(v, del, len, auth) ==
  [version |-> v, deletion |-> del, coded |-> FALSE, length |-> len, authLen |-> auth]
MCSapHeaders ==
  {SapHeader(1, FALSE, 200, 0), SapHeader(1, TRUE, 200, 0), SapHeader(1, FALSE, 200, 255),
   SapHeader(0, FALSE, 200, 0)}

stoppingVars == <<unit, txVars, sapVars, logVars>>

StoppingInit ==
  /\ unit \in {"transmitter", "sap", "logger"}
  /\ TxInit /\ (unit = "transmitter" \/ start = 0)
  /\ SapInit
  /\ LogInit /\ (unit = "logger" \/ minLogLevel = 0)

StoppingNext ==
  /\ UNCHANGED unit
  /\ \/ unit = "transmitter" /\ TxNext /\ UNCHANGED <<sapVars, logVars>>
     \/ unit = "sap" /\ SapNext /\ UNCHANGED <<txVars, logVars>>
     \/ unit = "logger" /\ LogNext /\ UNCHANGED <<txVars, sapVars>>

\* What does not run has no step that fairness could ask for: the threads of
\* a transmitter and a listener are started by their owners; only the
\* logger's runs from the beginning.
StoppingSpec ==
  /\ StoppingInit /\ [][StoppingNext]_stoppingVars
  /\ TxFairness /\ SapFairness /\ SapTraffic
  /\ WF_logVars(unit = "logger" /\ WriterStep)

\* The same without traffic on the group: the listener waits in recvfrom.
QuietSpec ==
  /\ StoppingInit /\ [][StoppingNext]_stoppingVars
  /\ TxFairness /\ SapFairness
  /\ WF_logVars(unit = "logger" /\ WriterStep)

\* TxStopReturns, SapStopReturns and WriterEnds: RTPTransmitter::stop(),
\* SAPListener::stop() and ~NonBlockingLogger return, whenever they are called.
EveryStopReturns == TxStopReturns /\ SapStopReturns /\ WriterEnds
=============================================================================
