------------------------------ MODULE MCServices ------------------------------
(***************************************************************************)
(* The components that share no state with one another, side by side: a      *)
(* behaviour runs one of them (unit) and leaves the others in their initial  *)
(* state.  As none reads another's variables, every interleaving of all of   *)
(* them shows in each component one of these behaviours.                     *)
(***************************************************************************)
EXTENDS PTPServo, PTPInterface, MediaClock, RTSPClient, RTPSocket, AudioWire,
        ReceiverStats, DeviceInput, SDPParser, StreamConfigFile, LockFreePacketPool,
        ResourceCleanupManager, NetworkErrorHandler,
        ErrorRecoveryManager, BufferStatusMonitor, DoPDecoder

VARIABLE unit

\* Instances: what the components are given.
MCServoOffsets == {-3, 0, 4}
MCClockErrors == {0, 1, 3}

SdpBase == [Default EXCEPT !.name = "n", !.group = "g", !.origin = "o", !.from = "f"]
MCSessions ==
  {SdpBase, [SdpBase EXCEPT !.ttl = 0, !.domain = 1, !.mac = "m"],
   [SdpBase EXCEPT !.ttl = 7, !.encoding = "AM824", !.custom = {"k", "l"}, !.domain = -1],
   CreateDefaultTxSession("t", "f", "h", 1, 8, 96000, "L16"),
   [SdpBase EXCEPT !.name = ""]}
MCTexts == {"", "n", "g", "o", "f", "m", "t", "h", "k", "l", "L16", "L24", "AM824",
            "Unknown", "sendonly", "recvonly"}
MCForeignLines ==
  {Line("m", "", 65536, 97), Line("m", "", Junk, 97), Line("c", "h", 256, 0),
   Line("rtpmap", "L16", Absent, 44100), Line("ts-refclk", "m", Huge, 0),
   Line("ts-refclk", "m", 1, 0), Line("custom", "k", 0, 0)}

MCSamples == {-60, -1, 17, 50}
WireBytes == {0, 127, 128, 255}
MCWords == {<<a, b>> : a \in WireBytes, b \in {0, 255}}
           \cup {<<a, b, 1>> : a \in WireBytes, b \in {0, 255}}

MCChars == {"n", "m", "\"", "\\", "]", "}"}
MCNames == {<<"n">>, <<"\"", "n">>, <<"n", "]">>, <<"}">>, <<"m", "\\">>}

timingVars  == <<servoVars, ptpIfVars, clockVars>>
networkVars == <<rtspVars, socketVars>>
mediaVars   == <<wireVars, statsVars, pathVars, dopVars>>
fileVars    == <<sdpVars, configVars>>
sharedVars  == <<poolVars, cleanupVars>>
errorVars   == <<handlerVars, recoveryVars, monitorVars>>
serviceVars == <<unit, timingVars, networkVars, mediaVars, fileVars, sharedVars, errorVars>>

Units == {"servo", "ptpInterface", "mediaClock", "rtsp", "socket", "wire", "stats",
          "input", "dop", "sdp", "config", "pool", "cleanup", "handler",
          "recovery", "monitor"}

\* A component that starts in one of several states is in all of them only
\* when it is the one that runs.
Settled(u, default) == unit = u \/ default

ServicesInit ==
  /\ unit \in Units
  /\ ServoInit /\ PtpIfInit /\ Settled("ptpInterface", nic = 1) /\ ClockInit
  /\ RtspInit /\ SocketInit
  /\ WireInit /\ Settled("wire", bytes = 2)
  /\ StatsInit /\ Settled("stats", firstNumber = 0) /\ InInit /\ DoPInit
  /\ SdpInit /\ Settled("sdp", session = SdpBase) /\ ConfigInit
  /\ PoolInit
  /\ CleanupInit /\ Settled("cleanup", guardFd = 3)
  /\ HandlerInit /\ RecoveryInit /\ MonitorInit /\ Settled("monitor", bufferSize = 0)

Timing ==
  \/ unit = "servo" /\ ServoNext /\ UNCHANGED <<ptpIfVars, clockVars>>
  \/ unit = "ptpInterface" /\ PtpIfNext /\ UNCHANGED <<servoVars, clockVars>>
  \/ unit = "mediaClock" /\ ClockNext /\ UNCHANGED <<servoVars, ptpIfVars>>

Network ==
  \/ unit = "rtsp" /\ RtspNext /\ UNCHANGED socketVars
  \/ unit = "socket" /\ SocketNext /\ UNCHANGED rtspVars

Media ==
  \/ unit = "wire" /\ WireNext /\ UNCHANGED <<statsVars, pathVars, dopVars>>
  \/ unit = "stats" /\ StatsNext /\ UNCHANGED <<wireVars, pathVars, dopVars>>
  \/ unit = "input" /\ InNext /\ UNCHANGED <<wireVars, statsVars, dopVars>>
  \/ unit = "dop" /\ DoPNext /\ UNCHANGED <<wireVars, statsVars, pathVars>>

Files ==
  \/ unit = "sdp" /\ SdpNext /\ UNCHANGED configVars
  \/ unit = "config" /\ ConfigNext /\ UNCHANGED sdpVars

Shared ==
  \/ unit = "pool" /\ PoolNextStep /\ UNCHANGED cleanupVars
  \/ unit = "cleanup" /\ CleanupNext /\ UNCHANGED poolVars

Errors ==
  \/ unit = "handler" /\ HandlerNext /\ UNCHANGED <<recoveryVars, monitorVars>>
  \/ unit = "recovery" /\ RecoveryNext /\ UNCHANGED <<handlerVars, monitorVars>>
  \/ unit = "monitor" /\ MonitorNext /\ UNCHANGED <<handlerVars, recoveryVars>>

ServicesNext ==
  /\ UNCHANGED unit
  /\ \/ Timing /\ UNCHANGED <<networkVars, mediaVars, fileVars, sharedVars, errorVars>>
     \/ Network /\ UNCHANGED <<timingVars, mediaVars, fileVars, sharedVars, errorVars>>
     \/ Media /\ UNCHANGED <<timingVars, networkVars, fileVars, sharedVars, errorVars>>
     \/ Files /\ UNCHANGED <<timingVars, networkVars, mediaVars, sharedVars, errorVars>>
     \/ Shared /\ UNCHANGED <<timingVars, networkVars, mediaVars, fileVars, errorVars>>
     \/ Errors /\ UNCHANGED <<timingVars, networkVars, mediaVars, fileVars, sharedVars>>

ServicesSpec == ServicesInit /\ [][ServicesNext]_serviceVars

\* PTPServo: an average is within its history, however long that has run.
FilterSafe == ServoTypeOK /\ FilterWithinHistory

\* PTPClock and PTPDInterface: a media-clock lock is earned and a refusal lasts,
\* references belong together, presentation times are exact over the wrap of the
\* RTP timestamp, and there is no clock without the slave it reads.
TimingConsistent ==
  /\ MediaClockSafe
  /\ ClockTypeOK /\ ReferencesAgree /\ PresentationExact
  /\ NoTimeWithoutSlave /\ StubHasNoSlave

\* RTSPClient and RTPSocket: an answer is late by the time-outs before it, a session
\* is one the server knows, descriptors and memberships end with their socket.
ConnectionsSafe ==
  /\ RtspTypeOK /\ AnswersLagByTimeouts /\ SessionIsLive
  /\ SocketTypeOK /\ NoDescriptorLeaks /\ MembershipMatches

\* RTPTransmitter's encoders, RTPReceiver's decoders, SimpleRTP's codecs and
\* DoPDecoder: what is heard is what was sent, whoever decodes it, from any frame on.
CodingSafe ==
  WireTypeOK /\ HeardIsSent /\ DecodersAgree /\ DoPTypeOK /\ JoinAnywhere

\* RTPReceiver::updateStats and BufferStatusMonitor: what is counted happened, and
\* what happened is counted, up to the hysteresis.
CountingSafe ==
  /\ StatsTypeOK /\ LostExact /\ NeverUndercounts
  /\ MonitorTypeOK /\ EventsCounted /\ MissedOnlyWithinPeriod

\* ResourceCleanupManager, NetworkErrorHandler and ErrorRecoveryManager: every
\* function is run once, waits, or was dropped by a reset; recoveries keep apart.
ErrorHandlingSafe ==
  /\ CleanupTypeOK /\ OneCleanerInOrder /\ CleanupAccounted /\ ClosedByGuard
  /\ HandlerTypeOK /\ RecoveriesSpaced
  /\ RecoveryTypeOK /\ AttemptsSpacedAndBounded
=============================================================================
