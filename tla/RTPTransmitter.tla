--------------------------- MODULE RTPTransmitter ----------------------------
(***************************************************************************)
(* NetworkEngine/RTP/RTPTransmitter with the IO thread that feeds it          *)
(* (AES67IOHandler::OnWriteClientOutput): the IO thread writes every device   *)
(* channel's ring, the transmit thread reads those of its mapping and sends   *)
(* a packet per interval, and a control thread starts, stops and remaps.      *)
(***************************************************************************)
EXTENDS ChannelPath

CONSTANTS StreamChannels,    \* sdp_.numChannels
          TxSeqMod, TxTimeMod,  \* widths of the sequence number and timestamp
          MaxPackets         \* bound on the packets of one start()

ASSUME TxAssumption ==
  /\ StreamChannels \in 1 .. DeviceChannels
  /\ TxSeqMod \in Nat \ {0} /\ TxTimeMod \in Nat \ {0}

VARIABLES
  txRunning, txSocket,   \* running_, is the socket open
  txPc,                  \* transmit thread: "off", "sleep", "read"
  txCtl, remapTo,        \* control thread, and the mapping it is to set
  start,                 \* mapping_.deviceChannelStart
  sequence, timestamp,
  packets,               \* packets sent since start()
  remapped               \* history: has the mapping changed

txOwn == <<txRunning, txSocket, txPc, txCtl, remapTo, start, sequence, timestamp,
           packets, remapped>>
txVars == <<pathVars, txOwn>>

Starts == 0 .. DeviceChannels - StreamChannels

TxInit ==
  /\ PathInit
  /\ txRunning = FALSE /\ txSocket = FALSE /\ txPc = "off"
  /\ txCtl = "idle" /\ remapTo = 0 /\ start \in Starts
  /\ sequence = 0 /\ timestamp = 0 /\ packets = 0 /\ remapped = FALSE

-----------------------------------------------------------------------------
(* Control thread                                                           *)

\* Fault: the timestamp goes on where it was.
LaunchUnnumbered ==
  /\ txRunning' = TRUE /\ txSocket' = TRUE /\ txPc' = "sleep"
  /\ sequence' = 0 /\ packets' = 0 /\ UNCHANGED timestamp

\* start(): refuses while running or with a socket open; numbering restarts.
Launch ==
  /\ txRunning' = TRUE /\ txSocket' = TRUE /\ txPc' = "sleep"
  /\ sequence' = 0 /\ timestamp' = 0 /\ packets' = 0

TxStart ==
  /\ txCtl = "idle" /\ ~txRunning /\ ~txSocket
  /\ Launch
  /\ UNCHANGED <<pathVars, txCtl, remapTo, start, remapped>>

\* Fault: the socket is closed before the thread is joined.
CloseThenJoin ==
  /\ txCtl = "idle" /\ txRunning
  /\ txRunning' = FALSE /\ txCtl' = "join" /\ txSocket' = FALSE
  /\ UNCHANGED <<pathVars, txPc, remapTo, start, sequence, timestamp, packets, remapped>>

TxStop ==
  /\ txCtl = "idle" /\ txRunning
  /\ txRunning' = FALSE /\ txCtl' = "join"
  /\ UNCHANGED <<pathVars, txSocket, txPc, remapTo, start, sequence, timestamp,
                 packets, remapped>>

\* updateMapping() on a stopped transmitter, or the stop() inside it.
UpdateMapping(s) ==
  /\ txCtl = "idle" /\ s # start
  /\ IF txRunning THEN txRunning' = FALSE /\ txCtl' = "joinRemap" /\ remapTo' = s /\ UNCHANGED <<start, remapped>>
     ELSE start' = s /\ remapped' = TRUE /\ UNCHANGED <<txRunning, txCtl, remapTo>>
  /\ UNCHANGED <<pathVars, txSocket, txPc, sequence, timestamp, packets>>

\* The join returns and the socket is closed; updateMapping then sets the
\* mapping and calls start(), which may find no socket.
TxJoin ==
  /\ txCtl \in {"join", "joinRemap"} /\ txPc = "off" /\ txCtl' = "idle"
  /\ remapped' = (remapped \/ txCtl = "joinRemap")
  /\ \/ /\ txCtl = "joinRemap" /\ start' = remapTo /\ Launch
     \/ /\ txSocket' = FALSE
        /\ start' = IF txCtl = "joinRemap" THEN remapTo ELSE start
        /\ UNCHANGED <<txRunning, txPc, sequence, timestamp, packets>>
  /\ UNCHANGED <<pathVars, remapTo>>

-----------------------------------------------------------------------------
(* Transmit thread                                                          *)

\* Fault: the thread only ends once it has sent a packet.
TxExitIdle ==
  /\ txPc = "sleep" /\ ~txRunning /\ packets > 0 /\ txPc' = "off"
  /\ UNCHANGED <<pathVars, txRunning, txSocket, txCtl, remapTo, start, sequence,
                 timestamp, packets, remapped>>

TxExit ==
  /\ txPc = "sleep" /\ ~txRunning /\ txPc' = "off"
  /\ UNCHANGED <<pathVars, txRunning, txSocket, txCtl, remapTo, start, sequence,
                 timestamp, packets, remapped>>

TxWake ==
  /\ txPc = "sleep" /\ txRunning /\ packets < MaxPackets
  /\ BeginRead /\ txPc' = "read"
  /\ UNCHANGED <<txRunning, txSocket, txCtl, remapTo, start, sequence, timestamp,
                 packets, remapped>>

TxRead == txPc = "read" /\ ReadNext(start, StreamChannels) /\ UNCHANGED txOwn

\* Fault: the sequence number does not wrap.
OverCountingSend ==
  /\ txPc = "read" /\ rChan = StreamChannels
  /\ rChan' = -1 /\ txPc' = "sleep"
  /\ sequence' = sequence + 1
  /\ timestamp' = (timestamp + ReadFrames) % TxTimeMod
  /\ packets' = packets + 1
  /\ UNCHANGED <<ring, audio, clean, rShort, underruns, producerVars,
                 txRunning, txSocket, txCtl, remapTo, start, remapped>>

\* Encodes and sends, also what is only silence; the numbers move on whether
\* or not sendmsg() succeeded.
TxSend ==
  /\ txPc = "read" /\ rChan = StreamChannels
  /\ rChan' = -1 /\ txPc' = "sleep"
  /\ sequence' = (sequence + 1) % TxSeqMod
  /\ timestamp' = (timestamp + ReadFrames) % TxTimeMod
  /\ packets' = packets + 1
  /\ UNCHANGED <<ring, audio, clean, rShort, underruns, producerVars,
                 txRunning, txSocket, txCtl, remapTo, start, remapped>>

-----------------------------------------------------------------------------
(* IO thread: OnWriteClientOutput, all the device channels                  *)

IoWrite ==
  /\ BeginWrite \/ WriteNext(0, DeviceChannels) \/ EndWrite(DeviceChannels)
  /\ UNCHANGED txOwn

TxThread == TxExit \/ TxWake \/ TxRead \/ TxSend

TxNext ==
  \/ TxStart \/ TxStop \/ TxJoin \/ (\E s \in Starts : UpdateMapping(s))
  \/ TxThread \/ IoWrite

\* The transmit thread wakes up every millisecond, and a join returns once
\* the thread has ended.
TxFairness == WF_txVars(TxThread) /\ WF_txVars(TxJoin)

TxSpec == TxInit /\ [][TxNext]_txVars
TxFairSpec == TxSpec /\ TxFairness

-----------------------------------------------------------------------------
\* The transmitter's state keeps its types.
TxTypeOK ==
  /\ PathTypeOK
  /\ txRunning \in BOOLEAN /\ txSocket \in BOOLEAN
  /\ txPc \in {"off", "sleep", "read"}
  /\ txCtl \in {"idle", "join", "joinRemap"}
  /\ remapTo \in Starts /\ start \in Starts
  /\ sequence \in 0 .. TxSeqMod - 1 /\ timestamp \in 0 .. TxTimeMod - 1

\* As long as the mapping stands, the channels of one packet carry the same
\* frames unless a ring was short, however the two loops overtake each other.
TxAligned == rChan = StreamChannels /\ ~remapped => AlignedWhileClean(start)

\* Also after updateMapping(): it does not drain the rings, so a channel that
\* was transmitted before and one that was not are read at different frames.
RemapKeepsAlignment == rChan = StreamChannels => AlignedWhileClean(start)

\* The numbers of a packet count the packets and frames since start(), for
\* every packet, sent or not, across both wraps and across a remapping.
NumbersCountPackets ==
  /\ sequence = packets % TxSeqMod
  /\ timestamp = (packets * ReadFrames) % TxTimeMod

\* The thread never outlives its socket, and at most one thread transmits:
\* stop() closes the socket only after the join.
SocketCoversThread == txPc # "off" => txSocket

\* stop(), and updateMapping(), return.
TxStopReturns == txCtl # "idle" ~> txCtl = "idle"

\* "Increment output overrun counter (call when ring buffer write returns
\* fewer samples than provided)" (RTSafeStreamInterface.h:100), for audio the
\* network engine was to read: a channel nobody transmits is not an overrun.
OverrunMeansLoss ==
  overruns > 0 => \E c \in start .. start + StreamChannels - 1 : ~clean[c]

\* The transmitter's threads, socket, packets and rings agree.
TxSafe == TxTypeOK /\ TxAligned /\ NumbersCountPackets /\ SocketCoversThread
=============================================================================
