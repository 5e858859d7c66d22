----------------------------- MODULE DeviceInput -----------------------------
(***************************************************************************)
(* The input direction: the receiver's consume thread writes a packet's      *)
(* channels into the device rings (RTPReceiver::mapChannelsToDevice) and the *)
(* Core Audio IO thread reads every device channel                           *)
(* (AES67IOHandler::OnReadClientInput).                                      *)
(***************************************************************************)
EXTENDS ChannelPath

CONSTANTS MapStart, MapChannels   \* the receiver's mapping

ASSUME DeviceInputAssumption ==
  /\ MapStart \in Nat /\ MapChannels \in Nat \ {0}

InInit == PathInit

\* mapChannelsToDevice drops the packet of a mapping that leaves the device.
MapChannels_OK == MapStart + MapChannels <= DeviceChannels

MapChannelsToDevice ==
  /\ MapChannels_OK
  /\ BeginWrite \/ WriteNext(MapStart, MapChannels) \/ EndWrite(MapChannels)

\* OnReadClientInput reads all the channels; the ones no stream is mapped to
\* are short in every call.
ProcessInput ==
  \/ BeginRead
  \/ ReadNext(0, DeviceChannels)
  \/ /\ rChan = DeviceChannels /\ rChan' = -1
     /\ UNCHANGED <<ring, audio, clean, rShort, underruns, producerVars>>

InNext == MapChannelsToDevice \/ ProcessInput

InSpec == InInit /\ [][InNext]_pathVars

-----------------------------------------------------------------------------
\* The channels of one stream reach Core Audio in step unless a ring was short.
InputAligned == rChan = DeviceChannels => AlignedWhileClean(0)

\* What shifts a stream's channels apart is counted: by the IO thread as an
\* input underrun or by the receiver as one of its own.
ShiftIsCounted ==
  (\E c \in Device : ~clean[c]) => overruns + underruns > 0

\* The channels of a stream reach Core Audio in order and aligned, or the shift is
\* counted.
InputSafe == PathTypeOK /\ InputAligned /\ ShiftIsCounted /\ RingsInOrder
=============================================================================
