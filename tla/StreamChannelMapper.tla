------------------------- MODULE StreamChannelMapper -------------------------
(***************************************************************************)
(* NetworkEngine/StreamChannelMapper: which stream owns which channel of the *)
(* device.  Every operation runs under the mapper's mutex, so each is one    *)
(* action; an operation that fails changes nothing and is no action.         *)
(*                                                                          *)
(* channelMap is the set of device channels a custom map names, empty for a   *)
(* sequential mapping; which stream channel goes where is left out.          *)
(***************************************************************************)
EXTENDS Integers, FiniteSets

CONSTANTS Streams,           \* stream ids
          NoStream,          \* StreamID::null()
          MaxDeviceChannels, \* kMaxDeviceChannels
          MaxCount,          \* largest channel count of a stream
          CustomMaps         \* sets of channels custom maps name, {} for none

ASSUME MapperAssumption ==
  /\ NoStream \notin Streams
  /\ MaxDeviceChannels \in Nat \ {0} /\ MaxCount \in Nat \ {0}
  /\ {} \in CustomMaps /\ CustomMaps \subseteq SUBSET (0 .. MaxDeviceChannels - 1)

VARIABLES mappings,   \* mappings_: the mapping of each stream that has one
          owners      \* deviceChannelOwners_

mapperVars == <<mappings, owners>>

Channels == 0 .. MaxDeviceChannels - 1

Mapping == [streamID : Streams, streamChannelCount : 1 .. MaxCount,
            deviceChannelStart : Channels, deviceChannelCount : 1 .. MaxCount,
            channelMap : CustomMaps]

\* The channels a mapping asks for in start, count form, and those it names.
RangeOf(m) == m.deviceChannelStart .. m.deviceChannelStart + m.deviceChannelCount - 1
ChannelsOf(m) == IF m.channelMap = {} THEN RangeOf(m) ELSE m.channelMap

\* getValidationError() is empty.  A custom map has an entry per stream channel;
\* entries may repeat or name no channel of the device.
IsValid(m) ==
  /\ m.streamChannelCount > 0 /\ m.deviceChannelCount > 0
  /\ m.deviceChannelStart < MaxDeviceChannels
  /\ m.deviceChannelStart + m.deviceChannelCount <= MaxDeviceChannels
  /\ Cardinality(m.channelMap) <= m.streamChannelCount

\* isOverlapWithStream: it looks at start and count only.
IsOverlapWithStream(m, exclude) ==
  \E c \in RangeOf(m) : owners[c] \notin {NoStream, exclude}

Accepts(m, exclude) == IsValid(m) /\ ~IsOverlapWithStream(m, exclude)

\* Fault: the channels of the old mapping are not given back.
FaultyCleared(s) == owners

Cleared(s) == [c \in Channels |-> IF owners[c] = s THEN NoStream ELSE owners[c]]

Owned(m, before) == [c \in Channels |-> IF c \in ChannelsOf(m) THEN m.streamID ELSE before[c]]

MapperInit ==
  /\ mappings = [s \in {} |-> NoStream]
  /\ owners = [c \in Channels |-> NoStream]

With(m) == [s \in DOMAIN mappings \cup {m.streamID} |->
              IF s = m.streamID THEN m ELSE mappings[s]]

AddMapping(m) ==
  /\ Accepts(m, NoStream)
  /\ mappings' = With(m)
  /\ owners' = Owned(m, owners)

\* Fault: the channels are given back, the mapping stays.
FaultyRemoveMapping(s) ==
  /\ s \in DOMAIN mappings
  /\ owners' = Cleared(s)
  /\ UNCHANGED mappings

RemoveMapping(s) ==
  /\ s \in DOMAIN mappings
  /\ mappings' = [t \in DOMAIN mappings \ {s} |-> mappings[t]]
  /\ owners' = Cleared(s)

\* Fault: an update is checked like a range of its own, not against others.
FaultyUpdateMapping(m) ==
  /\ IsValid(m)
  /\ mappings' = With(m)
  /\ owners' = Owned(m, Cleared(m.streamID))

UpdateMapping(m) ==
  /\ Accepts(m, m.streamID)
  /\ mappings' = With(m)
  /\ owners' = Owned(m, Cleared(m.streamID))

ClearAll ==
  /\ mappings' = [s \in {} |-> NoStream]
  /\ owners' = [c \in Channels |-> NoStream]

\* findContiguousBlock: the first run of count unowned channels, a set of at
\* most one start.
FreeAt(start, count) ==
  /\ start + count <= MaxDeviceChannels
  /\ \A c \in start .. start + count - 1 : owners[c] = NoStream

FindContiguousBlock(count) ==
  {start \in Channels : FreeAt(start, count) /\ \A c \in 0 .. start - 1 : ~FreeAt(c, count)}

AvailableChannelCount == Cardinality({c \in Channels : owners[c] = NoStream})

\* The mapper by itself: a stream is added once (the manager's ids are fresh).
MapperNext ==
  \/ \E m \in Mapping : m.streamID \notin DOMAIN mappings /\ AddMapping(m)
  \/ \E m \in Mapping : m.streamID \in DOMAIN mappings /\ UpdateMapping(m)
  \/ \E s \in Streams : RemoveMapping(s)
  \/ ClearAll

MapperSpec == MapperInit /\ [][MapperNext]_mapperVars

-----------------------------------------------------------------------------
(* Properties                                                               *)

\* owners and mappings hold the same assignment twice: a channel is owned by a
\* stream exactly while that stream's mapping contains it (367-394), so that
\* nothing leaks when mappings are moved or removed.
OwnersMatchMappings ==
  \A c \in Channels, s \in Streams :
    owners[c] = s <=> s \in DOMAIN mappings /\ c \in ChannelsOf(mappings[s])

\* "Prevents channel overlaps" (StreamChannelMapper.h 34, 47): no two streams
\* have a device channel in common, whatever order of calls led here.
NoOverlap ==
  \A s, t \in DOMAIN mappings :
    s # t => ChannelsOf(mappings[s]) \cap ChannelsOf(mappings[t]) = {}
=============================================================================
