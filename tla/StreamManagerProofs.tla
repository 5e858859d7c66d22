------------------------- MODULE StreamManagerProofs -------------------------
(***************************************************************************)
(* For any number of streams, device channels and rates: when every mapping   *)
(* is sequential and gives a stream as many device channels as it has, the     *)
(* manager, the mapper and the running streams agree, no two receivers (or     *)
(* transmitters) touch the same ring buffer, and the rates match.              *)
(***************************************************************************)
EXTENDS AES67Device, TLAPS

-----------------------------------------------------------------------------
(* The channel mapper on its own                                            *)

\* Mappings are sequential.
SequentialOnly == CustomMaps = {{}}

MapperInv ==
  /\ owners \in [Channels -> Streams \cup {NoStream}]
  /\ DOMAIN mappings \subseteq Streams
  /\ mappings \in [DOMAIN mappings -> Mapping]
  /\ \A s \in DOMAIN mappings : IsValid(mappings[s])
  /\ OwnersMatchMappings

\* A sequential mapping that is valid stays inside the device.
LEMMA RangeInside ==
  ASSUME SequentialOnly, NEW m \in Mapping, IsValid(m)
  PROVE  ChannelsOf(m) = RangeOf(m) /\ ChannelsOf(m) \subseteq Channels
<1>1. m.channelMap = {} /\ m.deviceChannelStart \in Nat /\ m.deviceChannelCount \in Nat
  BY DEF SequentialOnly, Mapping, Channels
<1> QED
  BY <1>1, MapperAssumption DEF ChannelsOf, RangeOf, Channels, IsValid

\* A mapping accepted for a stream meets only channels that are unowned or the
\* stream's own.
LEMMA AcceptedIsFree ==
  ASSUME SequentialOnly, NEW m \in Mapping, NEW exclude, Accepts(m, exclude)
  PROVE  \A c \in ChannelsOf(m) : owners[c] \in {NoStream, exclude}
  BY RangeInside DEF Accepts, IsOverlapWithStream

LEMMA AddKeeps ==
  ASSUME SequentialOnly, MapperInv,
         NEW m \in Mapping, m.streamID \notin DOMAIN mappings, AddMapping(m)
  PROVE  MapperInv'
<1>1. /\ IsValid(m) /\ m.streamID \in Streams
      /\ \A c \in ChannelsOf(m) : owners[c] = NoStream
  BY AcceptedIsFree DEF AddMapping, Accepts, Mapping
<1>2. /\ DOMAIN mappings' = DOMAIN mappings \cup {m.streamID}
      /\ mappings'[m.streamID] = m
      /\ \A s \in DOMAIN mappings : mappings'[s] = mappings[s]
  BY DEF AddMapping, With, MapperInv
<1>3. /\ owners' \in [Channels -> Streams \cup {NoStream}]
      /\ \A c \in Channels :
           owners'[c] = IF c \in ChannelsOf(m) THEN m.streamID ELSE owners[c]
  BY <1>1 DEF AddMapping, Owned, MapperInv
<1>4. OwnersMatchMappings'
  <2> SUFFICES ASSUME NEW c \in Channels, NEW s \in Streams
               PROVE  owners'[c] = s <=> s \in DOMAIN mappings' /\ c \in ChannelsOf(mappings'[s])
    BY DEF OwnersMatchMappings, Channels, ChannelsOf, RangeOf
  <2>1. CASE s = m.streamID
    BY <2>1, <1>1, <1>2, <1>3 DEF MapperInv, OwnersMatchMappings
  <2>2. CASE s # m.streamID
    BY <2>2, <1>1, <1>2, <1>3, MapperAssumption DEF MapperInv, OwnersMatchMappings
  <2> QED BY <2>1, <2>2
<1>5. mappings' \in [DOMAIN mappings' -> Mapping]
  BY <1>2 DEF AddMapping, With, MapperInv
<1>6. \A s \in DOMAIN mappings' : IsValid(mappings'[s])
  BY <1>1, <1>2 DEF MapperInv
<1> QED BY <1>1, <1>2, <1>3, <1>4, <1>5, <1>6 DEF MapperInv, Mapping, IsValid, Channels

LEMMA ClearedOwners ==
  ASSUME MapperInv, NEW t \in Streams
  PROVE  /\ Cleared(t) \in [Channels -> Streams \cup {NoStream}]
         /\ \A c \in Channels : Cleared(t)[c] # t
         /\ \A c \in Channels, s \in Streams \ {t} : Cleared(t)[c] = s <=> owners[c] = s
  BY MapperAssumption DEF Cleared, MapperInv

LEMMA UpdateKeeps ==
  ASSUME SequentialOnly, MapperInv,
         NEW m \in Mapping, m.streamID \in DOMAIN mappings, UpdateMapping(m)
  PROVE  MapperInv'
<1>1. /\ IsValid(m) /\ m.streamID \in Streams
      /\ \A c \in ChannelsOf(m) : owners[c] \in {NoStream, m.streamID}
  BY AcceptedIsFree DEF UpdateMapping, Accepts, Mapping
<1>2. /\ DOMAIN mappings' = DOMAIN mappings
      /\ mappings'[m.streamID] = m
      /\ \A s \in DOMAIN mappings : s # m.streamID => mappings'[s] = mappings[s]
  BY DEF UpdateMapping, With
<1>3. /\ owners' \in [Channels -> Streams \cup {NoStream}]
      /\ \A c \in Channels :
           owners'[c] = IF c \in ChannelsOf(m) THEN m.streamID ELSE Cleared(m.streamID)[c]
  BY <1>1, ClearedOwners DEF UpdateMapping, Owned
<1>4. OwnersMatchMappings'
  <2> SUFFICES ASSUME NEW c \in Channels, NEW s \in Streams
               PROVE  owners'[c] = s <=> s \in DOMAIN mappings' /\ c \in ChannelsOf(mappings'[s])
    BY DEF OwnersMatchMappings, Channels, ChannelsOf, RangeOf
  <2>1. CASE s = m.streamID
    BY <2>1, <1>1, <1>2, <1>3, ClearedOwners
  <2>2. CASE s # m.streamID
    BY <2>2, <1>1, <1>2, <1>3, ClearedOwners, MapperAssumption DEF MapperInv, OwnersMatchMappings
  <2> QED BY <2>1, <2>2
<1>5. mappings' \in [DOMAIN mappings' -> Mapping]
  BY <1>2 DEF UpdateMapping, With, MapperInv
<1>6. \A s \in DOMAIN mappings' : IsValid(mappings'[s])
  BY <1>1, <1>2 DEF MapperInv
<1> QED BY <1>1, <1>2, <1>3, <1>4, <1>5, <1>6 DEF MapperInv, Mapping, IsValid, Channels

LEMMA RemoveKeeps ==
  ASSUME MapperInv, NEW t, RemoveMapping(t)
  PROVE  MapperInv'
<1>1. /\ t \in Streams
      /\ DOMAIN mappings' = DOMAIN mappings \ {t}
      /\ \A s \in DOMAIN mappings' : mappings'[s] = mappings[s]
      /\ owners' = Cleared(t)
  BY DEF RemoveMapping, MapperInv
<1>2. OwnersMatchMappings'
  <2> SUFFICES ASSUME NEW c \in Channels, NEW s \in Streams
               PROVE  owners'[c] = s <=> s \in DOMAIN mappings' /\ c \in ChannelsOf(mappings'[s])
    BY DEF OwnersMatchMappings, Channels, ChannelsOf, RangeOf
  <2>1. CASE s = t
    BY <2>1, <1>1, ClearedOwners
  <2>2. CASE s # t
    BY <2>2, <1>1, ClearedOwners DEF MapperInv, OwnersMatchMappings
  <2> QED BY <2>1, <2>2
<1>3. mappings' \in [DOMAIN mappings' -> Mapping]
  BY <1>1 DEF RemoveMapping, MapperInv
<1>4. \A s \in DOMAIN mappings' : IsValid(mappings'[s])
  BY <1>1 DEF MapperInv
<1> QED BY <1>1, <1>2, <1>3, <1>4, ClearedOwners DEF MapperInv, Mapping, IsValid, Channels

LEMMA ClearedAllKeeps ==
  ASSUME mappings' = [s \in {} |-> NoStream], owners' = [c \in Channels |-> NoStream]
  PROVE  MapperInv'
  BY MapperAssumption DEF MapperInv, OwnersMatchMappings, Channels

LEMMA InitHolds == MapperInit => MapperInv
  BY MapperAssumption DEF MapperInit, MapperInv, OwnersMatchMappings, Channels

LEMMA NextKeeps ==
  ASSUME SequentialOnly
  PROVE  MapperInv /\ [MapperNext]_mapperVars => MapperInv'
<1> SUFFICES ASSUME MapperInv, [MapperNext]_mapperVars
             PROVE  MapperInv'
  OBVIOUS
<1>1. CASE \E m \in Mapping : m.streamID \notin DOMAIN mappings /\ AddMapping(m)
  BY <1>1, AddKeeps
<1>2. CASE \E m \in Mapping : m.streamID \in DOMAIN mappings /\ UpdateMapping(m)
  BY <1>2, UpdateKeeps
<1>3. CASE \E s \in Streams : RemoveMapping(s)
  BY <1>3, RemoveKeeps
<1>4. CASE ClearAll
  BY <1>4, ClearedAllKeeps DEF ClearAll
<1>5. CASE UNCHANGED mapperVars
  BY <1>5 DEF mapperVars, MapperInv, OwnersMatchMappings, Mapping, IsValid, Channels,
              ChannelsOf, RangeOf
<1> QED BY <1>1, <1>2, <1>3, <1>4, <1>5 DEF MapperNext

\* Matching tables leave no room for an overlap: a channel has one owner.
LEMMA MatchingIsDisjoint ==
  ASSUME SequentialOnly, MapperInv
  PROVE  NoOverlap
<1> SUFFICES ASSUME NEW s \in DOMAIN mappings, NEW t \in DOMAIN mappings, s # t,
                    NEW c \in ChannelsOf(mappings[s]), c \in ChannelsOf(mappings[t])
             PROVE  FALSE
  BY DEF NoOverlap
<1>1. c \in Channels
  BY RangeInside DEF MapperInv
<1> QED BY <1>1 DEF MapperInv, OwnersMatchMappings

\* The assignment the two tables hold is the same one, whatever sequence of
\* additions, moves and removals led here (updateDeviceChannelOwners and
\* clearDeviceChannelOwners, 367-394).
THEOREM TablesMatch ==
  ASSUME SequentialOnly
  PROVE  MapperSpec => []OwnersMatchMappings
<1>1. MapperInv => OwnersMatchMappings
  BY DEF MapperInv
<1> QED BY InitHolds, NextKeeps, <1>1, PTL DEF MapperSpec

\* "Prevents channel overlaps" (StreamChannelMapper.h 34), for any number of
\* streams and channels: no sequence of calls gives one channel to two streams.
THEOREM StreamsDisjoint ==
  ASSUME SequentialOnly
  PROVE  MapperSpec => []NoOverlap
  BY InitHolds, NextKeeps, MatchingIsDisjoint, PTL DEF MapperSpec

-----------------------------------------------------------------------------
(* The manager                                                              *)

\* Callers ask for as many device channels as the stream has.
WholeMappings == ~Partial

\* The threads of s work on the channels of its mapping.
Settled(s) ==
  /\ streams[s].mapping.streamID = s
  /\ streams[s].start = streams[s].mapping.deviceChannelStart
  /\ streams[s].mapping.deviceChannelCount = streams[s].sdp.numChannels

StreamsInv ==
  /\ MapperInv
  /\ streams \in [DOMAIN streams -> ManagedStream] /\ DOMAIN streams \subseteq Streams
  /\ running \subseteq DOMAIN streams
  /\ ioActive \in BOOLEAN /\ deviceRate \in Rates
  /\ MapperAgrees /\ NoThreadsWithoutIO /\ RatesAgree
  /\ \A s \in DOMAIN streams : Settled(s)

\* What is saved would be settled again.
GoodEntries ==
  {e \in Entries : e.mapping.streamID = e.id /\ e.mapping.deviceChannelCount = e.sdp.numChannels}

FileInv ==
  /\ file # NoFile => file \subseteq GoodEntries
  /\ loading \subseteq GoodEntries
  /\ proposal = NoProposal \/ proposal \in [start : Channels, sdp : Sdp]

ManagerInv == StreamsInv /\ FileInv

-----------------------------------------------------------------------------
(* Adding                                                                   *)

\* The common part of Insert and LoadOne.
LEMMA ExtendKeeps ==
  ASSUME SequentialOnly, StreamsInv,
         NEW s \in Streams \ DOMAIN streams, NEW x \in ManagedStream,
         x.mapping.streamID = s, x.start = x.mapping.deviceChannelStart,
         x.mapping.deviceChannelCount = x.sdp.numChannels, x.sdp.sampleRate = deviceRate,
         AddMapping(x.mapping), streams' = Extended(s, x), running' = Launched(s),
         UNCHANGED <<ioActive, deviceRate>>
  PROVE  StreamsInv'
<1>1. x.mapping \in Mapping /\ s \notin DOMAIN mappings
  BY DEF ManagedStream, StreamsInv, MapperAgrees
<1>2. MapperInv'
  BY <1>1, AddKeeps DEF StreamsInv
<1>3. /\ DOMAIN streams' = DOMAIN streams \cup {s}
      /\ streams'[s] = x
      /\ \A t \in DOMAIN streams : streams'[t] = streams[t]
  BY DEF Extended
<1>4. /\ DOMAIN mappings' = DOMAIN mappings \cup {s}
      /\ mappings'[s] = x.mapping
      /\ \A t \in DOMAIN mappings : mappings'[t] = mappings[t]
  BY <1>1 DEF AddMapping, With
<1>5. streams' \in [DOMAIN streams' -> ManagedStream] /\ DOMAIN streams' \subseteq Streams
  BY <1>3 DEF StreamsInv, Extended
<1>6. running' \subseteq DOMAIN streams' /\ NoThreadsWithoutIO'
  BY <1>3 DEF Launched, StreamsInv, NoThreadsWithoutIO
<1>7. MapperAgrees'
  BY <1>3, <1>4 DEF StreamsInv, MapperAgrees
<1>8. RatesAgree'
  BY <1>3 DEF StreamsInv, RatesAgree
<1>9. \A t \in DOMAIN streams' : Settled(t)'
  BY <1>3 DEF StreamsInv, Settled
<1> QED BY <1>2, <1>5, <1>6, <1>7, <1>8, <1>9 DEF StreamsInv

\* A save writes entries of streams that are settled.
LEMMA SaveKeeps ==
  ASSUME StreamsInv', SaveAllStreams
  PROVE  file' \subseteq GoodEntries
<1> SUFFICES ASSUME NEW s \in DOMAIN streams'
             PROVE  Entry(s, streams'[s]) \in GoodEntries
  BY DEF SaveAllStreams
<1>1. /\ s \in Streams /\ streams'[s] \in ManagedStream
      /\ streams'[s].mapping.streamID = s
      /\ streams'[s].mapping.deviceChannelCount = streams'[s].sdp.numChannels
  BY DEF StreamsInv, Settled
<1> QED BY <1>1 DEF Entry, GoodEntries, Entries, ManagedStream

LEMMA InsertKeeps ==
  ASSUME SequentialOnly, ManagerInv,
         NEW s \in Streams, NEW sdp \in Sessions, NEW m \in Mapping, NEW tx \in BOOLEAN,
         m.streamID = s, m.deviceChannelCount = sdp.numChannels,
         Insert(s, sdp, m, tx),
         proposal' \in {proposal, NoProposal}
  PROVE  ManagerInv'
<1>1. Managed(sdp, m, tx) \in ManagedStream
  BY DEF Managed, ManagedStream, Mapping
<1>2. StreamsInv'
  BY <1>1, ExtendKeeps DEF ManagerInv, Insert, Fresh, Managed, CanAddStream
<1>3. FileInv'
  BY <1>2, SaveKeeps DEF Insert, ManagerInv, FileInv, GoodEntries, Entries, Mapping, Channels
<1> QED BY <1>2, <1>3 DEF ManagerInv

-----------------------------------------------------------------------------
(* The other actions                                                        *)

LEMMA RequestsAreMappings ==
  ASSUME WholeMappings, NEW s, NEW n, NEW m \in Requests(s, n)
  PROVE  m \in Mapping /\ m.streamID = s /\ m.deviceChannelCount = n
  BY DEF Requests, WholeMappings

LEMMA AddKeepsManager ==
  ASSUME SequentialOnly, WholeMappings, ManagerInv, Add
  PROVE  ManagerInv'
<1>1. ASSUME NEW s \in Streams, NEW sdp \in Sdp, NEW m \in Requests(s, sdp.numChannels),
             AddStream(s, sdp, m)
      PROVE  ManagerInv'
  <2> DEFINE whole == [m EXCEPT !.deviceChannelCount = sdp.numChannels]
  <2>1. whole = m
    BY RequestsAreMappings DEF Mapping
  <2>2. sdp \in Sessions
    BY DEF Sdp, Sessions
  <2>3. Insert(s, sdp, whole, FALSE) /\ proposal' = proposal
    BY <1>1 DEF AddStream
  <2>4. Insert(s, sdp, m, FALSE)
    BY <2>1, <2>3
  <2>5. m \in Mapping /\ m.streamID = s /\ m.deviceChannelCount = sdp.numChannels
    BY RequestsAreMappings
  <2> QED BY <2>2, <2>3, <2>4, <2>5, InsertKeeps
<1>2. ASSUME NEW s \in Streams, NEW n \in 1 .. MaxCount, NEW m \in Requests(s, n),
             CreateTxStream(s, n, m)
      PROVE  ManagerInv'
  <2> DEFINE sdp == [numChannels |-> n, sampleRate |-> deviceRate, direction |-> "recvonly"]
             whole == [m EXCEPT !.deviceChannelCount = n]
  <2>1. whole = m
    BY RequestsAreMappings DEF Mapping
  <2>2. sdp \in Sessions /\ sdp.numChannels = n
    BY DEF Sessions, ManagerInv, StreamsInv
  <2>3. Insert(s, sdp, whole, TRUE) /\ proposal' = proposal
    BY <1>2 DEF CreateTxStream
  <2>4. Insert(s, sdp, m, TRUE)
    BY <2>1, <2>3
  <2>5. m \in Mapping /\ m.streamID = s /\ m.deviceChannelCount = n
    BY RequestsAreMappings
  <2> HIDE DEF sdp
  <2> QED BY <2>2, <2>3, <2>4, <2>5, InsertKeeps
<1>3. ASSUME NEW sdp \in Sdp, Propose(sdp)
      PROVE  ManagerInv'
  <2>1. proposal' \in [start : Channels, sdp : Sdp]
    BY <1>3 DEF Propose, FindContiguousBlock
  <2>2. UNCHANGED <<mapperVars, streams, running, ioActive, deviceRate, loading, file>>
    BY <1>3 DEF Propose
  <2> QED BY <2>1, <2>2 DEF ManagerInv, StreamsInv, FileInv, MapperInv, OwnersMatchMappings,
             mapperVars, MapperAgrees, NoThreadsWithoutIO, RatesAgree, Settled, Channels,
             ChannelsOf, RangeOf, Mapping, IsValid, Sdp, ManagedStream, Sessions,
             GoodEntries, Entries
<1>4. ASSUME NEW s \in Streams, AddProposed(s)
      PROVE  ManagerInv'
  <2> DEFINE m == Sequential(s, proposal.sdp.numChannels, proposal.start)
  <2>1. proposal.sdp \in Sdp /\ proposal.start \in Channels
    BY <1>4 DEF AddProposed, ManagerInv, FileInv
  <2>2. m \in Mapping /\ m.streamID = s /\ m.deviceChannelCount = proposal.sdp.numChannels
    BY <2>1, MapperAssumption DEF Sequential, Mapping, Sdp
  <2>3. proposal.sdp \in Sessions
    BY <2>1 DEF Sdp, Sessions
  <2>4. Insert(s, proposal.sdp, m, FALSE) /\ proposal' = NoProposal
    BY <1>4 DEF AddProposed
  <2> HIDE DEF m
  <2> QED BY <2>2, <2>3, <2>4, InsertKeeps
<1>5. CASE AddProposedFails
  <2>1. UNCHANGED <<mapperVars, streams, running, ioActive, deviceRate, loading, file>>
        /\ proposal' = NoProposal
    BY <1>5 DEF AddProposedFails
  <2> QED BY <2>1 DEF ManagerInv, StreamsInv, FileInv, MapperInv, OwnersMatchMappings,
             mapperVars, MapperAgrees, NoThreadsWithoutIO, RatesAgree, Settled, Channels,
             ChannelsOf, RangeOf, Mapping, IsValid, Sdp, ManagedStream, Sessions,
             GoodEntries, Entries, NoProposal
<1> QED BY <1>1, <1>2, <1>3, <1>4, <1>5 DEF Add

LEMMA RemoveKeepsManager ==
  ASSUME ManagerInv, NEW s \in Streams, RemoveStream(s)
  PROVE  ManagerInv'
<1>1. /\ DOMAIN streams' = DOMAIN streams \ {s}
      /\ \A t \in DOMAIN streams' : streams'[t] = streams[t]
      /\ streams' \in [DOMAIN streams' -> ManagedStream]
  BY DEF RemoveStream, ManagerInv, StreamsInv
<1>2. /\ DOMAIN mappings' = DOMAIN mappings \ {s}
      /\ \A t \in DOMAIN mappings' : mappings'[t] = mappings[t]
  BY DEF RemoveStream, RemoveMapping
<1>3. MapperInv'
  BY RemoveKeeps DEF RemoveStream, ManagerInv, StreamsInv
<1>4. StreamsInv'
  BY <1>1, <1>2, <1>3 DEF RemoveStream, ManagerInv, StreamsInv, MapperAgrees,
     NoThreadsWithoutIO, RatesAgree, Settled
<1>5. FileInv'
  BY <1>4, SaveKeeps DEF RemoveStream, ManagerInv, FileInv, GoodEntries, Entries, Mapping, Channels
<1> QED BY <1>4, <1>5 DEF ManagerInv

\* A mapping the mapper accepts also fits the receiver or transmitter, so the
\* two never part.
LEMMA UpdateKeepsManager ==
  ASSUME SequentialOnly, WholeMappings, ManagerInv, NEW s \in DOMAIN streams,
         NEW m \in Requests(s, streams[s].sdp.numChannels), NEW starts \in BOOLEAN,
         UpdateStreamMapping(s, m, starts)
  PROVE  ManagerInv'
<1>1. m \in Mapping /\ m.streamID = s /\ m.deviceChannelCount = streams[s].sdp.numChannels
  BY RequestsAreMappings
<1>2. IsValid(m) /\ UpdateMapping(m) /\ s \in DOMAIN mappings
  BY DEF UpdateStreamMapping, UpdateMapping, Accepts, ManagerInv, StreamsInv, MapperAgrees
<1>3. m.deviceChannelStart + streams[s].sdp.numChannels <= MaxDeviceChannels
  BY <1>1, <1>2 DEF IsValid
<1>4. /\ streams' = [streams EXCEPT ![s].mapping = m, ![s].start = m.deviceChannelStart]
      /\ running' \subseteq running
      /\ SaveAllStreams \/ file' = file
      /\ UNCHANGED <<ioActive, deviceRate, proposal, loading>>
  BY <1>3 DEF UpdateStreamMapping
<1>5. MapperInv'
  BY <1>1, <1>2, UpdateKeeps DEF ManagerInv, StreamsInv
<1>6. /\ DOMAIN streams' = DOMAIN streams
      /\ streams'[s] = [streams[s] EXCEPT !.mapping = m, !.start = m.deviceChannelStart]
      /\ \A t \in DOMAIN streams : t # s => streams'[t] = streams[t]
  BY <1>4 DEF ManagerInv, StreamsInv
<1>7. /\ streams'[s] \in ManagedStream
      /\ streams'[s].mapping = m /\ streams'[s].start = m.deviceChannelStart
      /\ streams'[s].sdp = streams[s].sdp
  <2>1. streams[s] \in ManagedStream /\ m.deviceChannelStart \in Channels
    BY <1>1 DEF ManagerInv, StreamsInv, Mapping
  <2> QED BY <1>1, <1>6, <2>1 DEF ManagedStream
<1>8. /\ DOMAIN mappings' = DOMAIN mappings
      /\ mappings'[s] = m
      /\ \A t \in DOMAIN mappings : t # s => mappings'[t] = mappings[t]
  BY <1>1, <1>2 DEF UpdateMapping, With
<1>9. StreamsInv'
  <2>1. streams' \in [DOMAIN streams' -> ManagedStream]
    BY <1>4, <1>6, <1>7 DEF ManagerInv, StreamsInv
  <2>2. MapperAgrees'
    BY <1>6, <1>7, <1>8 DEF ManagerInv, StreamsInv, MapperAgrees
  <2>3. RatesAgree' /\ NoThreadsWithoutIO'
    BY <1>4, <1>6, <1>7 DEF ManagerInv, StreamsInv, RatesAgree, NoThreadsWithoutIO
  <2>4. \A t \in DOMAIN streams' : Settled(t)'
    <3> SUFFICES ASSUME NEW t \in DOMAIN streams'
                 PROVE  Settled(t)'
      OBVIOUS
    <3>1. CASE t = s
      <4>1. /\ streams'[t].mapping.streamID = t
            /\ streams'[t].start = streams'[t].mapping.deviceChannelStart
            /\ streams'[t].mapping.deviceChannelCount = streams'[t].sdp.numChannels
        BY <3>1, <1>1, <1>7
      <4> QED BY <4>1 DEF Settled
    <3>2. CASE t # s
      BY <3>2, <1>6 DEF ManagerInv, StreamsInv, Settled
    <3> QED BY <3>1, <3>2
  <2> QED BY <1>4, <1>5, <1>6, <2>1, <2>2, <2>3, <2>4 DEF ManagerInv, StreamsInv
<1>10. FileInv'
  BY <1>4, <1>9, SaveKeeps DEF ManagerInv, FileInv, GoodEntries, Entries, Mapping, Channels
<1> QED BY <1>9, <1>10 DEF ManagerInv

LEMMA EmptyKeeps ==
  ASSUME mappings' = [s \in {} |-> NoStream], owners' = [c \in Channels |-> NoStream],
         streams' = [s \in {} |-> NoStream], running' = {},
         ioActive' \in BOOLEAN, deviceRate' \in Rates
  PROVE  StreamsInv'
  BY ClearedAllKeeps DEF StreamsInv, MapperAgrees, NoThreadsWithoutIO, RatesAgree, Settled

LEMMA LoadKeeps ==
  ASSUME SequentialOnly, ManagerInv, NEW e \in loading, LoadOne(e)
  PROVE  ManagerInv'
<1>1. /\ e \in Entries /\ e.mapping.streamID = e.id
      /\ e.mapping.deviceChannelCount = e.sdp.numChannels
  BY DEF ManagerInv, FileInv, GoodEntries
<1>2. /\ Reloaded(e) \in ManagedStream /\ Reloaded(e).mapping = e.mapping
      /\ Reloaded(e).start = e.mapping.deviceChannelStart /\ Reloaded(e).sdp = e.sdp
  BY <1>1 DEF Reloaded, Managed, ManagedStream, Entries, Mapping
<1>3. /\ e.id \in Streams \ DOMAIN streams /\ e.sdp.sampleRate = deviceRate
      /\ AddMapping(e.mapping) /\ streams' = Extended(e.id, Reloaded(e))
      /\ running' = Launched(e.id) /\ UNCHANGED <<ioActive, deviceRate>>
  BY <1>1 DEF LoadOne, Loadable, CanAddStream, Entries
<1>4. StreamsInv'
  BY <1>1, <1>2, <1>3, ExtendKeeps DEF ManagerInv
<1>5. FileInv'
  BY DEF LoadOne, ManagerInv, FileInv, GoodEntries, Entries, Mapping, Channels
<1> QED BY <1>4, <1>5 DEF ManagerInv

LEMMA InitHoldsManager == ManagerInit => ManagerInv
<1> SUFFICES ASSUME ManagerInit PROVE ManagerInv
  OBVIOUS
<1>1. MapperInv
  BY InitHolds DEF ManagerInit
<1>2. StreamsInv
  BY <1>1, ManagerAssumption DEF ManagerInit, MapperInit, StreamsInv, MapperAgrees,
     NoThreadsWithoutIO, RatesAgree, Settled
<1>3. FileInv
  BY DEF ManagerInit, FileInv
<1> QED BY <1>2, <1>3 DEF ManagerInv

\* A step that leaves the mapper and the streams alone, and one of nothing.
LEMMA SameStreams ==
  ASSUME StreamsInv, UNCHANGED <<mapperVars, streams>>, running' \subseteq DOMAIN streams,
         ioActive' \in BOOLEAN, deviceRate' \in Rates, ~ioActive' => running' = {},
         \A s \in DOMAIN streams : streams[s].sdp.sampleRate = deviceRate'
  PROVE  StreamsInv'
<1>1. MapperInv'
  BY DEF StreamsInv, MapperInv, OwnersMatchMappings, mapperVars, Channels, ChannelsOf, RangeOf,
         Mapping, IsValid
<1> QED BY <1>1 DEF StreamsInv, mapperVars, MapperAgrees, NoThreadsWithoutIO, RatesAgree, Settled,
               ManagedStream, Mapping, Sessions, Channels

LEMMA SameFile ==
  ASSUME FileInv, UNCHANGED file, loading' \subseteq loading \/ (file # NoFile /\ loading' = file),
         proposal' \in {proposal, NoProposal}
  PROVE  FileInv'
  BY DEF FileInv, GoodEntries, Entries, Mapping, Channels

LEMMA NextKeepsManager ==
  ASSUME SequentialOnly, WholeMappings
  PROVE  ManagerInv /\ [ManagerNext]_managerVars => ManagerInv'
<1> SUFFICES ASSUME ManagerInv, [ManagerNext]_managerVars
             PROVE  ManagerInv'
  OBVIOUS
<1>1. CASE Add
  BY <1>1, AddKeepsManager
<1>2. CASE Change
  BY <1>2, RemoveKeepsManager, UpdateKeepsManager DEF Change
<1>3. CASE RemoveAllStreams
  <2>1. StreamsInv'
    BY <1>3, EmptyKeeps DEF RemoveAllStreams, ClearAll, ManagerInv, StreamsInv
  <2>2. FileInv'
    BY <1>3, SameFile DEF RemoveAllStreams, ManagerInv
  <2> QED BY <2>1, <2>2 DEF ManagerInv
<1>4. CASE Load
  <2>1. ASSUME NEW e \in loading, LoadSkip(e)
        PROVE  ManagerInv'
    <3>1. StreamsInv'
      BY <2>1, SameStreams DEF LoadSkip, ManagerInv, StreamsInv, NoThreadsWithoutIO, RatesAgree
    <3>2. FileInv'
      BY <2>1, SameFile DEF LoadSkip, ManagerInv
    <3> QED BY <3>1, <3>2 DEF ManagerInv
  <2> QED BY <1>4, <2>1, LoadKeeps DEF Load
<1>5. CASE Device
  <2>1. ASSUME NEW active \in BOOLEAN, NEW started \in SUBSET DOMAIN streams,
               SetIOActive(active, started)
        PROVE  ManagerInv'
    <3>1. StreamsInv'
      BY <2>1, SameStreams DEF SetIOActive, ManagerInv, StreamsInv, RatesAgree
    <3>2. FileInv'
      BY <2>1, SameFile DEF SetIOActive, ManagerInv
    <3> QED BY <3>1, <3>2 DEF ManagerInv
  <2>2. ASSUME NEW rate \in Rates, SetDeviceSampleRate(rate)
        PROVE  ManagerInv'
    <3>1. StreamsInv'
      BY <2>2, SameStreams
         DEF SetDeviceSampleRate, AcceptsRate, ManagerInv, StreamsInv, NoThreadsWithoutIO
    <3>2. FileInv'
      BY <2>2, SameFile DEF SetDeviceSampleRate, ManagerInv
    <3> QED BY <3>1, <3>2 DEF ManagerInv
  <2>3. CASE LoadSavedStreams
    <3>1. StreamsInv'
      BY <2>3, SameStreams
         DEF LoadSavedStreams, ManagerInv, StreamsInv, NoThreadsWithoutIO, RatesAgree
    <3>2. FileInv'
      BY <2>3, SameFile DEF LoadSavedStreams, ManagerInv
    <3> QED BY <3>1, <3>2 DEF ManagerInv
  <2>4. ASSUME NEW torn \in BOOLEAN, Restart(torn)
        PROVE  ManagerInv'
    <3>1. StreamsInv'
      BY <2>4, EmptyKeeps, ManagerAssumption DEF Restart, ClearAll
    <3>2. FileInv'
      BY <2>4 DEF Restart, ManagerInv, FileInv, GoodEntries, Entries, Mapping, Channels
    <3> QED BY <3>1, <3>2 DEF ManagerInv
  <2> QED BY <1>5, <2>1, <2>2, <2>3, <2>4 DEF Device
<1>6. CASE UNCHANGED managerVars
  <2>1. StreamsInv'
    BY <1>6, SameStreams DEF managerVars, ManagerInv, StreamsInv, NoThreadsWithoutIO, RatesAgree
  <2>2. FileInv'
    BY <1>6, SameFile DEF managerVars, ManagerInv
  <2> QED BY <2>1, <2>2 DEF ManagerInv
<1> QED BY <1>1, <1>2, <1>3, <1>4, <1>5, <1>6 DEF ManagerNext

-----------------------------------------------------------------------------
(* Theorems                                                                 *)

\* The threads of a settled stream touch the channels of its mapping.
LEMMA TouchedIsMapped ==
  ASSUME SequentialOnly, StreamsInv, NEW s \in DOMAIN streams
  PROVE  s \in DOMAIN mappings /\ Touched(s) = ChannelsOf(mappings[s])
<1>1. /\ s \in DOMAIN mappings /\ mappings[s] = streams[s].mapping
      /\ mappings[s] \in Mapping /\ IsValid(mappings[s]) /\ Settled(s)
  BY DEF StreamsInv, MapperAgrees, MapperInv
<1>2. ChannelsOf(mappings[s]) = RangeOf(mappings[s])
  BY <1>1, RangeInside
<1>3. ~(streams[s].start + streams[s].sdp.numChannels > MaxDeviceChannels)
  BY <1>1, MapperAssumption DEF Settled, IsValid, Mapping, Channels
<1> QED BY <1>1, <1>2, <1>3 DEF Touched, RangeOf, Settled

\* The two copies of the mappings agree on every path, the failing ones too.
THEOREM MapperInStep ==
  ASSUME SequentialOnly, WholeMappings
  PROVE  ManagerSpec => []MapperAgrees
<1>1. ManagerInv => MapperAgrees
  BY DEF ManagerInv, StreamsInv
<1> QED BY InitHoldsManager, NextKeepsManager, <1>1, PTL DEF ManagerSpec

\* A device channel counts as owned exactly while a stream's threads touch it.
THEOREM OwnersAreExact ==
  ASSUME SequentialOnly, WholeMappings
  PROVE  ManagerSpec => []OwnersExact
<1>1. ManagerInv => OwnersExact
  <2> SUFFICES ASSUME ManagerInv, NEW c \in Channels, NEW s \in Streams
               PROVE  owners[c] = s <=> s \in DOMAIN streams /\ c \in Touched(s)
    BY DEF OwnersExact
  <2>1. owners[c] = s <=> s \in DOMAIN mappings /\ c \in ChannelsOf(mappings[s])
    BY DEF ManagerInv, StreamsInv, MapperInv, OwnersMatchMappings
  <2>2. DOMAIN mappings = DOMAIN streams
    BY DEF ManagerInv, StreamsInv, MapperAgrees
  <2> QED BY <2>1, <2>2, TouchedIsMapped DEF ManagerInv
<1> QED BY InitHoldsManager, NextKeepsManager, <1>1, PTL DEF ManagerSpec

\* Each ring buffer has one writer among the receivers and one reader among
\* the transmitters (RingBuffer.hpp 40, 75).
THEOREM OneProducer ==
  ASSUME SequentialOnly, WholeMappings
  PROVE  ManagerSpec => []SingleProducer
<1>1. ManagerInv => SingleProducer
  <2> SUFFICES ASSUME ManagerInv, NEW s \in running, NEW t \in running, s # t
               PROVE  Touched(s) \cap Touched(t) = {}
    BY DEF SingleProducer
  <2>1. s \in DOMAIN streams /\ t \in DOMAIN streams
    BY DEF ManagerInv, StreamsInv
  <2>2. NoOverlap
    BY MatchingIsDisjoint DEF ManagerInv, StreamsInv
  <2> QED BY <2>1, <2>2, TouchedIsMapped DEF ManagerInv, NoOverlap
<1> QED BY InitHoldsManager, NextKeepsManager, <1>1, PTL DEF ManagerSpec

-----------------------------------------------------------------------------
(* Whatever the mappings: types, threads and rates                          *)

RecordsInv == ManagerTypeOK /\ NoThreadsWithoutIO /\ RatesAgree

StreamsTyped ==
  /\ streams \in [DOMAIN streams -> ManagedStream] /\ DOMAIN streams \subseteq Streams
  /\ running \subseteq DOMAIN streams
  /\ ioActive \in BOOLEAN /\ deviceRate \in Rates
  /\ NoThreadsWithoutIO /\ RatesAgree

MapperTyped ==
  /\ mappings \in [DOMAIN mappings -> Mapping] /\ DOMAIN mappings \subseteq Streams
  /\ owners \in [Channels -> Streams \cup {NoStream}]

FileTyped ==
  /\ proposal = NoProposal \/ proposal \in [start : Channels, sdp : Sdp]
  /\ file # NoFile => file \subseteq Entries
  /\ loading \subseteq Entries

LEMMA RecordsParts == RecordsInv <=> StreamsTyped /\ MapperTyped /\ FileTyped
  BY DEF RecordsInv, StreamsTyped, MapperTyped, FileTyped, ManagerTypeOK

LEMMA MappingPutTyped ==
  ASSUME MapperTyped, NEW m \in Mapping, mappings' = With(m),
         owners' = Owned(m, owners) \/ owners' = Owned(m, Cleared(m.streamID))
  PROVE  MapperTyped'
<1>1. m.streamID \in Streams
  BY DEF Mapping
<1>2. /\ DOMAIN mappings' \subseteq Streams
      /\ mappings' \in [DOMAIN mappings' -> Mapping]
  BY <1>1 DEF MapperTyped, With
<1>3. owners' \in [Channels -> Streams \cup {NoStream}]
  BY <1>1 DEF MapperTyped, Owned, Cleared
<1> QED BY <1>2, <1>3 DEF MapperTyped

LEMMA ExtendTyped ==
  ASSUME StreamsTyped, NEW s \in Streams \ DOMAIN streams, NEW x \in ManagedStream,
         x.sdp.sampleRate = deviceRate,
         streams' = Extended(s, x), running' = Launched(s), UNCHANGED <<ioActive, deviceRate>>
  PROVE  StreamsTyped'
<1>1. /\ DOMAIN streams' = DOMAIN streams \cup {s}
      /\ streams'[s] = x
      /\ \A t \in DOMAIN streams : streams'[t] = streams[t]
  BY DEF Extended
<1>2. streams' \in [DOMAIN streams' -> ManagedStream] /\ DOMAIN streams' \subseteq Streams
  BY <1>1 DEF StreamsTyped, Extended
<1>3. running' \subseteq DOMAIN streams' /\ NoThreadsWithoutIO'
  BY <1>1 DEF Launched, StreamsTyped, NoThreadsWithoutIO
<1>4. RatesAgree'
  BY <1>1 DEF StreamsTyped, RatesAgree
<1> QED BY <1>2, <1>3, <1>4 DEF StreamsTyped

LEMMA SaveTyped ==
  ASSUME StreamsTyped', SaveAllStreams
  PROVE  file' \subseteq Entries
<1> SUFFICES ASSUME NEW s \in DOMAIN streams'
             PROVE  Entry(s, streams'[s]) \in Entries
  BY DEF SaveAllStreams
<1>1. s \in Streams /\ streams'[s] \in ManagedStream
  BY DEF StreamsTyped
<1> QED BY <1>1 DEF Entry, Entries, ManagedStream

LEMMA InsertTyped ==
  ASSUME RecordsInv,
         NEW s \in Streams, NEW sdp \in Sessions, NEW m \in Mapping, NEW tx \in BOOLEAN,
         Insert(s, sdp, m, tx), proposal' \in {proposal, NoProposal}
  PROVE  RecordsInv'
<1>1. StreamsTyped /\ MapperTyped /\ FileTyped
  BY RecordsParts
<1>2. Managed(sdp, m, tx) \in ManagedStream /\ Managed(sdp, m, tx).sdp = sdp
  BY DEF Managed, ManagedStream, Mapping
<1>3. s \notin DOMAIN streams /\ sdp.sampleRate = deviceRate
  BY DEF Insert, Fresh, CanAddStream
<1>4. StreamsTyped'
  BY <1>1, <1>2, <1>3, ExtendTyped DEF Insert
<1>5. MapperTyped'
  BY <1>1, MappingPutTyped DEF Insert, AddMapping
<1>6. file' \subseteq Entries
  BY <1>4, SaveTyped DEF Insert
<1>7. FileTyped'
  BY <1>1, <1>6 DEF Insert, FileTyped
<1> QED BY <1>4, <1>5, <1>7, RecordsParts, PTL

LEMMA RequestIsMapping ==
  ASSUME NEW s, NEW n \in 1 .. MaxCount, NEW m \in Requests(s, n)
  PROVE  m \in Mapping /\ [m EXCEPT !.deviceChannelCount = n] \in Mapping
  BY DEF Requests, Mapping

LEMMA AddTyped ==
  ASSUME RecordsInv, Add
  PROVE  RecordsInv'
<1>1. ASSUME NEW s \in Streams, NEW sdp \in Sdp, NEW m \in Requests(s, sdp.numChannels),
             AddStream(s, sdp, m)
      PROVE  RecordsInv'
  <2>1. sdp \in Sessions /\ sdp.numChannels \in 1 .. MaxCount
    BY DEF Sdp, Sessions
  <2>2. [m EXCEPT !.deviceChannelCount = sdp.numChannels] \in Mapping
    BY <2>1, RequestIsMapping
  <2> QED BY <1>1, <2>1, <2>2, InsertTyped DEF AddStream
<1>2. ASSUME NEW s \in Streams, NEW n \in 1 .. MaxCount, NEW m \in Requests(s, n),
             CreateTxStream(s, n, m)
      PROVE  RecordsInv'
  <2>1. [numChannels |-> n, sampleRate |-> deviceRate, direction |-> "recvonly"] \in Sessions
    BY DEF Sessions, RecordsInv, ManagerTypeOK
  <2>2. [m EXCEPT !.deviceChannelCount = n] \in Mapping
    BY RequestIsMapping
  <2> QED BY <1>2, <2>1, <2>2, InsertTyped DEF CreateTxStream
<1>3. ASSUME NEW sdp \in Sdp, Propose(sdp)
      PROVE  RecordsInv'
  <2>1. proposal' \in [start : Channels, sdp : Sdp]
    BY <1>3 DEF Propose, FindContiguousBlock
  <2> QED BY <1>3, <2>1 DEF Propose, RecordsInv, ManagerTypeOK, mapperVars,
             NoThreadsWithoutIO, RatesAgree
<1>4. ASSUME NEW s \in Streams, AddProposed(s)
      PROVE  RecordsInv'
  <2>1. proposal.sdp \in Sdp /\ proposal.start \in Channels
    BY <1>4 DEF AddProposed, RecordsInv, ManagerTypeOK
  <2>2. proposal.sdp \in Sessions
        /\ Sequential(s, proposal.sdp.numChannels, proposal.start) \in Mapping
    BY <2>1, MapperAssumption DEF Sequential, Mapping, Sdp, Sessions
  <2> QED BY <1>4, <2>2, InsertTyped DEF AddProposed
<1>5. CASE AddProposedFails
  BY <1>5 DEF AddProposedFails, RecordsInv, ManagerTypeOK, mapperVars, NoThreadsWithoutIO,
     RatesAgree
<1> QED BY <1>1, <1>2, <1>3, <1>4, <1>5 DEF Add

LEMMA RemoveTyped ==
  ASSUME RecordsInv, NEW s \in Streams, RemoveStream(s)
  PROVE  RecordsInv'
<1>1. StreamsTyped /\ MapperTyped /\ FileTyped
  BY RecordsParts
<1>2. StreamsTyped'
  BY <1>1 DEF RemoveStream, StreamsTyped, NoThreadsWithoutIO, RatesAgree
<1>3. MapperTyped'
  BY <1>1 DEF RemoveStream, RemoveMapping, Cleared, MapperTyped
<1>4. FileTyped'
  BY <1>1, <1>2, SaveTyped DEF RemoveStream, FileTyped
<1> QED BY <1>2, <1>3, <1>4, RecordsParts, PTL

LEMMA UpdateTyped ==
  ASSUME RecordsInv, NEW s \in DOMAIN streams,
         NEW m \in Requests(s, streams[s].sdp.numChannels), NEW starts \in BOOLEAN,
         UpdateStreamMapping(s, m, starts)
  PROVE  RecordsInv'
<1>1. StreamsTyped /\ MapperTyped /\ FileTyped
  BY RecordsParts
<1>2. m \in Mapping
  BY DEF Requests
<1>3. PICK start \in {m.deviceChannelStart, streams[s].start} :
        streams' = [streams EXCEPT ![s].mapping = m, ![s].start = start]
  BY DEF UpdateStreamMapping
<1>4. streams[s] \in ManagedStream /\ start \in Channels
  BY <1>1, <1>2 DEF StreamsTyped, ManagedStream, Mapping
<1>5. streams'[s] = [streams[s] EXCEPT !.mapping = m, !.start = start]
      /\ DOMAIN streams' = DOMAIN streams
      /\ \A t \in DOMAIN streams : t # s => streams'[t] = streams[t]
  BY <1>1, <1>3 DEF StreamsTyped
<1>6. streams'[s] \in ManagedStream /\ streams'[s].sdp = streams[s].sdp
  BY <1>2, <1>4, <1>5 DEF ManagedStream
<1>7. streams' \in [DOMAIN streams' -> ManagedStream] /\ DOMAIN streams' \subseteq Streams
  BY <1>1, <1>3, <1>5, <1>6 DEF StreamsTyped
<1>8. running' \subseteq running /\ ioActive' = ioActive /\ deviceRate' = deviceRate
  BY DEF UpdateStreamMapping
<1>9. RatesAgree' /\ NoThreadsWithoutIO'
  BY <1>1, <1>5, <1>6, <1>8 DEF StreamsTyped, RatesAgree, NoThreadsWithoutIO
<1>10. StreamsTyped'
  BY <1>1, <1>5, <1>7, <1>8, <1>9 DEF StreamsTyped
<1>11. MapperTyped'
  BY <1>1, <1>2, MappingPutTyped DEF UpdateStreamMapping, UpdateMapping
<1>12. FileTyped'
  BY <1>1, <1>10, SaveTyped DEF UpdateStreamMapping, FileTyped
<1> QED BY <1>10, <1>11, <1>12, RecordsParts, PTL

LEMMA LoadTyped ==
  ASSUME RecordsInv, NEW e \in loading, LoadOne(e)
  PROVE  RecordsInv'
<1>1. StreamsTyped /\ MapperTyped /\ FileTyped
  BY RecordsParts
<1>2. e \in Entries
  BY <1>1 DEF FileTyped
<1>3. Reloaded(e) \in ManagedStream /\ Reloaded(e).sdp = e.sdp /\ e.mapping \in Mapping
  BY <1>2 DEF Reloaded, Managed, ManagedStream, Entries, Mapping
<1>4. e.id \in Streams \ DOMAIN streams /\ e.sdp.sampleRate = deviceRate
  BY <1>2 DEF LoadOne, Loadable, CanAddStream, Entries
<1>5. StreamsTyped'
  BY <1>1, <1>3, <1>4, ExtendTyped DEF LoadOne
<1>6. MapperTyped'
  BY <1>1, <1>3, MappingPutTyped DEF LoadOne, AddMapping
<1>7. FileTyped'
  BY <1>1 DEF LoadOne, FileTyped
<1> QED BY <1>5, <1>6, <1>7, RecordsParts, PTL

LEMMA InitRecords == ManagerInit => RecordsInv
  BY ManagerAssumption
     DEF ManagerInit, MapperInit, RecordsInv, ManagerTypeOK, NoThreadsWithoutIO, RatesAgree

LEMMA NextRecords == RecordsInv /\ [ManagerNext]_managerVars => RecordsInv'
<1> SUFFICES ASSUME RecordsInv, [ManagerNext]_managerVars
             PROVE  RecordsInv'
  OBVIOUS
<1> USE DEF NoThreadsWithoutIO, RatesAgree, mapperVars
<1>1. CASE Add
  BY <1>1, AddTyped
<1>2. CASE Change
  BY <1>2, RemoveTyped, UpdateTyped DEF Change
<1>3. CASE RemoveAllStreams
  BY <1>3 DEF RemoveAllStreams, ClearAll, RecordsInv, ManagerTypeOK
<1>4. CASE Load
  <2>1. ASSUME NEW e \in loading, LoadSkip(e)
        PROVE  RecordsInv'
    BY <2>1 DEF LoadSkip, RecordsInv, ManagerTypeOK
  <2> QED BY <1>4, <2>1, LoadTyped DEF Load
<1>5. CASE Device
  <2>1. ASSUME NEW active \in BOOLEAN, NEW started \in SUBSET DOMAIN streams,
               SetIOActive(active, started)
        PROVE  RecordsInv'
    BY <2>1 DEF SetIOActive, RecordsInv, ManagerTypeOK
  <2>2. ASSUME NEW rate \in Rates, SetDeviceSampleRate(rate)
        PROVE  RecordsInv'
    BY <2>2 DEF SetDeviceSampleRate, AcceptsRate, RecordsInv, ManagerTypeOK
  <2>3. CASE LoadSavedStreams
    BY <2>3 DEF LoadSavedStreams, RecordsInv, ManagerTypeOK
  <2>4. ASSUME NEW torn \in BOOLEAN, Restart(torn)
        PROVE  RecordsInv'
    BY <2>4, ManagerAssumption DEF Restart, ClearAll, RecordsInv, ManagerTypeOK
  <2> QED BY <1>5, <2>1, <2>2, <2>3, <2>4 DEF Device
<1>6. CASE UNCHANGED managerVars
  BY <1>6 DEF managerVars, RecordsInv, ManagerTypeOK
<1> QED BY <1>1, <1>2, <1>3, <1>4, <1>5, <1>6 DEF ManagerNext

\* Types, and only streams in the table run, whatever mappings callers pass
\* (StreamManager.cpp 58-420).
THEOREM TypeCorrect == ManagerSpec => []ManagerTypeOK
<1>1. RecordsInv => ManagerTypeOK
  BY DEF RecordsInv
<1> QED BY InitRecords, NextRecords, <1>1, PTL DEF ManagerSpec

\* Every stream has the rate of the device, in every order of rate changes,
\* additions, loads and restarts (StreamManager.cpp 286-320, 514-535).
THEOREM RatesStayEqual == ManagerSpec => []RatesAgree
<1>1. RecordsInv => RatesAgree
  BY DEF RecordsInv
<1> QED BY InitRecords, NextRecords, <1>1, PTL DEF ManagerSpec

\* No network thread runs while the manager is told that IO is inactive
\* (StreamManager.cpp 94-117, 330-360).
THEOREM DormantWithoutIO == ManagerSpec => []NoThreadsWithoutIO
<1>1. RecordsInv => NoThreadsWithoutIO
  BY DEF RecordsInv
<1> QED BY InitRecords, NextRecords, <1>1, PTL DEF ManagerSpec
-----------------------------------------------------------------------------
(* The device that owns the manager                                         *)

\* Where each handler stands with the IO flags of the device and the manager.
PhasesAgree ==
  /\ handler \in {"idle", "rate"} =>
       (ioRunning <=> clients > 0) /\ (ioActive <=> ioRunning)
  /\ handler = "start" => ioRunning /\ clients = 0
  /\ handler = "stop" => ioRunning /\ ~ioActive /\ clients = 0
  /\ Initializing => ~ioRunning /\ ~ioActive /\ clients = 0

DeviceTyped ==
  /\ clients \in Nat /\ ioRunning \in BOOLEAN /\ currentSampleRate \in Rates
  /\ handler \in {"initialize", "loading", "testRx", "testTx", "idle", "start", "stop", "rate"}

DeviceInv == RecordsInv /\ DeviceTyped /\ PhasesAgree

\* Every step of the device is one of the manager's, or leaves the manager
\* alone: the test streams and the rate handler call it as any caller may.
LEMMA DeviceStepIsManagerStep ==
  ASSUME RecordsInv, DeviceTyped, Next
  PROVE  [ManagerNext]_managerVars
<1>1. CASE InitializeLoad
  BY <1>1 DEF InitializeLoad, ManagerNext, Device
<1>2. CASE InitializeNothing \/ InitializeLoaded \/ InitializeNoTest
  BY <1>2 DEF InitializeNothing, InitializeLoaded, InitializeNoTest
<1>3. CASE InitializeTestRx
  <2>1. PICK s \in Streams, start \in FindContiguousBlock(TestChannels) :
          AddStream(s, TestSdp, Sequential(s, TestChannels, start))
    BY <1>3 DEF InitializeTestRx
  <2>2. TestSdp \in Sdp /\ TestSdp.numChannels = TestChannels
    <3>1. TestSdp.sampleRate = deviceRate
      BY <2>1 DEF AddStream, Insert, CanAddStream
    <3>2. deviceRate \in Rates
      BY DEF RecordsInv, ManagerTypeOK
    <3> QED BY <3>1, <3>2, DeviceAssumption DEF TestSdp, Sdp
  <2>3. Sequential(s, TestChannels, start) \in Requests(s, TestChannels)
    BY DeviceAssumption, MapperAssumption
       DEF FindContiguousBlock, Sequential, Requests, Mapping
  <2>4. Add
    BY <2>1, <2>2, <2>3 DEF Add
  <2> QED BY <2>4 DEF ManagerNext
<1>4. CASE InitializeTestTx
  <2>1. PICK s \in Streams :
          CreateTxStream(s, TestChannels, Sequential(s, TestChannels, TestChannels))
    BY <1>4 DEF InitializeTestTx
  <2>2. TestChannels < MaxDeviceChannels /\ TestChannels \in Channels
    <3>1. TestChannels < MaxDeviceChannels
      BY <2>1 DEF CreateTxStream, Insert, AddMapping, Accepts, IsValid, Sequential
    <3> QED BY <3>1, DeviceAssumption, MapperAssumption DEF Channels
  <2>3. Sequential(s, TestChannels, TestChannels) \in Requests(s, TestChannels)
    BY <2>2, DeviceAssumption, MapperAssumption DEF Sequential, Requests, Mapping
  <2>4. Add
    BY <2>1, <2>3, DeviceAssumption DEF Add
  <2> QED BY <2>4 DEF ManagerNext
<1>5. CASE IO
  BY <1>5 DEF IO, StartFirst, StartStreams, StartFurther, StopFurther, StopStreams, StopLast,
     ManagerNext, Device
<1>6. CASE \E rate \in Rates : SetSampleRate(rate)
  BY <1>6 DEF SetSampleRate
<1>7. CASE TellManager
  <2>1. SetDeviceSampleRate(currentSampleRate) \/ UNCHANGED managerVars
    BY <1>7 DEF TellManager
  <2>2. PICK rate \in Rates : rate = currentSampleRate
    BY DEF DeviceTyped
  <2>3. SetDeviceSampleRate(rate) \/ UNCHANGED managerVars
    BY <2>1, <2>2 DEF SetDeviceSampleRate, AcceptsRate
  <2> QED BY <2>3 DEF ManagerNext, Device
<1>8. CASE \E torn \in BOOLEAN : DriverRestart(torn)
  BY <1>8 DEF DriverRestart, ManagerNext, Device
<1>9. CASE Load \/ Add \/ Change
  BY <1>9 DEF ManagerNext
<1> QED BY <1>1, <1>2, <1>3, <1>4, <1>5, <1>6, <1>7, <1>8, <1>9 DEF Next, Initialize

LEMMA OthersKeepIOActive ==
  ASSUME Add \/ Change \/ Load \/ LoadSavedStreams
  PROVE  ioActive' = ioActive
<1>1. CASE Add
  BY <1>1 DEF Add, AddStream, CreateTxStream, Propose, AddProposed, AddProposedFails, Insert
<1>2. CASE Change
  BY <1>2 DEF Change, RemoveStream, UpdateStreamMapping
<1>3. CASE Load \/ LoadSavedStreams
  BY <1>3 DEF Load, LoadOne, LoadSkip, LoadSavedStreams
<1> QED BY <1>1, <1>2, <1>3

LEMMA InitDevice == Init => DeviceInv
<1> SUFFICES ASSUME Init PROVE DeviceInv
  OBVIOUS
<1>1. RecordsInv
  BY InitRecords DEF Init
<1>2. DeviceTyped /\ PhasesAgree
  BY ManagerAssumption DEF Init, ManagerInit, DeviceTyped, PhasesAgree, Initializing
<1> QED BY <1>1, <1>2 DEF DeviceInv

LEMMA NextDevice == DeviceInv /\ [Next]_vars => DeviceInv' /\ [ManagerNext]_managerVars
<1> SUFFICES ASSUME DeviceInv, [Next]_vars
             PROVE  DeviceInv' /\ [ManagerNext]_managerVars
  OBVIOUS
<1>1. [ManagerNext]_managerVars
  BY DeviceStepIsManagerStep DEF DeviceInv, vars
<1>2. RecordsInv'
  BY <1>1, NextRecords DEF DeviceInv
<1> DEFINE Flags == DeviceTyped /\ PhasesAgree
<1>3. Flags
  BY DEF DeviceInv
<1> USE DEF DeviceTyped, PhasesAgree, Initializing
<1>4. ASSUME InitializeLoad \/ InitializeNothing \/ InitializeLoaded \/ InitializeNoTest PROVE Flags'
  BY <1>3, <1>4, OthersKeepIOActive
     DEF InitializeLoad, InitializeNothing, InitializeLoaded, InitializeNoTest, managerVars
<1>5. ASSUME InitializeTestRx PROVE Flags'
  BY <1>3, <1>5 DEF InitializeTestRx, AddStream, Insert
<1>6. ASSUME InitializeTestTx PROVE Flags'
  BY <1>3, <1>6 DEF InitializeTestTx, CreateTxStream, Insert
<1>7. ASSUME StartFirst \/ StartFurther \/ StopFurther \/ StopLast PROVE Flags'
  <2>1. ioActive' = ioActive /\ currentSampleRate' = currentSampleRate
    BY <1>7 DEF StartFirst, StartFurther, StopFurther, StopLast, managerVars
  <2>2. clients' \in Nat /\ (clients' > 0 <=> clients > 0)
    BY <1>3, <1>7 DEF StartFirst, StartFurther, StopFurther, StopLast, LastClient
  <2>3. CASE StartFirst
    BY <1>3, <2>1, <2>2, <2>3 DEF StartFirst
  <2>4. CASE StopLast
    <3>1. ioActive \in BOOLEAN
      BY DEF DeviceInv, RecordsInv, ManagerTypeOK
    <3>2. ioRunning' = FALSE /\ ioActive' = FALSE /\ clients' = 0 /\ handler' = "idle"
      BY <1>3, <2>1, <2>4, <3>1 DEF StopLast
    <3>3. DeviceTyped'
      BY <1>3, <2>1, <3>2
    <3>4. ~Initializing'
      BY <3>2
    <3>5. PhasesAgree'
      BY <3>2, <3>4
    <3> QED BY <3>3, <3>5
  <2>5. CASE StartFurther \/ StopFurther
    <3>1. handler = "idle" /\ handler' = "idle" /\ ioRunning' = ioRunning
      BY <2>5 DEF StartFurther, StopFurther
    <3> QED BY <1>3, <2>1, <2>2, <3>1
  <2> QED BY <1>7, <2>3, <2>4, <2>5
<1>8. ASSUME StartStreams \/ StopStreams PROVE Flags'
  <2>1. CASE StartStreams
    BY <1>3, <2>1 DEF StartStreams, SetIOActive
  <2>2. CASE StopStreams
    BY <1>3, <2>2 DEF StopStreams, LastClient, SetIOActive
  <2> QED BY <1>8, <2>1, <2>2
<1>9. ASSUME \E rate \in Rates : SetSampleRate(rate) PROVE Flags'
  BY <1>3, <1>9 DEF SetSampleRate, managerVars
<1>10. ASSUME TellManager PROVE Flags'
  BY <1>3, <1>10 DEF TellManager, SetDeviceSampleRate, managerVars
<1>11. ASSUME \E torn \in BOOLEAN : DriverRestart(torn) PROVE Flags'
  <2>1. clients' = 0 /\ ioRunning' = FALSE /\ ioActive' = FALSE
        /\ currentSampleRate' \in Rates /\ handler' = "initialize"
    BY <1>11, ManagerAssumption DEF DriverRestart, Restart
  <2> QED BY <2>1
<1>12. ASSUME (Load \/ Add \/ Change) /\ UNCHANGED deviceVars PROVE Flags'
  BY <1>3, <1>12, OthersKeepIOActive DEF deviceVars
<1>13. ASSUME UNCHANGED vars PROVE Flags'
  BY <1>3, <1>13 DEF vars, managerVars, deviceVars
<1>14. Flags'
  BY <1>4, <1>5, <1>6, <1>7, <1>8, <1>9, <1>10, <1>11, <1>12, <1>13 DEF Next, Initialize, IO
<1> QED BY <1>1, <1>2, <1>14 DEF DeviceInv

\* Core Audio's handlers, Initialize() with its test streams and the restarts
\* use the manager only as its specification allows, so all that is proved of
\* the manager holds in the driver (AES67Device.cpp 20-130, 255-395).
THEOREM DeviceUsesManager == Spec => ManagerSpec
<1>1. Init => ManagerInit
  BY DEF Init
<1> QED BY <1>1, InitDevice, NextDevice, PTL DEF Spec, ManagerSpec

\* Between two handlers the device, its clients and the manager agree on
\* whether IO runs (AES67Device.cpp 353-395).
THEOREM IOStatesAgree == Spec => []IOStateAgrees
<1>1. DeviceInv => IOStateAgrees
  BY DEF DeviceInv, PhasesAgree, IOStateAgrees
<1> QED BY InitDevice, NextDevice, <1>1, PTL DEF Spec

\* Network threads run only between the first client's start and the last
\* one's stop, with any number of clients (AES67Device.cpp 364-391).
THEOREM ThreadsFollowIO == Spec => []ThreadsOnlyDuringIO
<1>1. DeviceInv => ThreadsOnlyDuringIO
  BY DEF DeviceInv, RecordsInv, NoThreadsWithoutIO, DeviceTyped, PhasesAgree, Initializing,
     ThreadsOnlyDuringIO
<1> QED BY InitDevice, NextDevice, <1>1, PTL DEF Spec

\* In the driver as in the manager alone, no two running receivers (or
\* transmitters) touch one ring buffer (RingBuffer.hpp 40, 75).
THEOREM OneProducerInDriver ==
  ASSUME SequentialOnly, WholeMappings
  PROVE  Spec => []SingleProducer
<1> QED BY DeviceUsesManager, OneProducer, PTL
=============================================================================
