---------------------------- MODULE StreamManager ----------------------------
(***************************************************************************)
(* NetworkEngine/StreamManager with the StreamChannelMapper it owns, the      *)
(* receivers and transmitters it creates, and the configuration file it      *)
(* keeps (StreamConfigManager).  Every public call holds streamsMutex_ from    *)
(* beginning to end, so each is one action, its trailing auto-save included;  *)
(* two are longer: addStream(sdp) computes its mapping before it takes the     *)
(* mutex, and loadSavedStreams goes through the saved streams one by one,      *)
(* holding the mutex.                                                       *)
(*                                                                          *)
(* Data abstracted: of an SDP session the channel count, the sample rate and   *)
(* the direction; of the file the set of its entries, whose order is that of  *)
(* random stream ids.                                                       *)
(***************************************************************************)
EXTENDS StreamChannelMapper

CONSTANTS Rates, DefaultRate,   \* device sample rates
          Directions,           \* of the sessions offered to addStream
          Partial,    \* may a caller map fewer device than stream channels?
          NoFile      \* what loadConfig finds when there is no usable file

ASSUME ManagerAssumption ==
  /\ DefaultRate \in Rates
  /\ Partial \in BOOLEAN

VARIABLES
  streams,      \* streams_: sdp, mapping, isTransmit, and start, the first
                \* channel in the mapping the receiver or transmitter works with
  running,      \* streams whose receiver or transmitter threads run
  ioActive,     \* ioActive_
  deviceRate,   \* currentDeviceSampleRate_
  proposal,     \* addStream(sdp) between its mapping and the mutex
  loading,      \* loadSavedStreams: entries still to look at
  file          \* the configuration file: a set of entries, or NoFile

managerVars == <<mapperVars, streams, running, ioActive, deviceRate, proposal, loading, file>>

Sdp == [numChannels : 1 .. MaxCount, sampleRate : Rates, direction : Directions]

\* The mappings callers pass for a stream of n channels.
Requests(s, n) ==
  {m \in Mapping : /\ m.streamID = s /\ m.streamChannelCount = n
                   /\ IF Partial THEN m.deviceChannelCount <= n
                                 ELSE m.deviceChannelCount = n}

NoProposal == [start |-> MaxDeviceChannels]

ManagerInit ==
  /\ MapperInit
  /\ streams = [s \in {} |-> NoStream]
  /\ running = {}
  /\ ioActive = FALSE
  /\ deviceRate = DefaultRate
  /\ proposal = NoProposal
  /\ loading = {}
  /\ file = NoFile

Unlocked == loading = {}

\* createConfig: the session and the mapping are saved, isTransmit is not.
\* sends is a history field: the role the stream had.
Entry(s, m) == [id |-> s, sdp |-> m.sdp, mapping |-> m.mapping, sends |-> m.isTransmit]
SaveAllStreams == file' = {Entry(s, streams'[s]) : s \in DOMAIN streams'}

Managed(sdp, m, tx) ==
  [sdp |-> sdp, mapping |-> m, isTransmit |-> tx, start |-> m.deviceChannelStart]

Extended(s, managed) ==
  [t \in DOMAIN streams \cup {s} |-> IF t = s THEN managed ELSE streams[t]]

\* A uuid no stream and no entry of the file has.
Fresh(s) == s \notin DOMAIN streams /\ (file # NoFile => \A e \in file : e.id # s)

\* Fault: the session's rate is not compared.
FaultyCanAddStream(sdp) == sdp.numChannels <= AvailableChannelCount

CanAddStream(sdp) ==
  /\ sdp.sampleRate = deviceRate
  /\ sdp.numChannels <= AvailableChannelCount

-----------------------------------------------------------------------------
(* Adding and removing streams                                              *)

\* Fault: the threads are started whether Core Audio runs or not.
FaultyLaunched(s) == running \cup {s}

\* The threads start at once only when IO is active.
Launched(s) == IF ioActive THEN running \cup {s} ELSE running

\* The part both kinds of streams share.  A start that fails undoes the
\* mapping, so only the successful call is an action.
Insert(s, sdp, m, tx) ==
  /\ Fresh(s)
  /\ CanAddStream(sdp)
  /\ AddMapping(m)
  /\ streams' = Extended(s, Managed(sdp, m, tx))
  /\ running' = Launched(s)
  /\ SaveAllStreams
  /\ UNCHANGED <<ioActive, deviceRate, loading>>

\* The sequential mapping of a stream's n channels from start on.
Sequential(s, n, start) ==
  [streamID |-> s, streamChannelCount |-> n, deviceChannelStart |-> start,
   deviceChannelCount |-> n, channelMap |-> {}]

\* addStream(sdp, mapping): the device channel count becomes the stream's.
AddStream(s, sdp, m) ==
  /\ Unlocked
  /\ Insert(s, sdp, [m EXCEPT !.deviceChannelCount = sdp.numChannels], FALSE)
  /\ UNCHANGED proposal

\* createTxStream: its session has the device's rate and the default direction.
CreateTxStream(s, n, m) ==
  /\ Unlocked
  /\ Insert(s, [numChannels |-> n, sampleRate |-> deviceRate, direction |-> "recvonly"],
            [m EXCEPT !.deviceChannelCount = n], TRUE)
  /\ UNCHANGED proposal

\* addStream(sdp): createDefaultMapping has the mapper's lock only.
Propose(sdp) ==
  /\ proposal = NoProposal
  /\ \E start \in FindContiguousBlock(sdp.numChannels) :
       proposal' = [start |-> start, sdp |-> sdp]
  /\ UNCHANGED <<mapperVars, streams, running, ioActive, deviceRate, loading, file>>

AddProposed(s) ==
  /\ Unlocked /\ proposal # NoProposal
  /\ Insert(s, proposal.sdp, Sequential(s, proposal.sdp.numChannels, proposal.start), FALSE)
  /\ proposal' = NoProposal

\* The proposal no longer fits, or the threads did not start.
AddProposedFails ==
  /\ Unlocked /\ proposal # NoProposal
  /\ proposal' = NoProposal
  /\ UNCHANGED <<mapperVars, streams, running, ioActive, deviceRate, loading, file>>

RemoveStream(s) ==
  /\ Unlocked /\ s \in DOMAIN streams
  /\ RemoveMapping(s)
  /\ streams' = [t \in DOMAIN streams \ {s} |-> streams[t]]
  /\ running' = running \ {s}
  /\ SaveAllStreams
  /\ UNCHANGED <<ioActive, deviceRate, proposal, loading>>

\* No auto-save here: the destructor calls it.
RemoveAllStreams ==
  /\ Unlocked
  /\ ClearAll
  /\ streams' = [s \in {} |-> NoStream]
  /\ running' = {}
  /\ UNCHANGED <<ioActive, deviceRate, proposal, loading, file>>

-----------------------------------------------------------------------------
(* Mapping, IO and sample rate                                              *)

\* updateMapping: the mapper and the managed stream first, then the receiver
\* or transmitter, which checks its own channel count and restarts when it ran.
\* starts says whether that restart succeeds.
UpdateStreamMapping(s, m, starts) ==
  /\ Unlocked /\ s \in DOMAIN streams
  /\ UpdateMapping(m)
  /\ LET fits == m.deviceChannelStart + streams[s].sdp.numChannels <= MaxDeviceChannels
         updated == fits /\ (s \in running => starts)
     IN /\ streams' = [streams EXCEPT ![s].mapping = m,
                         ![s].start = IF fits THEN m.deviceChannelStart ELSE @]
        /\ running' = IF fits /\ ~starts THEN running \ {s} ELSE running
        /\ IF updated THEN SaveAllStreams ELSE UNCHANGED file
  /\ UNCHANGED <<ioActive, deviceRate, proposal, loading>>

\* setIOActive: start or stop every stream; a start may fail unnoticed.
SetIOActive(active, started) ==
  /\ Unlocked /\ active # ioActive
  /\ ioActive' = active
  /\ running' = IF active THEN started ELSE {}
  /\ started \subseteq DOMAIN streams
  /\ UNCHANGED <<mapperVars, streams, deviceRate, proposal, loading, file>>

\* Fault: the streams are not asked.
FaultyAcceptsRate(rate) == rate \in Rates

AcceptsRate(rate) == \A s \in DOMAIN streams : streams[s].sdp.sampleRate = rate

SetDeviceSampleRate(rate) ==
  /\ Unlocked /\ AcceptsRate(rate)
  /\ deviceRate' = rate
  /\ UNCHANGED <<mapperVars, streams, running, ioActive, proposal, loading, file>>

-----------------------------------------------------------------------------
(* Configuration file                                                       *)

LoadSavedStreams ==
  /\ Unlocked /\ file \notin {NoFile, {}}
  /\ loading' = file
  /\ UNCHANGED <<mapperVars, streams, running, ioActive, deviceRate, proposal, file>>

\* The sessions saved as senders become transmitters.
Reloaded(e) == Managed(e.sdp, e.mapping, e.sdp.direction \in {"sendonly", "sendrecv"})

Loadable(e) ==
  /\ e.id \notin DOMAIN streams
  /\ CanAddStream(e.sdp) /\ Accepts(e.mapping, NoStream)

LoadOne(e) ==
  /\ e \in loading
  /\ Loadable(e)
  /\ AddMapping(e.mapping)
  /\ streams' = Extended(e.id, Reloaded(e))
  /\ running' = Launched(e.id)
  /\ loading' = loading \ {e}
  /\ UNCHANGED <<ioActive, deviceRate, proposal, file>>

\* Passed over: not acceptable now, or its threads did not start.
LoadSkip(e) ==
  /\ e \in loading
  /\ ioActive \/ ~Loadable(e)
  /\ loading' = loading \ {e}
  /\ UNCHANGED <<mapperVars, streams, running, ioActive, deviceRate, proposal, file>>

\* The driver process ends and a new one starts.  One that ends while saving
\* leaves a torn file, which the next load moves aside.
Restart(torn) ==
  /\ ClearAll
  /\ streams' = [s \in {} |-> NoStream]
  /\ running' = {} /\ ioActive' = FALSE /\ deviceRate' = DefaultRate
  /\ proposal' = NoProposal /\ loading' = {}
  /\ file' = IF torn THEN NoFile ELSE file

Add ==
  \/ \E s \in Streams, sdp \in Sdp : \E m \in Requests(s, sdp.numChannels) : AddStream(s, sdp, m)
  \/ \E s \in Streams, n \in 1 .. MaxCount : \E m \in Requests(s, n) : CreateTxStream(s, n, m)
  \/ \E sdp \in Sdp : Propose(sdp)
  \/ \E s \in Streams : AddProposed(s)
  \/ AddProposedFails

Change ==
  \/ \E s \in Streams : RemoveStream(s)
  \/ \E s \in DOMAIN streams :
       \E m \in Requests(s, streams[s].sdp.numChannels), starts \in BOOLEAN :
         UpdateStreamMapping(s, m, starts)

Load == \E e \in loading : LoadOne(e) \/ LoadSkip(e)

\* The device that owns the manager (AES67Device).
Device ==
  \/ \E active \in BOOLEAN, started \in SUBSET DOMAIN streams : SetIOActive(active, started)
  \/ \E rate \in Rates : SetDeviceSampleRate(rate)
  \/ LoadSavedStreams
  \/ \E torn \in BOOLEAN : Restart(torn)

ManagerNext == Add \/ Change \/ RemoveAllStreams \/ Load \/ Device

ManagerSpec == ManagerInit /\ [][ManagerNext]_managerVars

-----------------------------------------------------------------------------
(* Properties                                                               *)

Sessions == [numChannels : 1 .. MaxCount, sampleRate : Rates,
             direction : Directions \cup {"recvonly"}]

ManagedStream == [sdp : Sessions, mapping : Mapping, isTransmit : BOOLEAN, start : Channels]

Entries == [id : Streams, sdp : Sessions, mapping : Mapping, sends : BOOLEAN]

\* Types, with: only streams in the table run.
ManagerTypeOK ==
  /\ mappings \in [DOMAIN mappings -> Mapping] /\ DOMAIN mappings \subseteq Streams
  /\ owners \in [Channels -> Streams \cup {NoStream}]
  /\ streams \in [DOMAIN streams -> ManagedStream] /\ DOMAIN streams \subseteq Streams
  /\ running \subseteq DOMAIN streams
  /\ ioActive \in BOOLEAN /\ deviceRate \in Rates
  /\ proposal = NoProposal \/ proposal \in [start : Channels, sdp : Sdp]
  /\ file # NoFile => file \subseteq Entries
  /\ loading \subseteq Entries

\* The mapper and the manager, which keep the mappings twice, agree (72-77,
\* 90, 194-198, 364-375): every path that fails half-way undoes its part.
MapperAgrees ==
  /\ DOMAIN mappings = DOMAIN streams
  /\ \A s \in DOMAIN streams : mappings[s] = streams[s].mapping

\* The channels the threads of stream s read or write: start .. start + n - 1,
\* none when that range leaves the device (552-555, 572-573).
Touched(s) ==
  LET first == streams[s].start
      n == streams[s].sdp.numChannels
  IN IF first + n > MaxDeviceChannels THEN {} ELSE first .. first + n - 1

\* "producer thread only", "consumer thread only" (RingBuffer.hpp 40, 75): no
\* two running receivers write, and no two transmitters read, the same ring.
SingleProducer ==
  \A s, t \in running :
    s # t /\ streams[s].isTransmit = streams[t].isTransmit
      => Touched(s) \cap Touched(t) = {}

\* The channels counted as free are those no stream touches: none leaks when a
\* stream is moved, removed or fails to start (StreamChannelMapper 386-394).
OwnersExact ==
  \A c \in Channels, s \in Streams :
    owners[c] = s <=> s \in DOMAIN streams /\ c \in Touched(s)

\* "Otherwise the stream is created dormant" (94-95): no network thread runs
\* while no Core Audio client does IO.
NoThreadsWithoutIO == ~ioActive => running = {}

\* "validates against streams" (StreamManager.h): every stream has the rate of
\* the device, whatever order of rate changes, additions and loads.
RatesAgree == \A s \in DOMAIN streams : streams[s].sdp.sampleRate = deviceRate

\* "Stream configurations persist across reboots" (README.md 31): a stream
\* loaded from the file has the role it was saved with.
RolesSurvive ==
  file # NoFile =>
    \A e \in file : e.id \in DOMAIN streams => streams[e.id].isTransmit = e.sends
=============================================================================
