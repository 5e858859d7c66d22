----------------------------- MODULE AES67Device -----------------------------
(***************************************************************************)
(* Driver/AES67Device: the Core Audio device that owns the StreamManager.     *)
(* Core Audio calls one of its control handlers at a time (StartIO, StopIO,   *)
(* the sample-rate setter), while other threads call the manager directly.     *)
(* A handler is split where it calls the manager, which may be locked.         *)
(***************************************************************************)
EXTENDS StreamManager

CONSTANTS MaxClients,   \* bound: Core Audio clients doing IO at once
          TestChannels  \* channels of each test stream of Initialize()

ASSUME DeviceAssumption ==
  /\ MaxClients \in Nat \ {0} /\ TestChannels \in 1 .. MaxCount
  /\ "recvonly" \in Directions   \* the default of SDPSession

VARIABLES
  clients,             \* clients doing IO (the startCount of libASPL)
  ioRunning,           \* ioRunning_
  currentSampleRate,   \* currentSampleRate_
  handler              \* the control handler in progress, or phase of Initialize()

deviceVars == <<clients, ioRunning, currentSampleRate, handler>>
vars == <<managerVars, deviceVars>>

Init ==
  /\ ManagerInit
  /\ clients = 0 /\ ioRunning = FALSE
  /\ currentSampleRate = DefaultRate
  /\ handler = "initialize"

-----------------------------------------------------------------------------
(* Initialize()                                                             *)

\* There is something to load; Load goes through it.
InitializeLoad ==
  /\ handler = "initialize"
  /\ LoadSavedStreams
  /\ handler' = "loading"
  /\ UNCHANGED <<clients, ioRunning, currentSampleRate>>

InitializeNothing ==
  /\ handler = "initialize" /\ file \in {NoFile, {}}
  /\ handler' = "testRx"
  /\ UNCHANGED <<managerVars, clients, ioRunning, currentSampleRate>>

\* loadSavedStreams returns whether it loaded any.
InitializeLoaded ==
  /\ handler = "loading" /\ Unlocked
  /\ handler' = IF streams # [s \in {} |-> NoStream] THEN "idle" ELSE "testRx"
  /\ UNCHANGED <<managerVars, clients, ioRunning, currentSampleRate>>

TestSdp == [numChannels |-> TestChannels, sampleRate |-> 48, direction |-> "recvonly"]

\* The test streams, when they fit: a receiver on the first free block, a
\* transmitter on the channels after TestChannels.
InitializeTestRx ==
  /\ handler = "testRx"
  /\ \E s \in Streams, start \in FindContiguousBlock(TestChannels) :
       AddStream(s, TestSdp, Sequential(s, TestChannels, start))
  /\ handler' = "testTx"
  /\ UNCHANGED <<clients, ioRunning, currentSampleRate>>

InitializeTestTx ==
  /\ handler = "testTx"
  /\ \E s \in Streams :
       CreateTxStream(s, TestChannels, Sequential(s, TestChannels, TestChannels))
  /\ handler' = "idle"
  /\ UNCHANGED <<clients, ioRunning, currentSampleRate>>

\* addStream or createTxStream refuses (or, a bound, no id is left).
InitializeNoTest ==
  /\ \/ ~CanAddStream(TestSdp)
     \/ \A s \in Streams : ~Fresh(s)
     \/ handler = "testTx" /\ 2 * TestChannels > MaxDeviceChannels
  /\ \/ handler = "testRx" /\ handler' = "testTx"
     \/ handler = "testTx" /\ handler' = "idle"
  /\ UNCHANGED <<managerVars, clients, ioRunning, currentSampleRate>>

-----------------------------------------------------------------------------
(* StartIOImpl and StopIOImpl                                               *)

StartFirst ==
  /\ handler = "idle" /\ clients = 0
  /\ ioRunning' = TRUE /\ handler' = "start"
  /\ UNCHANGED <<managerVars, clients, currentSampleRate>>

StartStreams ==
  /\ handler = "start"
  /\ \E started \in SUBSET DOMAIN streams : SetIOActive(TRUE, started)
  /\ handler' = "idle" /\ clients' = 1
  /\ UNCHANGED <<ioRunning, currentSampleRate>>

StartFurther ==
  /\ handler = "idle" /\ clients \in 1 .. MaxClients - 1
  /\ clients' = clients + 1
  /\ UNCHANGED <<managerVars, ioRunning, currentSampleRate, handler>>

\* Fault: the first client that leaves stops the streams.
FaultyLastClient == clients > 0

LastClient == clients = 1

StopFurther ==
  /\ handler = "idle" /\ clients > 0 /\ ~LastClient
  /\ clients' = clients - 1
  /\ UNCHANGED <<managerVars, ioRunning, currentSampleRate, handler>>

StopStreams ==
  /\ handler = "idle" /\ LastClient
  /\ SetIOActive(FALSE, {})
  /\ handler' = "stop" /\ clients' = clients - 1
  /\ UNCHANGED <<ioRunning, currentSampleRate>>

StopLast ==
  /\ handler = "stop"
  /\ ioRunning' = FALSE /\ handler' = "idle"
  /\ UNCHANGED <<managerVars, clients, currentSampleRate>>

-----------------------------------------------------------------------------
(* SetSampleRate                                                            *)

SetSampleRate(rate) ==
  /\ handler = "idle" /\ ~ioRunning
  /\ currentSampleRate' = rate
  /\ handler' = "rate"
  /\ UNCHANGED <<managerVars, clients, ioRunning>>

\* The manager may refuse the rate; its answer is not looked at.
TellManager ==
  /\ handler = "rate" /\ Unlocked
  /\ \/ SetDeviceSampleRate(currentSampleRate)
     \/ ~AcceptsRate(currentSampleRate) /\ UNCHANGED managerVars
  /\ handler' = "idle"
  /\ UNCHANGED <<clients, ioRunning, currentSampleRate>>

\* The driver's process ends, the manager's removeAllStreams() with it, or
\* dies, and a new one starts.
DriverRestart(torn) ==
  /\ Restart(torn)
  /\ clients' = 0 /\ ioRunning' = FALSE
  /\ currentSampleRate' = DefaultRate /\ handler' = "initialize"

Initialize ==
  \/ InitializeLoad \/ InitializeNothing \/ InitializeLoaded
  \/ InitializeTestRx \/ InitializeTestTx \/ InitializeNoTest

IO == StartFirst \/ StartStreams \/ StartFurther \/ StopFurther \/ StopStreams \/ StopLast

Initializing == handler \in {"initialize", "loading", "testRx", "testTx"}

Next ==
  \/ Initialize
  \/ IO
  \/ \E rate \in Rates : SetSampleRate(rate)
  \/ TellManager
  \/ \E torn \in BOOLEAN : DriverRestart(torn)
  \/ Load /\ UNCHANGED deviceVars
  \/ ~Initializing /\ (Add \/ Change) /\ UNCHANGED deviceVars

Spec == Init /\ [][Next]_vars

-----------------------------------------------------------------------------
(* Properties                                                               *)

\* Between two control handlers the device and its manager agree on whether
\* IO runs, and it runs exactly while some client does IO (353-395).
IOStateAgrees ==
  handler = "idle" => (ioRunning <=> clients > 0) /\ (ioActive <=> ioRunning)

\* Network threads only run on behalf of a Core Audio client: with the flag
\* raised before the first start and lowered after the last stop (364-391).
ThreadsOnlyDuringIO == running # {} => ioRunning

\* "Update StreamManager's sample rate" (282): after the handler the device
\* and the manager have the same rate.
DeviceRateAgrees == handler = "idle" => currentSampleRate = deviceRate

\* "Stream configurations persist across reboots" (README.md 31): an entry
\* leaves the configuration file only with the stream it belongs to.
SavedStreamsSurvive ==
  [][file # NoFile /\ file' # NoFile =>
       \A e \in file : e.id \in DOMAIN streams \/ \E f \in file' : f.id = e.id]_vars
=============================================================================
