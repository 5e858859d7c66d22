----------------------------- MODULE RTPReceiver -----------------------------
(***************************************************************************)
(* NetworkEngine/RTP/RTPReceiver: the receive thread puts packets into the  *)
(* jitter buffer, the consume thread takes one per packet interval in       *)
(* sequence order, and a control thread starts and stops both.  The jitter   *)
(* buffer is JitterSlots, which LockFreeCircularJitterBuffer implements.     *)
(*                                                                          *)
(* The sender and the consumer both keep the packet rate: lead counts the   *)
(* packets sent beyond the intervals consumed, within PaceSlack.  A starved *)
(* ring lengthens the consume interval (the rate matching, RTPReceiver.cpp  *)
(* 352-377): after StarveLimit intervals without audio one interval slips.  *)
(***************************************************************************)
EXTENDS Integers, FiniteSets

CONSTANTS Depth, SeqMod, CountMod, NoData,
          PrefillCount,  \* kPrefillPacketCount
          PaceSlack,     \* bound on the phase between sender and consumer
          StarveLimit,   \* intervals without audio before one slips
          MaxInFlight,   \* packets in the network and the socket buffer
          MaxLosses,     \* packets the network loses, in all
          AllowStop      \* does the control thread call stop()?

ASSUME ReceiverAssumption ==
  /\ Depth \in Nat \ {0} /\ SeqMod \in Nat \ {0} /\ CountMod \in Nat \ {0}
  /\ PrefillCount \in 1 .. Depth
  /\ PaceSlack \in Nat \ {0} /\ StarveLimit \in Nat \ {0}
  /\ MaxInFlight \in Nat \ {0} /\ MaxLosses \in Nat
  /\ AllowStop \in BOOLEAN

VARIABLES
  held, count, addPending, getPending, gotPacket,    \* the jitter buffer
  running, connected, expected, prefillComplete,
  rPc, cPc, ctl,         \* receive, consume and control thread
  nextSeq, inFlight, losses,   \* sender and network
  lead, starved, skipRun

jbVars == <<held, count, addPending, getPending, gotPacket>>
netVars == <<nextSeq, inFlight, losses>>
paceVars == <<lead, starved, skipRun>>
vars == <<jbVars, running, connected, expected, prefillComplete,
          rPc, cPc, ctl, netVars, paceVars>>

JB == INSTANCE JitterSlots

Seqs == 0 .. SeqMod - 1
SkipLimit == 2 * Depth        \* two laps of the buffer

Init ==
  /\ JB!Init
  /\ running = FALSE /\ connected = FALSE /\ expected = 0 /\ prefillComplete = FALSE
  /\ rPc = "off" /\ cPc = "off" /\ ctl = "idle"
  /\ nextSeq \in Seqs      \* RTP numbering starts anywhere
  /\ inFlight = {} /\ losses = 0
  /\ lead = 0 /\ starved = 0 /\ skipRun = 0

-----------------------------------------------------------------------------
(* Control thread                                                           *)

\* start(): clears the buffer while no thread runs, then launches both.
Start ==
  /\ ctl = "idle" /\ ~running
  /\ held' = JB!Empty /\ count' = 0
  /\ expected' = 0 /\ prefillComplete' = FALSE
  /\ running' = TRUE /\ rPc' = "poll" /\ cPc' = "prefill"
  /\ lead' = 0 /\ starved' = 0 /\ skipRun' = 0
  /\ UNCHANGED <<addPending, getPending, gotPacket, connected, ctl, netVars>>

\* stop(): lower the flag, join the receive thread, join the consume thread,
\* then close the socket (its queue is gone) and forget the connection.
Stop ==
  /\ AllowStop /\ ctl = "idle" /\ running
  /\ running' = FALSE /\ ctl' = "joinReceive"
  /\ UNCHANGED <<jbVars, connected, expected, prefillComplete, rPc, cPc, netVars, paceVars>>

JoinReceive ==
  /\ ctl = "joinReceive" /\ rPc = "off"
  /\ ctl' = "joinConsume"
  /\ UNCHANGED <<jbVars, running, connected, expected, prefillComplete, rPc, cPc,
                 netVars, paceVars>>

\* Fault: the consume thread is not joined.
FaultyJoinConsume ==
  /\ ctl = "joinConsume"
  /\ ctl' = "idle" /\ connected' = FALSE /\ inFlight' = {}
  /\ UNCHANGED <<jbVars, running, expected, prefillComplete, rPc, cPc,
                 nextSeq, losses, paceVars>>

JoinConsume ==
  /\ ctl = "joinConsume" /\ cPc = "off"
  /\ ctl' = "idle" /\ connected' = FALSE /\ inFlight' = {}
  /\ UNCHANGED <<jbVars, running, expected, prefillComplete, rPc, cPc,
                 nextSeq, losses, paceVars>>

-----------------------------------------------------------------------------
(* receiveLoop() and processPacket()                                        *)

ReceivePoll ==
  /\ rPc = "poll"
  /\ rPc' = IF running THEN "select" ELSE "off"
  /\ UNCHANGED <<jbVars, running, connected, expected, prefillComplete, cPc, ctl,
                 netVars, paceVars>>

SelectTimeout ==
  /\ rPc = "select" /\ inFlight = {}
  /\ rPc' = "poll"
  /\ UNCHANGED <<jbVars, running, connected, expected, prefillComplete, cPc, ctl,
                 netVars, paceVars>>

\* Fault: playback starts at number 0, not at the first packet's.
FaultyProcessPacket(p) ==
  /\ rPc = "select" /\ p \in inFlight
  /\ inFlight' = inFlight \ {p}
  /\ connected' = TRUE
  /\ \/ JB!Put(p) /\ rPc' = "count"
     \/ JB!Drop(p) /\ rPc' = "poll"
  /\ UNCHANGED <<running, expected, prefillComplete, cPc, ctl, nextSeq, losses, paceVars>>

\* The first packet of a connection sets the number playback starts at.
ProcessPacket(p) ==
  /\ rPc = "select" /\ p \in inFlight
  /\ inFlight' = inFlight \ {p}
  /\ connected' = TRUE
  /\ expected' = IF connected THEN expected ELSE p
  /\ \/ JB!Put(p) /\ rPc' = "count"
     \/ JB!Drop(p) /\ rPc' = "poll"
  /\ UNCHANGED <<running, prefillComplete, cPc, ctl, nextSeq, losses, paceVars>>

CountAdded ==
  /\ rPc = "count"
  /\ JB!CountPut
  /\ rPc' = "poll"
  /\ UNCHANGED <<running, connected, expected, prefillComplete, cPc, ctl, netVars, paceVars>>

Receive == ReceivePoll \/ SelectTimeout \/ CountAdded \/ \E p \in inFlight : ProcessPacket(p)

-----------------------------------------------------------------------------
(* consumeLoop()                                                            *)

\* Fault: the prefill loop does not look at the running flag.
DeafPrefillWaits == count < PrefillCount

\* Fault: the prefill waits for more packets than the buffer holds.
GreedyPrefillWaits == running /\ count <= Depth

\* Phase 1: wait until enough packets are buffered, or stop() is called.
PrefillWaits == running /\ count < PrefillCount

PrefillPoll ==
  /\ cPc = "prefill" /\ PrefillWaits
  /\ lead > -PaceSlack
  /\ lead' = lead - 1
  /\ UNCHANGED <<jbVars, running, connected, expected, prefillComplete, rPc, cPc, ctl,
                 netVars, starved, skipRun>>

PrefillDone ==
  /\ cPc = "prefill" /\ ~PrefillWaits
  /\ prefillComplete' = running
  /\ cPc' = "loop" /\ lead' = 0
  /\ UNCHANGED <<jbVars, running, connected, expected, rPc, ctl, netVars, starved, skipRun>>

ConsumeLoop ==
  /\ cPc = "loop"
  /\ cPc' = IF running THEN "sleep" ELSE "off"
  /\ UNCHANGED <<jbVars, running, connected, expected, prefillComplete, rPc, ctl,
                 netVars, paceVars>>

\* The interval is over: ask for the expected packet.
ConsumeTick ==
  /\ cPc = "sleep" /\ lead > -PaceSlack /\ starved < StarveLimit
  /\ lead' = lead - 1
  /\ \/ JB!Take(expected) /\ cPc' = "count"
     \/ JB!Miss(expected) /\ cPc' = "missed"
  /\ UNCHANGED <<running, connected, expected, prefillComplete, rPc, ctl, netVars,
                 starved, skipRun>>

\* Rate matching against an empty ring: this interval is longer than nominal.
RateSlip ==
  /\ cPc = "sleep" /\ lead > -PaceSlack /\ starved = StarveLimit
  /\ lead' = lead - 1 /\ starved' = 0
  /\ UNCHANGED <<jbVars, running, connected, expected, prefillComplete, rPc, cPc, ctl,
                 netVars, skipRun>>

CountTaken ==
  /\ cPc = "count"
  /\ JB!CountTake
  /\ cPc' = IF gotPacket THEN "got" ELSE "missed"
  /\ UNCHANGED <<running, connected, expected, prefillComplete, rPc, ctl, netVars, paceVars>>

\* Fault: the sequence number does not wrap.
FaultyPlay ==
  /\ cPc = "got"
  /\ expected' = expected + 1
  /\ cPc' = "loop" /\ starved' = 0 /\ skipRun' = 0
  /\ UNCHANGED <<jbVars, running, connected, prefillComplete, rPc, ctl, netVars, lead>>

\* The packet is decoded into the device rings.
Play ==
  /\ cPc = "got"
  /\ expected' = (expected + 1) % SeqMod
  /\ cPc' = "loop" /\ starved' = 0 /\ skipRun' = 0
  /\ UNCHANGED <<jbVars, running, connected, prefillComplete, rPc, ctl, netVars, lead>>

Starve == starved' = IF starved < StarveLimit THEN starved + 1 ELSE starved

\* Fault: a lost packet is waited for, not skipped.
FaultySkip ==
  /\ cPc = "missed" /\ count > 0
  /\ cPc' = "loop" /\ Starve
  /\ skipRun' = IF skipRun > SkipLimit THEN skipRun ELSE skipRun + 1
  /\ UNCHANGED <<jbVars, running, connected, expected, prefillComplete, rPc, ctl,
                 netVars, lead>>

\* "Buffer has packets but not the one we want": skip one number.
Skip ==
  /\ cPc = "missed" /\ count > 0
  /\ expected' = (expected + 1) % SeqMod
  /\ cPc' = "loop" /\ Starve
  /\ skipRun' = IF skipRun > SkipLimit THEN skipRun ELSE skipRun + 1
  /\ UNCHANGED <<jbVars, running, connected, prefillComplete, rPc, ctl, netVars, lead>>

\* "Buffer completely empty": wait for the same number.
Underrun ==
  /\ cPc = "missed" /\ count = 0
  /\ cPc' = "loop" /\ Starve /\ skipRun' = 0
  /\ UNCHANGED <<jbVars, running, connected, expected, prefillComplete, rPc, ctl,
                 netVars, lead>>

Consume == PrefillPoll \/ PrefillDone \/ ConsumeLoop \/ ConsumeTick \/ RateSlip \/ CountTaken
             \/ Play \/ Skip \/ Underrun

-----------------------------------------------------------------------------
(* Sender and network: one packet per interval, some of them lost           *)

Paced == cPc # "off"

Send(lost) ==
  /\ Paced => lead < PaceSlack
  /\ lead' = IF Paced THEN lead + 1 ELSE lead
  /\ nextSeq' = (nextSeq + 1) % SeqMod
  /\ IF lost THEN /\ running /\ losses < MaxLosses
                  /\ losses' = losses + 1
                  /\ UNCHANGED inFlight
     ELSE /\ UNCHANGED losses
          /\ IF running
             THEN /\ Cardinality(inFlight) < MaxInFlight
                  /\ inFlight' = inFlight \cup {nextSeq}
             ELSE UNCHANGED inFlight
  /\ UNCHANGED <<jbVars, running, connected, expected, prefillComplete, rPc, cPc, ctl,
                 starved, skipRun>>

Next ==
  \/ Start \/ Stop \/ JoinReceive \/ JoinConsume
  \/ Receive \/ Consume
  \/ \E lost \in BOOLEAN : Send(lost)

Spec == Init /\ [][Next]_vars

\* Both threads run at real-time priority; the sender keeps sending; a join
\* returns once its thread has ended.
Fairness ==
  /\ WF_vars(Receive)
  /\ WF_vars(Consume)
  /\ WF_vars(Start)
  /\ WF_vars(JoinReceive \/ JoinConsume)
  /\ WF_vars(Send(FALSE))

FairSpec == Spec /\ Fairness

-----------------------------------------------------------------------------
(* The stream the buffer is deep enough for                                 *)

\* The slots divide the number space, which is at least two laps long.
WholeLaps == SeqMod % Depth = 0 /\ 2 * Depth <= SeqMod

\* What the losses can make of the consumer's lag behind the sender, in starved
\* intervals: when playback starts, after an underrun and after a late packet.
LoadFilled == StarveLimit * (PrefillCount + 1 + MaxLosses + 2 * PaceSlack) + MaxLosses
LoadEmptied == StarveLimit * (4 + MaxLosses + PaceSlack) + 2 + MaxLosses
LoadLate == StarveLimit * (MaxLosses + PaceSlack + 1) + Depth

Larger(a, b) == IF a >= b THEN a ELSE b
MaxLoad == Larger(LoadFilled, Larger(LoadEmptied, LoadLate))

\* The network keeps the order, a packet is received before the next one comes,
\* and the lag stays less than one lap.
Fits ==
  /\ WholeLaps /\ NoData \notin Seqs /\ CountMod > Depth + 1 /\ MaxInFlight = 1
  /\ MaxLoad < StarveLimit * (Depth - PaceSlack + 1)

\* What can be skipped in a row is less than two laps.
SkipsAreFew == MaxLoad - StarveLimit * PrefillCount < SkipLimit

-----------------------------------------------------------------------------
(* Properties                                                               *)

TypeOK ==
  /\ held \in [JB!Slots -> Seqs \cup {NoData}] /\ count \in 0 .. CountMod - 1
  /\ addPending \in BOOLEAN /\ getPending \in BOOLEAN /\ gotPacket \in BOOLEAN
  /\ running \in BOOLEAN /\ connected \in BOOLEAN /\ prefillComplete \in BOOLEAN
  /\ expected \in Seqs /\ nextSeq \in Seqs /\ inFlight \subseteq Seqs
  /\ losses \in 0 .. MaxLosses
  /\ rPc \in {"off", "poll", "select", "count"}
  /\ cPc \in {"off", "prefill", "loop", "sleep", "count", "got", "missed"}
  /\ ctl \in {"idle", "joinReceive", "joinConsume"}
  /\ lead \in -PaceSlack .. PaceSlack
  /\ starved \in 0 .. StarveLimit /\ skipRun \in 0 .. SkipLimit + 1

\* a is at most half the number space behind b.
Older(a, b) == (b - a) % SeqMod \in 1 .. SeqMod \div 2

\* "Wrong packet in this slot (stale from a previous wrap-around)"
\* (LockFreeCircularJitterBuffer.cpp 120): a packet thrown away on a mismatch
\* is one playback has already passed.
DiscardsOnlyStale ==
  LET there == held[JB!SlotOf(expected)]
  IN cPc = "sleep" /\ there \notin {NoData, expected} => Older(there, expected)

\* "Skip to the next sequence number so we don't stall" (341-342): skipping
\* finds a packet to play before it has gone twice round the buffer.
SkipDoesNotStall == skipRun <= SkipLimit

\* Once stop() has returned both threads have ended, and no counter update of
\* theirs is left to disturb the reset of the next start() (145-162, 118-121).
StopIsClean ==
  ctl = "idle" /\ ~running =>
    rPc = "off" /\ cPc = "off" /\ ~addPending /\ ~getPending

\* Playback goes on: while the receiver runs, a packet is played again and
\* again, however the threads interleave and whatever the network lost.
KeepsPlaying == []<>(cPc = "got")

\* stop() returns, also while the consumer still waits for its prefill.
StopReturns == ctl # "idle" ~> ctl = "idle"
=============================================================================
