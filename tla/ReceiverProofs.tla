---------------------------- MODULE ReceiverProofs ----------------------------
(***************************************************************************)
(* Theorems about RTPReceiver, for any depth, number space, pace and bound on *)
(* the losses.  First its types and stop(); then, for a stream that fits the  *)
(* buffer (Fits), that only stale packets are thrown away and that skipping   *)
(* ends.                                                                      *)
(*                                                                            *)
(* The argument of the second part: let the lag be the distance from the      *)
(* expected number to the next one to be sent.  As long as it is less than    *)
(* a lap, a slot has the number that will be asked for or the one a lap       *)
(* before it, which is stale.  Both threads keep the packet rate, so the lag  *)
(* grows only when an interval slips, which takes StarveLimit intervals       *)
(* without audio, or when the consumer waits for a number.  An interval is    *)
(* without audio because its packet is lost, because a packet of the lap      *)
(* before is in its slot, or because it is late, and then the lag is small.   *)
(* Load counts all of these against the lag: no step makes it exceed          *)
(* MaxLoad.  The number of skips in a row is bounded by the same load.        *)
(***************************************************************************)
EXTENDS RTPReceiver, FiniteSetTheorems, TLAPS

\* A counter update is pending exactly while its thread is about to make it,
\* and stop() has joined each thread before it goes on.
ThreadsAndPending ==
  /\ addPending <=> rPc = "count"
  /\ getPending <=> cPc = "count"
  /\ ctl = "idle" /\ ~running => rPc = "off" /\ cPc = "off"
  /\ ctl # "idle" => ~running
  /\ ctl = "joinConsume" => rPc = "off"

BufferTyped ==
  /\ held \in [JB!Slots -> Seqs \cup {NoData}] /\ count \in 0 .. CountMod - 1
  /\ addPending \in BOOLEAN /\ getPending \in BOOLEAN /\ gotPacket \in BOOLEAN

FlowTyped ==
  /\ running \in BOOLEAN /\ connected \in BOOLEAN /\ prefillComplete \in BOOLEAN
  /\ expected \in Seqs /\ nextSeq \in Seqs /\ inFlight \subseteq Seqs

ThreadsTyped ==
  /\ rPc \in {"off", "poll", "select", "count"}
  /\ cPc \in {"off", "prefill", "loop", "sleep", "count", "got", "missed"}
  /\ ctl \in {"idle", "joinReceive", "joinConsume"}

PaceTyped ==
  /\ losses \in 0 .. MaxLosses
  /\ lead \in -PaceSlack .. PaceSlack
  /\ starved \in 0 .. StarveLimit /\ skipRun \in 0 .. SkipLimit + 1

ReceiverInv == BufferTyped /\ FlowTyped /\ ThreadsTyped /\ PaceTyped /\ ThreadsAndPending

\* Slots and numbers stay in range.
LEMMA SlotInRange == \A seq \in Seqs : JB!SlotOf(seq) \in JB!Slots
BY ReceiverAssumption DEF JB!SlotOf, JB!Slots, Seqs

LEMMA WrapsInRange ==
  /\ \A n \in Int : n % SeqMod \in Seqs /\ n % CountMod \in 0 .. CountMod - 1
  /\ 0 \in Seqs /\ 0 \in 0 .. CountMod - 1
BY ReceiverAssumption DEF Seqs

\* What one operation of the jitter buffer does to the types and flags.
LEMMA PutTyped ==
  ASSUME NEW p \in Seqs, held \in [JB!Slots -> Seqs \cup {NoData}], JB!Put(p)
  PROVE  /\ held' \in [JB!Slots -> Seqs \cup {NoData}] /\ addPending' = TRUE
         /\ UNCHANGED <<count, getPending, gotPacket>>
BY SlotInRange DEF JB!Put

LEMMA TakeTyped ==
  ASSUME NEW p \in Seqs, held \in [JB!Slots -> Seqs \cup {NoData}], JB!Take(p)
  PROVE  /\ held' \in [JB!Slots -> Seqs \cup {NoData}] /\ getPending' = TRUE
         /\ gotPacket' \in BOOLEAN /\ UNCHANGED <<count, addPending>>
BY SlotInRange DEF JB!Take

LEMMA InitReceiver == Init => ReceiverInv
<1> SUFFICES ASSUME Init PROVE ReceiverInv
  OBVIOUS
<1>1. BufferTyped /\ FlowTyped
  BY WrapsInRange DEF Init, JB!Init, JB!Empty, BufferTyped, FlowTyped
<1>2. PaceTyped
  BY ReceiverAssumption DEF Init, PaceTyped, SkipLimit
<1>3. ThreadsTyped /\ ThreadsAndPending
  BY DEF Init, JB!Init, ThreadsTyped, ThreadsAndPending
<1> QED BY <1>1, <1>2, <1>3 DEF ReceiverInv

\* The buffer: types and pending flags.
LEMMA NextBuffer ==
  ASSUME ReceiverInv, Next
  PROVE  BufferTyped' /\ (addPending' <=> rPc' = "count") /\ (getPending' <=> cPc' = "count")
<1> DEFINE Goal == /\ BufferTyped'
                   /\ (addPending' <=> rPc' = "count") /\ (getPending' <=> cPc' = "count")
<1> USE DEF BufferTyped, jbVars
<1>a. /\ BufferTyped /\ (addPending <=> rPc = "count") /\ (getPending <=> cPc = "count")
      /\ ctl = "idle" /\ ~running => rPc = "off" /\ cPc = "off"
      /\ expected \in Seqs /\ inFlight \subseteq Seqs
  BY DEF ReceiverInv, ThreadsAndPending, FlowTyped
<1>1. ASSUME Start PROVE Goal
  <2>1. held' \in [JB!Slots -> Seqs \cup {NoData}] /\ count' \in 0 .. CountMod - 1
    BY <1>1, WrapsInRange DEF Start, JB!Empty
  <2>2. addPending' = addPending /\ getPending' = getPending /\ gotPacket' = gotPacket
        /\ rPc' = "poll" /\ cPc' = "prefill" /\ rPc = "off" /\ cPc = "off"
    BY <1>1, <1>a DEF Start
  <2> QED BY <1>a, <2>1, <2>2
<1>2. ASSUME NEW p \in inFlight, ProcessPacket(p) PROVE Goal
  <2>1. CASE JB!Put(p) /\ rPc' = "count"
    BY <1>2, <1>a, <2>1, PutTyped DEF ProcessPacket
  <2>2. CASE JB!Drop(p) /\ rPc' = "poll"
    <3>1. UNCHANGED jbVars /\ ~addPending /\ cPc' = cPc
      BY <1>2, <2>2 DEF ProcessPacket, JB!Drop, JB!slotsVars
    <3> QED BY <1>a, <2>2, <3>1
  <2> QED BY <1>2, <2>1, <2>2 DEF ProcessPacket
<1>3. ASSUME CountAdded PROVE Goal
  <2>1. count' \in 0 .. CountMod - 1
    BY <1>3, <1>a, WrapsInRange DEF CountAdded, JB!CountPut
  <2> QED BY <1>3, <1>a, <2>1 DEF CountAdded, JB!CountPut
<1>4. ASSUME ConsumeTick PROVE Goal
  <2>1. CASE JB!Take(expected) /\ cPc' = "count"
    <3>1. PICK p \in Seqs : p = expected
      BY <1>a
    <3>2. JB!Take(p)
      BY <2>1, <3>1 DEF JB!Take
    <3> QED BY <1>4, <1>a, <2>1, <3>2, TakeTyped DEF ConsumeTick
  <2>2. CASE JB!Miss(expected) /\ cPc' = "missed"
    BY <1>4, <1>a, <2>2 DEF ConsumeTick, JB!Miss
  <2> QED BY <1>4, <2>1, <2>2 DEF ConsumeTick
<1>5. ASSUME CountTaken PROVE Goal
  <2>1. count' \in 0 .. CountMod - 1
    BY <1>5, <1>a, WrapsInRange DEF CountTaken, JB!CountTake
  <2> QED BY <1>5, <1>a, <2>1 DEF CountTaken, JB!CountTake
<1>6. ASSUME \/ Stop \/ JoinReceive \/ JoinConsume \/ ReceivePoll \/ SelectTimeout
             \/ \E lost \in BOOLEAN : Send(lost)
      PROVE  Goal
  <2>1. UNCHANGED <<jbVars, cPc>>
    BY <1>6 DEF Stop, JoinReceive, JoinConsume, ReceivePoll, SelectTimeout, Send
  <2>2. (rPc = "count") <=> (rPc' = "count")
    BY <1>6 DEF Stop, JoinReceive, JoinConsume, ReceivePoll, SelectTimeout, Send
  <2> QED BY <1>a, <2>1, <2>2
<1>7. ASSUME \/ PrefillPoll \/ PrefillDone \/ ConsumeLoop \/ RateSlip \/ Play \/ Skip \/ Underrun
      PROVE  Goal
  <2>1. UNCHANGED <<jbVars, rPc>>
    BY <1>7 DEF PrefillPoll, PrefillDone, ConsumeLoop, RateSlip, Play, Skip, Underrun
  <2>2. (cPc = "count") <=> (cPc' = "count")
    BY <1>7 DEF PrefillPoll, PrefillDone, ConsumeLoop, RateSlip, Play, Skip, Underrun
  <2> QED BY <1>a, <2>1, <2>2
<1> QED BY <1>1, <1>2, <1>3, <1>4, <1>5, <1>6, <1>7 DEF Next, Receive, Consume

\* The numbers of the stream and the pace of the threads.
LEMMA NextFlow ==
  ASSUME ReceiverInv, Next
  PROVE  FlowTyped' /\ PaceTyped'
<1>a. FlowTyped /\ PaceTyped
  BY DEF ReceiverInv
<1>b. /\ PaceSlack \in Nat /\ StarveLimit \in Nat /\ MaxLosses \in Nat /\ SkipLimit \in Nat
      /\ StarveLimit > 0 /\ PaceSlack > 0
  BY ReceiverAssumption DEF SkipLimit
<1>c. expected \in Int /\ nextSeq \in Int
  BY <1>a DEF FlowTyped, Seqs
<1> DEFINE Goal == FlowTyped' /\ PaceTyped'
<1>1. ASSUME Start PROVE Goal
  <2>1. FlowTyped'
    BY <1>1, <1>a, WrapsInRange DEF Start, FlowTyped, netVars
  <2>2. PaceTyped'
    BY <1>1, <1>a, <1>b DEF Start, PaceTyped, netVars
  <2> QED BY <2>1, <2>2
<1>2. ASSUME \/ Stop \/ JoinReceive \/ JoinConsume \/ ReceivePoll \/ SelectTimeout \/ CountAdded
             \/ ConsumeLoop \/ CountTaken
      PROVE  Goal
  <2>1. /\ UNCHANGED <<expected, prefillComplete, nextSeq, losses, paceVars>>
        /\ running' \in {running, FALSE} /\ connected' \in {connected, FALSE}
        /\ inFlight' \in {inFlight, {}}
    BY <1>2 DEF Stop, JoinReceive, JoinConsume, ReceivePoll, SelectTimeout, CountAdded,
       ConsumeLoop, CountTaken, netVars
  <2> QED BY <1>a, <2>1 DEF FlowTyped, PaceTyped, paceVars
<1>3. ASSUME NEW p \in inFlight, ProcessPacket(p) PROVE Goal
  BY <1>3, <1>a DEF ProcessPacket, FlowTyped, PaceTyped, paceVars
<1>4. ASSUME PrefillPoll \/ PrefillDone PROVE Goal
  <2>1. FlowTyped'
    BY <1>4, <1>a DEF PrefillPoll, PrefillDone, FlowTyped, netVars
  <2>2. PaceTyped'
    BY <1>4, <1>a, <1>b DEF PrefillPoll, PrefillDone, PaceTyped, netVars
  <2> QED BY <2>1, <2>2
<1>5. ASSUME ConsumeTick \/ RateSlip PROVE Goal
  <2>1. FlowTyped'
    BY <1>5, <1>a DEF ConsumeTick, RateSlip, FlowTyped, netVars
  <2>2. PaceTyped'
    BY <1>5, <1>a, <1>b DEF ConsumeTick, RateSlip, PaceTyped, netVars
  <2> QED BY <2>1, <2>2
<1>6. ASSUME Play \/ Skip \/ Underrun PROVE Goal
  <2>1. (expected + 1) % SeqMod \in Seqs
    BY <1>c, WrapsInRange
  <2>2. FlowTyped'
    BY <1>6, <1>a, <2>1 DEF Play, Skip, Underrun, FlowTyped, netVars
  <2>3. PaceTyped'
    BY <1>6, <1>a, <1>b DEF Play, Skip, Underrun, Starve, PaceTyped, netVars
  <2> QED BY <2>2, <2>3
<1>7. ASSUME NEW lost \in BOOLEAN, Send(lost) PROVE Goal
  <2>1. (nextSeq + 1) % SeqMod \in Seqs
    BY <1>c, WrapsInRange
  <2>2. FlowTyped'
    BY <1>7, <1>a, <2>1 DEF Send, FlowTyped
  <2>3. PaceTyped'
    BY <1>7, <1>a, <1>b DEF Send, PaceTyped
  <2> QED BY <2>2, <2>3
<1> QED BY <1>1, <1>2, <1>3, <1>4, <1>5, <1>6, <1>7 DEF Next, Receive, Consume

\* The joins.
LEMMA NextThreads ==
  ASSUME ReceiverInv, Next
  PROVE  /\ ThreadsTyped'
         /\ ctl' = "idle" /\ ~running' => rPc' = "off" /\ cPc' = "off"
         /\ ctl' # "idle" => ~running'
         /\ ctl' = "joinConsume" => rPc' = "off"
<1> DEFINE Goal == /\ ThreadsTyped'
                   /\ ctl' = "idle" /\ ~running' => rPc' = "off" /\ cPc' = "off"
                   /\ ctl' # "idle" => ~running'
                   /\ ctl' = "joinConsume" => rPc' = "off"
<1> USE DEF ThreadsTyped
<1>a. /\ ThreadsTyped
      /\ ctl = "idle" /\ ~running => rPc = "off" /\ cPc = "off"
      /\ ctl # "idle" => ~running
      /\ ctl = "joinConsume" => rPc = "off"
  BY DEF ReceiverInv, ThreadsAndPending
<1>1. ASSUME Start \/ Stop \/ JoinReceive \/ JoinConsume PROVE Goal
  BY <1>1, <1>a DEF Start, Stop, JoinReceive, JoinConsume
<1>2. ASSUME ReceivePoll \/ SelectTimeout \/ CountAdded \/ \E p \in inFlight : ProcessPacket(p)
      PROVE  Goal
  <2>1. UNCHANGED <<running, cPc, ctl>> /\ rPc # "off" /\ rPc' \in {"off", "poll", "select", "count"}
    BY <1>2 DEF ReceivePoll, SelectTimeout, CountAdded, ProcessPacket
  <2>2. rPc' = "off" => ~running
    BY <1>2 DEF ReceivePoll, SelectTimeout, CountAdded, ProcessPacket
  <2> QED BY <1>a, <2>1, <2>2
<1>3. ASSUME Consume PROVE Goal
  <2>1. UNCHANGED <<running, rPc, ctl>> /\ cPc # "off"
        /\ cPc' \in {"off", "prefill", "loop", "sleep", "count", "got", "missed"}
    BY <1>3 DEF Consume, PrefillPoll, PrefillDone, ConsumeLoop, ConsumeTick, RateSlip, CountTaken,
       Play, Skip, Underrun
  <2> QED BY <1>a, <2>1
<1>4. ASSUME NEW lost \in BOOLEAN, Send(lost) PROVE Goal
  BY <1>4, <1>a DEF Send
<1> QED BY <1>1, <1>2, <1>3, <1>4 DEF Next, Receive

LEMMA NextReceiver == ReceiverInv /\ [Next]_vars => ReceiverInv'
<1> SUFFICES ASSUME ReceiverInv, [Next]_vars PROVE ReceiverInv'
  OBVIOUS
<1>1. CASE Next
  BY <1>1, NextBuffer, NextFlow, NextThreads DEF ReceiverInv, ThreadsAndPending
<1>2. CASE UNCHANGED vars
  BY <1>2 DEF vars, jbVars, netVars, paceVars, ReceiverInv, BufferTyped, FlowTyped, ThreadsTyped,
     PaceTyped, ThreadsAndPending
<1> QED BY <1>1, <1>2

\* Every variable of the receiver keeps its type, across the wraps of the
\* sequence number and of the size_t counter (RTPReceiver.cpp 98-420).
THEOREM ReceiverTypes == Spec => []TypeOK
<1>1. ReceiverInv => TypeOK
  BY DEF ReceiverInv, BufferTyped, FlowTyped, ThreadsTyped, PaceTyped, TypeOK
<1> QED BY InitReceiver, NextReceiver, <1>1, PTL DEF Spec

\* When stop() has returned, both threads have ended and no counter update of
\* theirs is left for the reset of the next start() (145-162, 118-121).
THEOREM StopLeavesNothing == Spec => []StopIsClean
<1>1. ReceiverInv => StopIsClean
  BY DEF ReceiverInv, ThreadsAndPending, StopIsClean
<1> QED BY InitReceiver, NextReceiver, <1>1, PTL DEF Spec

\* Division with remainder, and numbers with the same one.
LEMMA DivisionWithRest ==
  \A a \in Int, m \in Int : m > 0 => a = m * (a \div m) + (a % m)
BY Z3

LEMMA RestIsUnique ==
  ASSUME NEW m \in Nat \ {0}, NEW k \in Int, NEW r \in 0 .. m - 1
  PROVE  (m * k + r) % m = r
OBVIOUS

(***************************************************************************)
(* How far the consumer is behind the sender                                *)
(***************************************************************************)

\* The number k behind (or, negative, ahead of) number e, and its slot.
Number(e, k) == (e + k) % SeqMod
Place(e, k) == JB!SlotOf(Number(e, k))

\* Two numbers with the same rest differ by a multiple.
LEMMA SameRest ==
  ASSUME NEW a \in Int, NEW b \in Int, NEW m \in Nat \ {0}, a % m = b % m
  PROVE  \E q \in Int : a - b = m * q
<1>1. PICK x \in Int, y \in Int : x = a \div m /\ y = b \div m
  OBVIOUS
<1>2. a = m * x + (a % m) /\ b = m * y + (b % m)
  BY <1>1, DivisionWithRest
<1>3. m * (x - y) = m * x - m * y /\ a % m \in Int
  OBVIOUS
<1>4. a - b = m * (x - y) /\ x - y \in Int
  BY <1>2, <1>3
<1> QED BY <1>4

LEMMA SmallMultiple ==
  ASSUME NEW m \in Nat \ {0}, NEW q \in Int, -m < m * q, m * q < m
  PROVE  q = 0
BY Z3

\* Adding multiples, and reducing first, changes nothing.
LEMMA RestOfSum ==
  ASSUME NEW a \in Int, NEW q \in Int, NEW m \in Nat \ {0}
  PROVE  (a + m * q) % m = a % m
<1>1. PICK x \in Int, r \in 0 .. m - 1 : x = a \div m /\ r = a % m
  OBVIOUS
<1>2. a = m * x + r
  BY <1>1, DivisionWithRest
<1>3. m * (x + q) = m * x + m * q
  OBVIOUS
<1>4. a + m * q = m * (x + q) + r /\ x + q \in Int
  BY <1>2, <1>3
<1>5. (m * (x + q) + r) % m = r
  BY <1>4, RestIsUnique
<1> QED BY <1>1, <1>4, <1>5

LEMMA RestOfShifted ==
  ASSUME NEW a \in Int, NEW b \in Int, NEW m \in Nat \ {0}
  PROVE  ((a % m) + b) % m = (a + b) % m
<1>1. PICK x \in Int, r \in 0 .. m - 1 : x = a \div m /\ r = a % m
  OBVIOUS
<1>2. a = m * x + r
  BY <1>1, DivisionWithRest
<1>3. a + b = (r + b) + m * x /\ r + b \in Int
  BY <1>2
<1>4. ((r + b) + m * x) % m = (r + b) % m
  BY <1>3, RestOfSum
<1> QED BY <1>1, <1>3, <1>4

LEMMA NumbersTyped ==
  ASSUME NEW e \in Seqs, NEW k \in Int
  PROVE  Number(e, k) \in Seqs /\ Place(e, k) \in JB!Slots
BY SlotInRange, WrapsInRange DEF Number, Place, Seqs

\* Within the number space a number determines the distance,
LEMMA NumbersDiffer ==
  ASSUME NEW e \in Seqs, NEW k \in Int, NEW j \in Int, k - j < SeqMod, j - k < SeqMod,
         Number(e, k) = Number(e, j)
  PROVE  k = j
<1>1. e \in Int /\ SeqMod \in Nat \ {0}
  BY ReceiverAssumption DEF Seqs
<1>2. PICK q \in Int : (e + k) - (e + j) = SeqMod * q
  <2>1. PICK a \in Int, b \in Int : a = e + k /\ b = e + j
    BY <1>1
  <2>2. a % SeqMod = b % SeqMod
    BY <2>1 DEF Number
  <2> QED BY <1>1, <2>1, <2>2, SameRest
<1>3. k - j = SeqMod * q
  BY <1>1, <1>2
<1>4. q = 0
  BY <1>1, <1>3, SmallMultiple
<1> QED BY <1>1, <1>3, <1>4

\* and a slot is that of one number in each lap.
LEMMA PlaceIsSum ==
  ASSUME WholeLaps, NEW e \in Seqs, NEW k \in Int
  PROVE  Place(e, k) = (e + k) % Depth
<1>1. e + k \in Int /\ SeqMod \in Nat \ {0} /\ Depth \in Nat \ {0}
  BY ReceiverAssumption DEF Seqs
<1>2. PICK n \in Int : SeqMod = Depth * n
  <2>1. SeqMod = Depth * (SeqMod \div Depth) + (SeqMod % Depth)
    BY <1>1, DivisionWithRest
  <2>2. SeqMod = Depth * (SeqMod \div Depth) /\ SeqMod \div Depth \in Int
    BY <1>1, <2>1 DEF WholeLaps
  <2> QED BY <2>2
<1>3. PICK x \in Int, r \in 0 .. SeqMod - 1 : x = (e + k) \div SeqMod /\ r = (e + k) % SeqMod
  BY <1>1
<1>4. e + k = SeqMod * x + r
  <2>1. PICK a \in Int : a = e + k
    BY <1>1
  <2>2. a = SeqMod * (a \div SeqMod) + (a % SeqMod)
    BY <1>1, DivisionWithRest
  <2> QED BY <1>3, <2>1, <2>2
<1>5. SeqMod * x = Depth * (n * x) /\ n * x \in Int
  BY <1>1, <1>2
<1>6. e + k = r + Depth * (n * x) /\ r \in Int
  BY <1>1, <1>4, <1>5
<1>7. (r + Depth * (n * x)) % Depth = r % Depth
  BY <1>1, <1>5, <1>6, RestOfSum
<1> QED BY <1>3, <1>6, <1>7 DEF Place, Number, JB!SlotOf

LEMMA PlacesDiffer ==
  ASSUME WholeLaps, NEW e \in Seqs, NEW k \in Int, NEW j \in Int, k - j < Depth, j - k < Depth,
         Place(e, k) = Place(e, j)
  PROVE  k = j
<1>1. e \in Int /\ Depth \in Nat \ {0}
  BY ReceiverAssumption DEF Seqs
<1>2. (e + k) % Depth = (e + j) % Depth
  BY PlaceIsSum
<1>3. PICK q \in Int : (e + k) - (e + j) = Depth * q
  <2>1. PICK a \in Int, b \in Int : a = e + k /\ b = e + j
    BY <1>1
  <2>2. a % Depth = b % Depth
    BY <1>2, <2>1
  <2> QED BY <1>1, <2>1, <2>2, SameRest
<1>4. k - j = Depth * q
  BY <1>1, <1>3
<1>5. q = 0
  BY <1>1, <1>4, SmallMultiple
<1> QED BY <1>1, <1>4, <1>5

LEMMA PlaceRecurs ==
  ASSUME WholeLaps, NEW e \in Seqs, NEW k \in Int
  PROVE  Place(e, k + Depth) = Place(e, k) /\ Place(e, k - Depth) = Place(e, k)
<1>1. e + k \in Int /\ Depth \in Nat \ {0}
  BY ReceiverAssumption DEF Seqs
<1>2. ((e + k) + Depth * 1) % Depth = (e + k) % Depth /\ ((e + k) + Depth * (-1)) % Depth = (e + k) % Depth
  <2>1. PICK a \in Int : a = e + k
    BY <1>1
  <2>2. \A q \in Int : (a + Depth * q) % Depth = a % Depth
    BY <1>1, RestOfSum
  <2> QED BY <2>1, <2>2
<1>3. e + (k + Depth) = (e + k) + Depth * 1 /\ e + (k - Depth) = (e + k) + Depth * (-1)
  BY <1>1 DEF Seqs
<1> QED BY <1>1, <1>2, <1>3, PlaceIsSum

LEMMA EveryPlace ==
  ASSUME WholeLaps, NEW e \in Seqs, NEW m \in Int, NEW i \in JB!Slots
  PROVE  \E k \in m .. m + Depth - 1 : Place(e, k) = i
<1>1. e + m \in Int /\ Depth \in Nat \ {0} /\ i \in Int /\ i \in 0 .. Depth - 1
  BY ReceiverAssumption DEF Seqs, JB!Slots
<1>2. PICK r \in 0 .. Depth - 1 : r = (i - (e + m)) % Depth
  BY <1>1
<1>3. (((i - (e + m)) % Depth) + (e + m)) % Depth = ((i - (e + m)) + (e + m)) % Depth
  <2>1. PICK a \in Int, b \in Int : a = i - (e + m) /\ b = e + m
    BY <1>1
  <2>2. ((a % Depth) + b) % Depth = (a + b) % Depth
    BY <1>1, RestOfShifted
  <2> QED BY <2>1, <2>2
<1>4. ((i - (e + m)) + (e + m)) % Depth = i
  <2>1. (i - (e + m)) + (e + m) = Depth * 0 + i
    BY <1>1
  <2> QED BY <1>1, <2>1, RestIsUnique
<1>5. r + (e + m) = e + (m + r) /\ m + r \in Int /\ m + r \in m .. m + Depth - 1
  BY <1>1, <1>2 DEF Seqs
<1>6. Place(e, m + r) = i
  BY <1>2, <1>3, <1>4, <1>5, PlaceIsSum
<1> QED BY <1>5, <1>6

\* When playback goes on to the next number, all distances are one less.
LEMMA NumbersShift ==
  ASSUME NEW e \in Seqs, NEW k \in Int
  PROVE  Number((e + 1) % SeqMod, k) = Number(e, k + 1) /\ Place((e + 1) % SeqMod, k) = Place(e, k + 1)
<1>1. e + 1 \in Int /\ SeqMod \in Nat \ {0}
  BY ReceiverAssumption DEF Seqs
<1>2. (((e + 1) % SeqMod) + k) % SeqMod = ((e + 1) + k) % SeqMod
  BY <1>1, RestOfShifted
<1>3. (e + 1) + k = e + (k + 1)
  BY DEF Seqs
<1> QED BY <1>2, <1>3 DEF Number, Place

\* The number after the k-th.
LEMMA NumberAfter ==
  ASSUME NEW e \in Seqs, NEW k \in Int
  PROVE  (Number(e, k) + 1) % SeqMod = Number(e, k + 1)
<1>1. e + k \in Int /\ SeqMod \in Nat \ {0}
  BY ReceiverAssumption DEF Seqs
<1>2. (((e + k) % SeqMod) + 1) % SeqMod = ((e + k) + 1) % SeqMod
  BY <1>1, RestOfShifted
<1>3. (e + k) + 1 = e + (k + 1)
  BY DEF Seqs
<1> QED BY <1>2, <1>3 DEF Number

LEMMA NumberItself ==
  ASSUME NEW e \in Seqs
  PROVE  Number(e, 0) = e /\ Place(e, 0) = JB!SlotOf(e)
<1>1. e \in 0 .. SeqMod - 1 /\ SeqMod \in Nat \ {0}
  BY ReceiverAssumption DEF Seqs
<1>2. e + 0 = SeqMod * 0 + e
  BY <1>1
<1>3. (SeqMod * 0 + e) % SeqMod = e
  BY <1>1, RestIsUnique
<1> QED BY <1>2, <1>3 DEF Number, Place

\* Numbers a lap or less behind are older by the half-range comparison.
LEMMA BehindIsOlder ==
  ASSUME WholeLaps, NEW e \in Seqs, NEW j \in -Depth .. -1
  PROVE  Older(Number(e, j), e)
<1>1. e \in Int /\ SeqMod \in Nat \ {0} /\ Depth \in Nat \ {0} /\ j \in Int /\ 2 * Depth <= SeqMod
  BY ReceiverAssumption DEF Seqs, WholeLaps
<1>2. PICK x \in Int, r \in 0 .. SeqMod - 1 : x = (e + j) \div SeqMod /\ r = (e + j) % SeqMod
  BY <1>1
<1>3. e + j = SeqMod * x + r
  BY <1>1, <1>2, DivisionWithRest
<1>4. e - r = -j + SeqMod * x
  BY <1>1, <1>3
<1>5. (-j + SeqMod * x) % SeqMod = (-j) % SeqMod
  <2>1. PICK a \in Int : a = -j
    BY <1>1
  <2>2. (a + SeqMod * x) % SeqMod = a % SeqMod
    BY <1>1, RestOfSum
  <2> QED BY <2>1, <2>2
<1>6. -j \in 1 .. Depth /\ -j \in 0 .. SeqMod - 1
  BY <1>1
<1>7. (-j) % SeqMod = -j
  <2>1. -j = SeqMod * 0 + (-j)
    BY <1>1
  <2> QED BY <1>1, <1>6, <2>1, RestIsUnique
<1>8. Depth <= SeqMod \div 2
  BY <1>1
<1>9. (e - r) % SeqMod \in 1 .. SeqMod \div 2
  BY <1>1, <1>4, <1>5, <1>6, <1>7, <1>8
<1> QED BY <1>2, <1>9 DEF Older, Number

\* Numbers in a row, less than a lap, have as many slots.
LEMMA RunOfPlaces ==
  ASSUME WholeLaps, NEW e \in Seqs, NEW a \in Int, NEW b \in Int, a <= b + 1
  PROVE  /\ Cardinality({Place(e, k) : k \in a .. b}) <= b - a + 1
         /\ b - a < Depth => Cardinality({Place(e, k) : k \in a .. b}) = b - a + 1
<1>1. PICK S : S = {Place(e, k) : k \in a .. b}
  OBVIOUS
<1>2. PICK g : g = [k \in a .. b |-> Place(e, k)]
  OBVIOUS
<1>3. g \in Surjection(a .. b, S)
  BY <1>1, <1>2 DEF Surjection
<1>4. IsFiniteSet(a .. b) /\ Cardinality(a .. b) = b - a + 1
  BY FS_Interval
<1>5. /\ Cardinality(S) <= b - a + 1
      /\ Cardinality(S) = b - a + 1 <=> g \in Injection(a .. b, S)
  BY <1>3, <1>4, FS_Surjection
<1>6. b - a < Depth => g \in Injection(a .. b, S)
  <2> SUFFICES ASSUME b - a < Depth, NEW k \in a .. b, NEW j \in a .. b, g[k] = g[j]
               PROVE  k = j
    BY <1>1, <1>2 DEF Injection, IsInjective
  <2>1. k \in Int /\ j \in Int /\ k - j < Depth /\ j - k < Depth /\ Depth \in Int
    BY ReceiverAssumption
  <2>2. Place(e, k) = Place(e, j)
    BY <1>2
  <2> QED BY <2>1, <2>2, PlacesDiffer
<1> QED BY <1>1, <1>5, <1>6

\* Counting slots.
LEMMA SlotSets ==
  ASSUME NEW T \in SUBSET JB!Slots
  PROVE  /\ IsFiniteSet(T) /\ Cardinality(T) \in 0 .. Depth
         /\ \A S : S \subseteq T => Cardinality(S) <= Cardinality(T)
         /\ \A S, x : S \subseteq T \cup {x} => Cardinality(S) <= Cardinality(T) + 1
         /\ \A S : \A x \in T : S \subseteq T \ {x} => Cardinality(S) <= Cardinality(T) - 1
<1>1. Depth \in Nat \ {0} /\ IsFiniteSet(JB!Slots) /\ Cardinality(JB!Slots) = Depth
  BY ReceiverAssumption, FS_Interval DEF JB!Slots
<1>2. IsFiniteSet(T) /\ Cardinality(T) <= Depth /\ Cardinality(T) \in Nat
  BY <1>1, FS_Subset, FS_CardinalityType
<1>3. ASSUME NEW S, S \subseteq T PROVE Cardinality(S) <= Cardinality(T)
  BY <1>2, <1>3, FS_Subset
<1>4. ASSUME NEW S, NEW x, S \subseteq T \cup {x} PROVE Cardinality(S) <= Cardinality(T) + 1
  <2>1. PICK U : U = T \cup {x}
    OBVIOUS
  <2>2. IsFiniteSet(U) /\ Cardinality(U) \in {Cardinality(T), Cardinality(T) + 1}
    BY <1>2, <2>1, FS_AddElement
  <2>3. Cardinality(S) <= Cardinality(U) /\ IsFiniteSet(S)
    BY <1>4, <2>1, <2>2, FS_Subset
  <2>4. Cardinality(S) \in Nat
    BY <2>3, FS_CardinalityType
  <2> QED BY <1>2, <2>2, <2>3, <2>4
<1>5. ASSUME NEW S, NEW x \in T, S \subseteq T \ {x} PROVE Cardinality(S) <= Cardinality(T) - 1
  <2>1. PICK U : U = T \ {x}
    OBVIOUS
  <2>2. IsFiniteSet(U) /\ Cardinality(U) = Cardinality(T) - 1
    BY <1>2, <2>1, FS_RemoveElement
  <2>3. Cardinality(S) <= Cardinality(U)
    BY <1>5, <2>1, <2>2, FS_Subset
  <2> QED BY <2>2, <2>3
<1> QED BY <1>1, <1>2, <1>3, <1>4, <1>5

-----------------------------------------------------------------------------
\* The interval's number was asked for, and not answered with a packet.
Asked == cPc \in {"count", "got", "missed"}
Mid == IF Asked THEN 1 ELSE 0
Unanswered == IF cPc \in {"count", "missed"} /\ ~gotPacket THEN 1 ELSE 0

Occupied == {i \in JB!Slots : held[i] # NoData}

\* D is the distance of the next number to be sent from the expected one, f
\* that of the packet in flight.  One lap of numbers is still to be asked for.
Window == Mid .. Mid + Depth - 1

\* The slot of the k-th number has the j-th number, which has been sent.
Carries(k, j, D) == j < D /\ held[Place(expected, k)] = Number(expected, j)

\* A slot has the number of this lap or of the one before.
InWindow(D) ==
  \A k \in Window : \/ held[Place(expected, k)] = NoData
                    \/ Carries(k, k, D) \/ Carries(k, k - Depth, D)

\* Slots of numbers sent that will not arrive, because they are lost,
Gone(from, D) ==
  {i \in JB!Slots : \E k \in from .. D - 1 :
     i = Place(expected, k) /\ held[i] = NoData /\ Number(expected, k) \notin inFlight}

\* and of numbers that will not be there when asked for, because they are lost
\* or a packet of the lap before is in their place.
Bad(D) ==
  {i \in JB!Slots : \E k \in Window :
     /\ i = Place(expected, k) /\ held[i] # Number(expected, k)
     /\ held[i] = NoData => k < D /\ Number(expected, k) \notin inFlight}

Flying(D, f) == inFlight \subseteq {Number(expected, f)} /\ f \in D - 1 - losses .. D - 1

\* The lag without the jitter of the two clocks, and all that can still make it
\* grow: StarveLimit misses lengthen an interval.
Behind(D) == D - Mid - lead
Load(D) ==
  StarveLimit * Behind(D) + starved + Unanswered + Cardinality(Bad(D)) + MaxLosses - losses

Lag(D, f) ==
  /\ nextSeq = Number(expected, D) /\ Flying(D, f) /\ InWindow(D)
  /\ Cardinality(Gone(1, D)) <= losses
  /\ Load(D) <= MaxLoad
  /\ Behind(D) >= PrefillCount
  /\ skipRun <= StarveLimit * (Behind(D) - PrefillCount) + starved

\* Before playback, everything that arrived is there.
Fill(D, f) ==
  /\ nextSeq = Number(expected, D) /\ Flying(D, f) /\ f >= 0 /\ D >= 1
  /\ \A k \in 0 .. Depth - 1 : held[Place(expected, k)] = NoData \/ Carries(k, k, D)
  /\ held[Place(expected, 0)] # NoData
  /\ Cardinality(Gone(0, D)) <= losses
  /\ D - lead <= PrefillCount + 1 + MaxLosses + PaceSlack
  /\ starved = 0 /\ skipRun = 0

Consuming == cPc \in {"loop", "sleep", "count", "got", "missed"}

Steady == running /\ Consuming => connected /\ \E D, f \in Int : Lag(D, f)
Filling == running /\ cPc = "prefill" /\ connected => \E D, f \in Int : Fill(D, f)
Waiting ==
  running /\ ~connected =>
    /\ cPc = "prefill" /\ held = JB!Empty /\ count = 0 /\ ~addPending
    /\ starved = 0 /\ skipRun = 0
    /\ \E d \in 1 .. losses + 1 : inFlight \subseteq {(nextSeq - d) % SeqMod}
Draining ==
  ~running /\ cPc = "sleep" =>
    /\ connected
    /\ \A i \in JB!Slots : held[i] = NoData \/ \E j \in -Depth .. Depth - 1 :
                             i = Place(expected, j) /\ held[i] = Number(expected, j)
    /\ \A p \in inFlight : \E j \in -Depth .. Depth - 1 : p = Number(expected, j)
Resting ==
  /\ running => cPc # "off"
  /\ ctl = "idle" /\ ~running => ~connected /\ inFlight = {}
  /\ Asked => starved < StarveLimit
  /\ cPc = "missed" => ~gotPacket

Owed == (IF getPending THEN 1 ELSE 0) - (IF addPending THEN 1 ELSE 0)
Counted == count = (Cardinality(Occupied) + Owed) % CountMod

LagInv == Steady /\ Filling /\ Waiting /\ Draining /\ Resting /\ Counted

-----------------------------------------------------------------------------
\* Arithmetic of the loads.
LEMMA Products ==
  ASSUME NEW s \in Nat \ {0}, NEW a \in Int
  PROVE  /\ \A b \in Int : s * a < s * b => a < b
         /\ \A b \in Int : a <= b => s * a <= s * b
         /\ s * (a + 1) = s * a + s
         /\ s * a \in Int /\ (a >= 0 => s * a >= 0)
BY Z3

\* Each of the loads is at most the largest.
LEMMA LoadsBounded ==
  /\ LoadFilled <= MaxLoad /\ LoadEmptied <= MaxLoad /\ LoadLate <= MaxLoad
  /\ LoadFilled \in Int /\ LoadEmptied \in Int /\ LoadLate \in Int /\ MaxLoad \in Int
<1>1. LoadFilled \in Int /\ LoadEmptied \in Int /\ LoadLate \in Int
  BY ReceiverAssumption DEF LoadFilled, LoadEmptied, LoadLate
<1> QED BY <1>1 DEF MaxLoad, Larger

\* The depth exceeds what playback starts with and what an underrun leaves.
LEMMA DepthSuffices ==
  ASSUME Fits
  PROVE  /\ PrefillCount + 1 + MaxLosses + 2 * PaceSlack <= Depth - PaceSlack
         /\ 4 + MaxLosses + PaceSlack <= Depth - PaceSlack
<1>1. /\ StarveLimit \in Nat \ {0} /\ PrefillCount \in Nat /\ MaxLosses \in Nat
      /\ PaceSlack \in Nat /\ Depth \in Nat
  BY ReceiverAssumption
<1>2. PICK a \in Int, b \in Int, c \in Int :
        /\ a = PrefillCount + 1 + MaxLosses + 2 * PaceSlack
        /\ b = 4 + MaxLosses + PaceSlack /\ c = Depth - PaceSlack + 1
  BY <1>1
<1>3. StarveLimit * a + MaxLosses < StarveLimit * c /\ StarveLimit * b + 2 + MaxLosses < StarveLimit * c
  BY <1>1, <1>2, LoadsBounded DEF Fits, LoadFilled, LoadEmptied
<1>4. StarveLimit * a < StarveLimit * c /\ StarveLimit * b < StarveLimit * c
  BY <1>1, <1>3
<1>5. a < c /\ b < c
  BY <1>1, <1>4, Products
<1> QED BY <1>1, <1>2, <1>5

\* A packet that is late, or missed although it is still to come, means a
\* small lag; misses and lost packets then cannot add more than this.
LEMMA LateLoad ==
  ASSUME ReceiverInv, NEW b \in Int, b <= losses + PaceSlack, NEW s \in 0 .. StarveLimit,
         NEW n \in 0 .. Depth
  PROVE  StarveLimit * b + s + n + MaxLosses - losses <= LoadLate
<1>1. /\ StarveLimit \in Nat \ {0} /\ MaxLosses \in Nat /\ PaceSlack \in Nat /\ Depth \in Nat
      /\ losses \in Nat /\ losses <= MaxLosses
  BY ReceiverAssumption DEF ReceiverInv, PaceTyped
<1>2. StarveLimit * b <= StarveLimit * (losses + PaceSlack)
  BY <1>1, Products
<1>3. StarveLimit * (losses + PaceSlack) + MaxLosses - losses <= StarveLimit * (MaxLosses + PaceSlack)
  <2>1. PICK m \in Nat : m = MaxLosses - losses
    BY <1>1
  <2>2. m <= StarveLimit * m
    BY <1>1, <2>1, Z3
  <2>3. StarveLimit * (losses + PaceSlack) + StarveLimit * m = StarveLimit * (losses + PaceSlack + m)
    BY <1>1, <2>1, Z3
  <2>4. losses + PaceSlack + m = MaxLosses + PaceSlack
    BY <1>1, <2>1
  <2> QED BY <1>1, <2>1, <2>2, <2>3, <2>4
<1>4. StarveLimit * (MaxLosses + PaceSlack + 1) = StarveLimit * (MaxLosses + PaceSlack) + StarveLimit
  BY <1>1, Products
<1>5. StarveLimit * b \in Int /\ StarveLimit * (losses + PaceSlack) \in Int
      /\ StarveLimit * (MaxLosses + PaceSlack) \in Int
  BY <1>1
<1> QED BY <1>1, <1>2, <1>3, <1>4, <1>5 DEF LoadLate

\* What the lag says of the distances.
LEMMA LagBounds ==
  ASSUME ReceiverInv, Fits, NEW D \in Int, NEW f \in Int, Lag(D, f)
  PROVE  /\ Behind(D) \in PrefillCount .. Depth - PaceSlack
         /\ Mid \in {0, 1} /\ D = Behind(D) + Mid + lead
         /\ D <= Depth + Mid /\ D >= Mid - PaceSlack + 1
         /\ f < D /\ f >= Mid - Depth /\ f >= D - 1 - losses
         /\ lead \in -PaceSlack .. PaceSlack /\ losses \in 0 .. MaxLosses
         /\ expected \in Seqs /\ Cardinality(Bad(D)) \in 0 .. Depth
<1>1. /\ StarveLimit \in Nat \ {0} /\ PrefillCount \in Nat \ {0} /\ MaxLosses \in Nat
      /\ PaceSlack \in Nat /\ Depth \in Nat
  BY ReceiverAssumption
<1>2. /\ lead \in -PaceSlack .. PaceSlack /\ losses \in 0 .. MaxLosses /\ starved \in 0 .. StarveLimit
      /\ expected \in Seqs
  BY DEF ReceiverInv, PaceTyped, FlowTyped
<1>3. Mid \in {0, 1} /\ Unanswered \in {0, 1}
  BY DEF Mid, Unanswered
<1>4. Cardinality(Bad(D)) \in 0 .. Depth
  <2>1. Bad(D) \in SUBSET JB!Slots
    BY DEF Bad
  <2> QED BY <2>1, SlotSets
<1>5. Behind(D) \in Int /\ D = Behind(D) + Mid + lead
  BY <1>1, <1>2, <1>3 DEF Behind
<1>6. Behind(D) < Depth - PaceSlack + 1
  <2>1. PICK b \in Int, c \in Int : b = Behind(D) /\ c = Depth - PaceSlack + 1
    BY <1>1, <1>5
  <2>2. StarveLimit * b \in Int /\ StarveLimit * c \in Int
    BY <1>1, <2>1
  <2>3. StarveLimit * b + starved + Unanswered + Cardinality(Bad(D)) + MaxLosses - losses
          < StarveLimit * c
    BY <2>1, <2>2, <1>1, <1>2, <1>3, <1>4, LoadsBounded DEF Lag, Load, Fits
  <2>4. StarveLimit * b < StarveLimit * c
    BY <1>1, <1>2, <1>3, <1>4, <2>2, <2>3
  <2>5. b < c
    BY <1>1, <2>1, <2>4, Products
  <2> QED BY <2>1, <2>5
<1>7. Behind(D) >= PrefillCount /\ f \in D - 1 - losses .. D - 1
  BY DEF Lag, Flying
<1> QED BY <1>1, <1>2, <1>3, <1>4, <1>5, <1>6, <1>7, DepthSuffices

-----------------------------------------------------------------------------
\* Steps of the consume thread.  The expected number is asked for: its slot is
\* empty then, and belongs to the next lap.
LEMMA TickKeepsLag ==
  ASSUME ReceiverInv, Fits, ConsumeTick, NEW D \in Int, NEW f \in Int, Lag(D, f)
  PROVE  Lag(D, f)'
<1> DEFINE s0 == Place(expected, 0)
<1>1. /\ Mid = 0 /\ Mid' = 1 /\ Unanswered = 0 /\ lead' = lead - 1 /\ lead > -PaceSlack
      /\ starved < StarveLimit
      /\ UNCHANGED <<expected, inFlight, nextSeq, losses, starved, skipRun>>
  BY DEF ConsumeTick, Mid, Asked, Unanswered, JB!Take, JB!Miss, netVars
<1>2. /\ Behind(D) \in PrefillCount .. Depth - PaceSlack /\ D = Behind(D) + lead /\ D <= Depth
      /\ f < D /\ f >= -Depth /\ f >= D - 1 - losses
      /\ lead \in -PaceSlack .. PaceSlack /\ losses \in 0 .. MaxLosses
      /\ expected \in Seqs /\ Cardinality(Bad(D)) \in 0 .. Depth
  <2>1. /\ D = Behind(D) + Mid + lead /\ D <= Depth + Mid /\ f >= Mid - Depth
        /\ Behind(D) \in PrefillCount .. Depth - PaceSlack /\ f < D /\ f >= D - 1 - losses
        /\ lead \in -PaceSlack .. PaceSlack /\ losses \in 0 .. MaxLosses
        /\ expected \in Seqs /\ Cardinality(Bad(D)) \in 0 .. Depth
    BY LagBounds
  <2>2. Depth \in Int /\ PaceSlack \in Int /\ PrefillCount \in Int
    BY ReceiverAssumption
  <2> QED BY <1>1, <2>1, <2>2
<1>3. /\ StarveLimit \in Nat \ {0} /\ PaceSlack \in Nat /\ MaxLosses \in Nat
      /\ Depth \in Nat \ {0} /\ SeqMod \in Nat /\ WholeLaps /\ NoData \notin Seqs
  BY ReceiverAssumption DEF Fits
<1>4. starved \in 0 .. StarveLimit /\ held \in [JB!Slots -> Seqs \cup {NoData}]
  BY DEF ReceiverInv, PaceTyped, BufferTyped
<1>5. s0 = JB!SlotOf(expected) /\ s0 \in JB!Slots /\ Number(expected, 0) = expected
  BY <1>2, NumberItself, NumbersTyped
<1>6. /\ held' \in [JB!Slots -> Seqs \cup {NoData}] /\ held'[s0] = NoData
      /\ \A i \in JB!Slots : i # s0 => held'[i] = held[i]
  BY <1>4, <1>5 DEF ConsumeTick, JB!Take, JB!Miss
<1>7. /\ \A k \in 1 .. Depth - 1 : Place(expected, k) # s0 /\ Place(expected, k) \in JB!Slots
      /\ Place(expected, Depth) = s0
  <2>1. ASSUME NEW k \in 1 .. Depth - 1 PROVE Place(expected, k) # s0
    <3>1. k \in Int /\ 0 \in Int /\ k - 0 < Depth /\ 0 - k < Depth /\ k # 0
      BY <1>3
    <3> QED BY <1>2, <1>3, <3>1, PlacesDiffer
  <2>2. Place(expected, 0 + Depth) = s0
    BY <1>2, <1>3, PlaceRecurs
  <2> QED BY <1>2, <1>3, <2>1, <2>2, NumbersTyped
<1>8. Window = 0 .. Depth - 1 /\ Window' = 1 .. Depth
  BY <1>1, <1>3 DEF Window
<1>9. InWindow(D)'
  <2> SUFFICES ASSUME NEW k \in 1 .. Depth
               PROVE  \/ held'[Place(expected, k)] = NoData
                      \/ (k < D /\ held'[Place(expected, k)] = Number(expected, k))
                      \/ k - Depth < D /\ held'[Place(expected, k)] = Number(expected, k - Depth)
    BY <1>1, <1>8 DEF InWindow, Carries
  <2>1. CASE k = Depth
    BY <2>1, <1>6, <1>7
  <2>2. CASE k \in 1 .. Depth - 1
    <3>1. held'[Place(expected, k)] = held[Place(expected, k)]
      BY <2>2, <1>6, <1>7
    <3>2. k \in Window
      BY <2>2, <1>8, <1>3
    <3> QED BY <3>1, <3>2 DEF Lag, InWindow, Carries
  <2> QED BY <2>1, <2>2, <1>3
<1>10. Gone(1, D)' \subseteq Gone(1, D)
  <2> SUFFICES ASSUME NEW i \in JB!Slots, NEW k \in 1 .. D - 1, i = Place(expected, k),
                      held'[i] = NoData, Number(expected, k) \notin inFlight
               PROVE  held[i] = NoData
    BY <1>1 DEF Gone
  <2>1. k \in 1 .. Depth - 1
    BY <1>2, <1>3
  <2> QED BY <2>1, <1>6, <1>7
<1>11. Bad(D)' \subseteq Bad(D) \ {s0}
  <2> SUFFICES ASSUME NEW i \in JB!Slots, NEW k \in 1 .. Depth, i = Place(expected, k),
                      held'[i] # Number(expected, k),
                      held'[i] = NoData => k < D /\ Number(expected, k) \notin inFlight
               PROVE  i \in Bad(D) /\ i # s0
    BY <1>1, <1>8 DEF Bad
  <2>1. k # Depth
    BY <1>2, <1>3, <1>6, <1>7
  <2>2. k \in 1 .. Depth - 1 /\ k \in Window
    BY <2>1, <1>3, <1>8
  <2>3. held'[i] = held[i] /\ i # s0
    BY <2>2, <1>6, <1>7
  <2> QED BY <2>2, <2>3 DEF Bad
<1>12. Bad(D) \in SUBSET JB!Slots /\ Gone(1, D) \in SUBSET JB!Slots
       /\ Bad(D)' \in SUBSET JB!Slots
  BY DEF Bad, Gone
<1>13. Cardinality(Gone(1, D)') <= losses
  <2>1. Cardinality(Gone(1, D)') <= Cardinality(Gone(1, D)) /\ Cardinality(Gone(1, D)) <= losses
    BY <1>10, <1>12, SlotSets DEF Lag
  <2>2. Gone(1, D)' \in SUBSET JB!Slots
    BY <1>10, <1>12
  <2>3. Cardinality(Gone(1, D)') \in Int /\ Cardinality(Gone(1, D)) \in Int
    BY <1>12, <2>2, SlotSets
  <2> QED BY <1>2, <2>1, <2>3
<1>14. Behind(D)' = Behind(D)
  BY <1>1, <1>2, <1>3 DEF Behind
<1>15. Load(D)' <= MaxLoad
  <2>1. Cardinality(Bad(D)') <= Cardinality(Bad(D)) /\ Cardinality(Bad(D)') \in 0 .. Depth
    BY <1>11, <1>12, SlotSets
  <2>2. StarveLimit * Behind(D) \in Int
    BY <1>2, <1>3
  <2>3. /\ Load(D) = StarveLimit * Behind(D) + starved + Cardinality(Bad(D)) + MaxLosses - losses
        /\ Load(D)' = StarveLimit * Behind(D) + starved + Unanswered' + Cardinality(Bad(D)')
                        + MaxLosses - losses
    BY <1>1, <1>2, <1>3, <1>4, <1>14, <2>2 DEF Load
  <2>4. Load(D) <= MaxLoad /\ MaxLoad \in Int
    BY LoadsBounded DEF Lag
  <2>5. CASE Unanswered' = 0
    BY <2>1, <2>2, <2>3, <2>4, <2>5, <1>2, <1>3, <1>4
  <2>6. ASSUME s0 \in Bad(D), Unanswered' = 1 PROVE Load(D)' <= MaxLoad
    <3>1. Cardinality(Bad(D)') <= Cardinality(Bad(D)) - 1
      BY <1>11, <1>12, <2>6, SlotSets
    <3> QED BY <2>1, <2>2, <2>3, <2>4, <2>6, <3>1, <1>2, <1>3, <1>4
  <2>7. ASSUME D <= losses + 1, Unanswered' = 1 PROVE Load(D)' <= MaxLoad
    <3>1. Behind(D) <= losses + PaceSlack /\ starved + 1 \in 0 .. StarveLimit
      BY <1>1, <1>2, <1>3, <1>4, <2>7
    <3>2. StarveLimit * Behind(D) + (starved + 1) + Cardinality(Bad(D)') + MaxLosses - losses <= LoadLate
      BY <1>2, <2>1, <3>1, LateLoad
    <3>3. LoadLate <= MaxLoad /\ LoadLate \in Int
      BY LoadsBounded
    <3> QED BY <2>1, <2>2, <2>3, <2>4, <2>7, <3>2, <3>3, <1>2, <1>3, <1>4
  <2>8. Unanswered' \in {0, 1}
    BY DEF Unanswered
  <2>9. CASE JB!Take(expected) /\ cPc' = "count"
    <3>1. CASE held[s0] = expected
      <4>1. Unanswered' = 0
        BY <2>9, <3>1, <1>5 DEF JB!Take, Unanswered
      <4> QED BY <4>1, <2>5
    <3>2. CASE held[s0] # expected
      <4>1. s0 \in Bad(D)
        <5>1. 0 \in Window /\ held[s0] # NoData
          BY <2>9, <1>3, <1>5, <1>8 DEF JB!Take
        <5> QED BY <3>2, <5>1, <1>5 DEF Bad
      <4> QED BY <4>1, <2>5, <2>6, <2>8
    <3> QED BY <3>1, <3>2
  <2>10. CASE JB!Miss(expected) /\ cPc' = "missed"
    <3>1. held[s0] = NoData /\ 0 \in Window /\ expected # NoData
      BY <2>10, <1>2, <1>3, <1>5, <1>8 DEF JB!Miss
    <3>2. CASE 0 < D /\ expected \notin inFlight
      <4>1. s0 \in Bad(D)
        BY <3>1, <3>2, <1>5 DEF Bad
      <4> QED BY <4>1, <2>5, <2>6, <2>8
    <3>3. CASE D <= 0
      <4>1. D <= losses + 1
        BY <3>3, <1>2
      <4> QED BY <4>1, <2>5, <2>7, <2>8
    <3>4. CASE expected \in inFlight /\ 0 < D
      <4>1. Number(expected, 0) = Number(expected, f)
        BY <3>4, <1>5 DEF Lag, Flying
      <4>2. f < SeqMod /\ -f < SeqMod
        BY <1>2, <1>3 DEF WholeLaps
      <4>3. f = 0
        <5>1. 0 - f < SeqMod /\ f - 0 < SeqMod
          BY <4>2
        <5> QED BY <1>2, <4>1, <5>1, NumbersDiffer
      <4>4. D <= losses + 1
        BY <4>3, <1>2
      <4> QED BY <4>4, <2>5, <2>7, <2>8
    <3> QED BY <3>2, <3>3, <3>4
  <2> QED BY <2>9, <2>10 DEF ConsumeTick
<1> QED BY <1>1, <1>9, <1>13, <1>14, <1>15 DEF Lag, Flying

\* Playback goes on to the next number: all distances shrink by one.
LEMMA AdvanceKeepsLag ==
  ASSUME ReceiverInv, Fits, Resting, Play \/ Skip, NEW D \in Int, NEW f \in Int, Lag(D, f)
  PROVE  Lag(D - 1, f - 1)'
<1>1. /\ Mid = 1 /\ Mid' = 0 /\ Unanswered' = 0 /\ expected' = (expected + 1) % SeqMod
      /\ UNCHANGED <<inFlight, held, nextSeq, losses, lead>>
      /\ starved < StarveLimit
  BY DEF Play, Skip, Mid, Asked, Unanswered, netVars, jbVars, Resting
<1>2. /\ Behind(D) \in PrefillCount .. Depth - PaceSlack /\ D = Behind(D) + 1 + lead
      /\ f < D /\ f >= D - 1 - losses
      /\ lead \in -PaceSlack .. PaceSlack /\ losses \in 0 .. MaxLosses
      /\ expected \in Seqs /\ Cardinality(Bad(D)) \in 0 .. Depth
  <2>1. /\ D = Behind(D) + Mid + lead
        /\ Behind(D) \in PrefillCount .. Depth - PaceSlack /\ f < D /\ f >= D - 1 - losses
        /\ lead \in -PaceSlack .. PaceSlack /\ losses \in 0 .. MaxLosses
        /\ expected \in Seqs /\ Cardinality(Bad(D)) \in 0 .. Depth
    BY LagBounds
  <2> QED BY <1>1, <2>1
<1>3. /\ StarveLimit \in Nat \ {0} /\ PaceSlack \in Nat /\ MaxLosses \in Nat
      /\ Depth \in Nat \ {0} /\ PrefillCount \in Nat
  BY ReceiverAssumption
<1>4. starved \in 0 .. StarveLimit /\ skipRun \in 0 .. SkipLimit + 1
  BY DEF ReceiverInv, PaceTyped
<1>5. \A k \in Int : /\ Number(expected', k) = Number(expected, k + 1)
                     /\ Place(expected', k) = Place(expected, k + 1)
  BY <1>1, <1>2, NumbersShift
<1>6. Window = 1 .. Depth /\ Window' = 0 .. Depth - 1
  BY <1>1, <1>3 DEF Window
<1>7. nextSeq' = Number(expected', D - 1)
  <2>1. D - 1 \in Int /\ (D - 1) + 1 = D
    OBVIOUS
  <2> QED BY <1>1, <1>5, <2>1 DEF Lag
<1>8. Flying(D - 1, f - 1)'
  <2>1. f - 1 \in Int /\ (f - 1) + 1 = f
    OBVIOUS
  <2>2. inFlight' \subseteq {Number(expected', f - 1)}
    BY <1>1, <1>5, <2>1 DEF Lag, Flying
  <2>3. f - 1 \in (D - 1) - 1 - losses' .. (D - 1) - 1
    BY <1>1, <1>2
  <2> QED BY <2>2, <2>3 DEF Flying
<1>9. InWindow(D - 1)'
  <2> SUFFICES ASSUME NEW k \in 0 .. Depth - 1
               PROVE  \/ held[Place(expected', k)] = NoData
                      \/ (k < D - 1 /\ held[Place(expected', k)] = Number(expected', k))
                      \/ k - Depth < D - 1 /\ held[Place(expected', k)] = Number(expected', k - Depth)
    BY <1>1, <1>6 DEF InWindow, Carries
  <2>1. k + 1 \in Window /\ k \in Int /\ k - Depth \in Int /\ (k - Depth) + 1 = (k + 1) - Depth
    BY <1>3, <1>6
  <2>2. \/ held[Place(expected, k + 1)] = NoData
        \/ k + 1 < D /\ held[Place(expected, k + 1)] = Number(expected, k + 1)
        \/ (k + 1) - Depth < D /\ held[Place(expected, k + 1)] = Number(expected, (k + 1) - Depth)
    BY <2>1 DEF Lag, InWindow, Carries
  <2>3. /\ Place(expected', k) = Place(expected, k + 1) /\ Number(expected', k) = Number(expected, k + 1)
        /\ Number(expected', k - Depth) = Number(expected, (k + 1) - Depth)
    BY <1>5, <2>1
  <2> QED BY <1>3, <2>1, <2>2, <2>3
<1>10. Gone(1, D - 1)' \subseteq Gone(1, D)
  <2> SUFFICES ASSUME NEW i \in JB!Slots, NEW k \in 1 .. (D - 1) - 1, i = Place(expected', k),
                      held[i] = NoData, Number(expected', k) \notin inFlight
               PROVE  \E m \in 1 .. D - 1 : i = Place(expected, m) /\ Number(expected, m) \notin inFlight
    BY <1>1 DEF Gone
  <2>1. k + 1 \in 1 .. D - 1 /\ k \in Int
    OBVIOUS
  <2> QED BY <2>1, <1>5
<1>11. Bad(D - 1)' \subseteq Bad(D)
  <2> SUFFICES ASSUME NEW i \in JB!Slots, NEW k \in 0 .. Depth - 1, i = Place(expected', k),
                      held[i] # Number(expected', k),
                      held[i] = NoData => k < D - 1 /\ Number(expected', k) \notin inFlight
               PROVE  i \in Bad(D)
    BY <1>1, <1>6 DEF Bad
  <2>1. k + 1 \in Window /\ k \in Int
    BY <1>3, <1>6
  <2>2. i = Place(expected, k + 1) /\ held[i] # Number(expected, k + 1)
    BY <1>5, <2>1
  <2>3. held[i] = NoData => k + 1 < D /\ Number(expected, k + 1) \notin inFlight
    BY <1>5, <2>1
  <2> QED BY <2>1, <2>2, <2>3 DEF Bad
<1>12. /\ Cardinality(Gone(1, D - 1)') <= losses /\ Cardinality(Bad(D - 1)') <= Cardinality(Bad(D))
       /\ Cardinality(Bad(D - 1)') \in 0 .. Depth
  <2>1. /\ Bad(D) \in SUBSET JB!Slots /\ Gone(1, D) \in SUBSET JB!Slots
        /\ Bad(D - 1)' \in SUBSET JB!Slots /\ Gone(1, D - 1)' \in SUBSET JB!Slots
    BY DEF Bad, Gone
  <2>2. Cardinality(Gone(1, D - 1)') <= Cardinality(Gone(1, D)) /\ Cardinality(Gone(1, D)) <= losses
    BY <1>10, <2>1, SlotSets DEF Lag
  <2>3. Cardinality(Gone(1, D - 1)') \in Int /\ Cardinality(Gone(1, D)) \in Int
    BY <2>1, SlotSets
  <2> QED BY <1>2, <1>11, <2>1, <2>2, <2>3, SlotSets
<1>13. Behind(D - 1)' = Behind(D)
  BY <1>1, <1>2, <1>3 DEF Behind
<1>14. StarveLimit * Behind(D) \in Int /\ StarveLimit * (Behind(D) - PrefillCount) \in Nat
  <2>1. PICK b \in Int, c \in Nat : b = Behind(D) /\ c = Behind(D) - PrefillCount
    BY <1>2, <1>3
  <2> QED BY <2>1, <1>3, Products
<1>15. starved' + Unanswered' <= starved + Unanswered /\ starved' \in Int
  <2>1. CASE Play
    BY <1>1, <1>3, <1>4, <2>1 DEF Play, Unanswered
  <2>2. CASE Skip
    <3>1. Unanswered = 1
      BY <2>2 DEF Skip, Unanswered, Resting
    <3> QED BY <1>1, <1>3, <1>4, <2>2, <3>1 DEF Skip, Starve
  <2> QED BY <2>1, <2>2
<1>16. Load(D - 1)' <= MaxLoad
  <2>1. Load(D) <= MaxLoad /\ MaxLoad \in Int
    BY LoadsBounded DEF Lag
  <2>2. Load(D - 1)' = StarveLimit * Behind(D) + starved' + Unanswered' + Cardinality(Bad(D - 1)')
                        + MaxLosses - losses
    BY <1>1, <1>13 DEF Load
  <2>3. Unanswered \in {0, 1}
    BY DEF Unanswered
  <2>4. Load(D) = StarveLimit * Behind(D) + starved + Unanswered + Cardinality(Bad(D))
                    + MaxLosses - losses
    BY DEF Load
  <2>5. PICK x \in Int : x = StarveLimit * Behind(D)
    BY <1>14
  <2>6. /\ Load(D) = x + starved + Unanswered + Cardinality(Bad(D)) + MaxLosses - losses
        /\ Load(D - 1)' = x + starved' + Unanswered' + Cardinality(Bad(D - 1)') + MaxLosses - losses
    BY <2>2, <2>4, <2>5
  <2>7. Unanswered' = 0 /\ losses \in Int /\ Cardinality(Bad(D)) \in Int /\ Cardinality(Bad(D - 1)') \in Int
    BY <1>1, <1>2, <1>3, <1>12
  <2>8. starved' + Unanswered' \in Int
    <3>1. starved' \in Int /\ Unanswered' = 0
      BY <1>15, <2>7
    <3> QED BY <3>1
  <2>9. PICK u \in Int : u = starved + Unanswered
    BY <1>3, <1>4, <2>3
  <2>10. PICK v \in Int : v = starved' + Unanswered'
    BY <2>8
  <2>11. PICK m \in Int : m = Cardinality(Bad(D)) + MaxLosses - losses
    BY <1>3, <2>7
  <2>12. PICK n \in Int : n = Cardinality(Bad(D - 1)') + MaxLosses - losses
    BY <1>3, <2>7
  <2>13. v <= u /\ n <= m
    BY <1>3, <1>12, <1>15, <2>7, <2>9, <2>10, <2>11, <2>12
  <2>14. Load(D) = x + u + m /\ Load(D - 1)' = x + v + n
    BY <1>3, <1>4, <1>15, <2>3, <2>6, <2>7, <2>9, <2>10, <2>11, <2>12
  <2> QED BY <2>1, <2>13, <2>14
<1>17. skipRun' <= StarveLimit * (Behind(D) - PrefillCount) + starved'
  <2>1. CASE Play
    BY <2>1, <1>14 DEF Play
  <2>2. CASE Skip
    <3>1. starved' = starved + 1 /\ skipRun' <= skipRun + 1
      BY <2>2, <1>1, <1>3, <1>4, ReceiverAssumption DEF Skip, Starve, SkipLimit
    <3>2. skipRun' \in Int
      BY <2>2, <1>4, ReceiverAssumption DEF Skip, SkipLimit
    <3> QED BY <3>1, <3>2, <1>4, <1>14, ReceiverAssumption DEF Lag, SkipLimit
  <2> QED BY <2>1, <2>2
<1> QED BY <1>1, <1>2, <1>7, <1>8, <1>9, <1>12, <1>13, <1>16, <1>17 DEF Lag

\* What is in the window when the buffer holds at most one packet.
LEMMA LagIfEmpty ==
  ASSUME ReceiverInv, Fits, NEW D \in Int, NEW f \in Int, Lag(D, f),
         Cardinality(Occupied) <= 1
  PROVE  D <= losses + 3
<1>1. /\ f < D /\ D <= Depth + Mid /\ Mid \in {0, 1} /\ losses \in 0 .. MaxLosses /\ expected \in Seqs
  BY LagBounds
<1>2. Depth \in Nat \ {0} /\ WholeLaps /\ MaxLosses \in Nat
  BY ReceiverAssumption DEF Fits
<1>3. CASE D < 1
  BY <1>1, <1>2, <1>3
<1>4. CASE D >= 1
  <2>1. PICK S : S = {Place(expected, k) : k \in 1 .. D - 1}
    OBVIOUS
  <2>2. Cardinality(S) = D - 1
    <3>1. PICK a \in Int, b \in Int : a = 1 /\ b = D - 1
      OBVIOUS
    <3>2. a <= b + 1 /\ b - a < Depth
      BY <1>1, <1>2, <1>4, <3>1
    <3>3. Cardinality({Place(expected, k) : k \in a .. b}) = b - a + 1
      BY <1>1, <1>2, <3>2, RunOfPlaces
    <3> QED BY <2>1, <3>1, <3>3
  <2>3. S \in SUBSET JB!Slots
    BY <1>1, <2>1, NumbersTyped
  <2>4. PICK x : x = Place(expected, f)
    OBVIOUS
  <2>5. S \subseteq (Gone(1, D) \cup Occupied) \cup {x}
    <3> SUFFICES ASSUME NEW k \in 1 .. D - 1, Place(expected, k) \notin Occupied,
                        Place(expected, k) # x
                 PROVE  Place(expected, k) \in Gone(1, D)
      BY <2>1
    <3>1. Place(expected, k) \in JB!Slots
      BY <1>1, NumbersTyped
    <3>2. held[Place(expected, k)] = NoData
      BY <3>1 DEF Occupied
    <3>3. Number(expected, k) # Number(expected, f)
      BY <2>4 DEF Place
    <3>4. Number(expected, k) \notin inFlight
      BY <3>3 DEF Lag, Flying
    <3> QED BY <3>1, <3>2, <3>4 DEF Gone
  <2>6. Gone(1, D) \in SUBSET JB!Slots /\ Occupied \in SUBSET JB!Slots
    BY DEF Gone, Occupied
  <2>7. Cardinality(Occupied) = 0 \/ Cardinality(Occupied) = 1
    <3>1. Cardinality(Occupied) \in 0 .. Depth
      BY <2>6, SlotSets
    <3> QED BY <3>1
  <2>8. PICK y : Occupied \subseteq {y}
    <3>1. IsFiniteSet(Occupied)
      BY <2>6, SlotSets
    <3> QED BY <2>7, <3>1, FS_EmptySet, FS_Singleton
  <2>9. CASE Occupied = {}
    <3>1. S \subseteq Gone(1, D) \cup {x}
      BY <2>5, <2>9
    <3>2. Cardinality(S) <= Cardinality(Gone(1, D)) + 1
      BY <2>6, <3>1, SlotSets
    <3>3. Cardinality(Gone(1, D)) \in Int
      BY <2>6, SlotSets
    <3> QED BY <1>1, <1>2, <2>2, <3>2, <3>3 DEF Lag
  <2>10. CASE Occupied # {}
    <3>1. PICK T : T = Gone(1, D) \cup {y}
      OBVIOUS
    <3>2. S \subseteq T \cup {x} /\ T \subseteq Gone(1, D) \cup {y}
      BY <2>5, <2>8, <3>1
    <3>3. T \in SUBSET JB!Slots
      BY <2>6, <2>8, <2>10, <3>1
    <3>4. Cardinality(S) <= Cardinality(T) + 1
      BY <3>2, <3>3, SlotSets
    <3>5. Cardinality(T) <= Cardinality(Gone(1, D)) + 1
      BY <2>6, <3>2, SlotSets
    <3>6. Cardinality(Gone(1, D)) \in Int /\ Cardinality(T) \in Int
      BY <2>6, <3>3, SlotSets
    <3> QED BY <1>1, <1>2, <2>2, <3>4, <3>5, <3>6 DEF Lag
  <2> QED BY <2>9, <2>10
<1> QED BY <1>3, <1>4

\* An underrun: the same number is waited for, one interval has passed.
LEMMA UnderrunKeepsLag ==
  ASSUME ReceiverInv, Fits, Underrun, NEW D \in Int, NEW f \in Int, Lag(D, f),
         Cardinality(Occupied) <= 1
  PROVE  Lag(D, f)'
<1> DEFINE s0 == Place(expected, 0)
<1>1. /\ Mid = 1 /\ Mid' = 0 /\ Unanswered' = 0 /\ skipRun' = 0
      /\ UNCHANGED <<expected, inFlight, held, nextSeq, losses, lead>>
  BY DEF Underrun, Mid, Asked, Unanswered, netVars, jbVars
<1>2. /\ Behind(D) \in PrefillCount .. Depth - PaceSlack /\ D = Behind(D) + 1 + lead
      /\ f < D /\ f >= D - 1 - losses
      /\ lead \in -PaceSlack .. PaceSlack /\ losses \in 0 .. MaxLosses
      /\ expected \in Seqs
  <2>1. /\ D = Behind(D) + Mid + lead
        /\ Behind(D) \in PrefillCount .. Depth - PaceSlack /\ f < D /\ f >= D - 1 - losses
        /\ lead \in -PaceSlack .. PaceSlack /\ losses \in 0 .. MaxLosses
        /\ expected \in Seqs
    BY LagBounds
  <2> QED BY <1>1, <2>1
<1>3. /\ StarveLimit \in Nat \ {0} /\ PaceSlack \in Nat /\ MaxLosses \in Nat
      /\ Depth \in Nat \ {0} /\ PrefillCount \in Nat /\ WholeLaps
  BY ReceiverAssumption DEF Fits
<1>4. starved' \in 0 .. StarveLimit
  BY <1>3 DEF Underrun, Starve, ReceiverInv, PaceTyped
<1>5. D <= losses + 3 /\ D < Depth
  BY LagIfEmpty, DepthSuffices, <1>2, <1>3
<1>6. Window = 1 .. Depth /\ Window' = 0 .. Depth - 1
  BY <1>1, <1>3 DEF Window
<1>7. s0 \in JB!Slots /\ Place(expected, Depth) = s0 /\ Number(expected, Depth - Depth) = Number(expected, 0)
  <2>1. Place(expected, 0 + Depth) = s0
    BY <1>2, <1>3, PlaceRecurs
  <2> QED BY <1>2, <1>3, <2>1, NumbersTyped
<1>8. InWindow(D)'
  <2> SUFFICES ASSUME NEW k \in 0 .. Depth - 1
               PROVE  \/ held[Place(expected, k)] = NoData
                      \/ (k < D /\ held[Place(expected, k)] = Number(expected, k))
                      \/ k - Depth < D /\ held[Place(expected, k)] = Number(expected, k - Depth)
    BY <1>1, <1>6 DEF InWindow, Carries
  <2>1. CASE k # 0
    <3>1. k \in Window
      BY <2>1, <1>3, <1>6
    <3> QED BY <3>1 DEF Lag, InWindow, Carries
  <2>2. CASE k = 0
    <3>1. Depth \in Window /\ ~(Depth < D)
      BY <1>3, <1>5, <1>6
    <3>2. \/ held[Place(expected, Depth)] = NoData
          \/ Depth - Depth < D /\ held[Place(expected, Depth)] = Number(expected, Depth - Depth)
      BY <3>1 DEF Lag, InWindow, Carries
    <3>3. \/ held[s0] = NoData
          \/ 0 < D /\ held[s0] = Number(expected, 0)
      BY <3>2, <1>3, <1>7
    <3> QED BY <2>2, <3>3
  <2> QED BY <2>1, <2>2
<1>9. Gone(1, D)' = Gone(1, D)
  BY <1>1 DEF Gone
<1>10. Bad(D)' \subseteq (Gone(1, D) \cup {s0}) \cup Occupied
  <2> SUFFICES ASSUME NEW i \in JB!Slots, NEW k \in 0 .. Depth - 1, i = Place(expected, k),
                      held[i] = NoData => k < D /\ Number(expected, k) \notin inFlight,
                      i \notin Occupied, i # s0
               PROVE  i \in Gone(1, D)
    BY <1>1, <1>6 DEF Bad
  <2>1. held[i] = NoData /\ k # 0
    BY DEF Occupied
  <2>2. k \in 1 .. D - 1
    BY <2>1, <1>3
  <2> QED BY <2>1, <2>2 DEF Gone
<1>11. Cardinality(Bad(D)') <= losses + 2 /\ Cardinality(Bad(D)') \in Int /\ Cardinality(Gone(1, D)') <= losses
  <2>1. Gone(1, D) \in SUBSET JB!Slots /\ Occupied \in SUBSET JB!Slots /\ Bad(D)' \in SUBSET JB!Slots
    BY DEF Gone, Occupied, Bad
  <2>2. PICK y \in Occupied \cup {s0} : Occupied \subseteq {y}
    <3>1. IsFiniteSet(Occupied) /\ Cardinality(Occupied) \in 0 .. Depth
      BY <2>1, SlotSets
    <3>2. Cardinality(Occupied) = 0 \/ Cardinality(Occupied) = 1
      BY <3>1
    <3> QED BY <3>1, <3>2, FS_EmptySet, FS_Singleton
  <2>3. PICK T : T = Gone(1, D) \cup {s0}
    OBVIOUS
  <2>4. T \in SUBSET JB!Slots
    BY <2>1, <2>3, <1>7
  <2>5. Cardinality(Bad(D)') <= Cardinality(T) + 1
    <3>1. Bad(D)' \subseteq T \cup {y}
      BY <1>10, <2>2, <2>3
    <3> QED BY <2>4, <3>1, SlotSets
  <2>6. Cardinality(T) <= Cardinality(Gone(1, D)) + 1
    <3>1. T \subseteq Gone(1, D) \cup {s0}
      BY <2>3
    <3> QED BY <2>1, <3>1, SlotSets
  <2>7. Cardinality(Bad(D)') \in Int /\ Cardinality(T) \in Int /\ Cardinality(Gone(1, D)) \in Int
    BY <2>1, <2>4, SlotSets
  <2> QED BY <1>2, <1>3, <1>9, <2>5, <2>6, <2>7 DEF Lag
<1>12. Behind(D)' = Behind(D) + 1
  BY <1>1, <1>2, <1>3 DEF Behind
<1>13. Load(D)' <= MaxLoad
  <2>1. PICK b \in Int, c \in Int : b = D - lead /\ c = 3 + MaxLosses + PaceSlack
    BY <1>2, <1>3
  <2>2. b <= c /\ Behind(D)' = b
    BY <2>1, <1>1, <1>2, <1>3, <1>5, <1>12
  <2>3. /\ StarveLimit * b <= StarveLimit * c /\ StarveLimit * (c + 1) = StarveLimit * c + StarveLimit
        /\ StarveLimit * b \in Int /\ StarveLimit * c \in Int
    BY <1>3, <2>1, <2>2, Products
  <2>4. LoadEmptied = StarveLimit * (c + 1) + 2 + MaxLosses
    <3>1. c + 1 = 4 + MaxLosses + PaceSlack
      BY <2>1, <1>3
    <3> QED BY <3>1 DEF LoadEmptied
  <2>5. Load(D)' = StarveLimit * b + starved' + 0 + Cardinality(Bad(D)') + MaxLosses - losses
    BY <1>1, <2>2 DEF Load
  <2>6. LoadEmptied <= MaxLoad /\ LoadEmptied \in Int /\ MaxLoad \in Int
    BY LoadsBounded
  <2> QED BY <1>2, <1>3, <1>4, <1>11, <2>1, <2>3, <2>4, <2>5, <2>6
<1>14. skipRun' <= StarveLimit * (Behind(D)' - PrefillCount) + starved'
  <2>1. PICK c \in Int : c = Behind(D)' - PrefillCount /\ c >= 0
    BY <1>2, <1>3, <1>12
  <2>2. StarveLimit * c >= 0 /\ StarveLimit * c \in Int
    BY <1>3, <2>1, Products
  <2> QED BY <1>1, <1>4, <2>1, <2>2
<1>15. Behind(D)' >= PrefillCount
  BY <1>2, <1>3, <1>12
<1>16. nextSeq' = Number(expected', D) /\ Flying(D, f)'
  BY <1>1 DEF Lag, Flying
<1>17. Cardinality(Gone(1, D)') <= losses'
  BY <1>1, <1>11
<1> QED BY <1>8, <1>13, <1>14, <1>15, <1>16, <1>17 DEF Lag

\* A lengthened interval takes the place of StarveLimit misses.
LEMMA SlipKeepsLag ==
  ASSUME ReceiverInv, Fits, RateSlip, NEW D \in Int, NEW f \in Int, Lag(D, f)
  PROVE  Lag(D, f)'
<1>1. /\ Mid = 0 /\ Mid' = 0 /\ Unanswered = 0 /\ Unanswered' = 0 /\ lead' = lead - 1
      /\ starved = StarveLimit /\ starved' = 0
      /\ UNCHANGED <<expected, inFlight, held, nextSeq, losses, skipRun>>
  BY DEF RateSlip, Mid, Asked, Unanswered, netVars, jbVars
<1>2. /\ Behind(D) \in Int /\ D = Behind(D) + Mid + lead /\ Behind(D) >= PrefillCount
      /\ lead \in Int /\ losses \in Int /\ Cardinality(Bad(D)) \in Int
  <2>1. /\ Behind(D) \in PrefillCount .. Depth - PaceSlack
        /\ D = Behind(D) + Mid + lead
        /\ lead \in -PaceSlack .. PaceSlack /\ losses \in 0 .. MaxLosses
        /\ Cardinality(Bad(D)) \in 0 .. Depth
    BY LagBounds
  <2> QED BY <2>1, ReceiverAssumption
<1>3. StarveLimit \in Nat \ {0} /\ PrefillCount \in Nat /\ MaxLosses \in Nat
  BY ReceiverAssumption
<1>4. Window' = Window
  BY <1>1 DEF Window
<1>5. InWindow(D)' /\ Gone(1, D)' = Gone(1, D) /\ Bad(D)' = Bad(D)
  <2>1. InWindow(D)
    BY DEF Lag
  <2> QED BY <2>1, <1>1, <1>4 DEF InWindow, Carries, Gone, Bad
<1>6. Behind(D)' = Behind(D) + 1
  BY <1>1, <1>2 DEF Behind
<1>7. PICK b \in Int, c \in Int : b = Behind(D) /\ c = Behind(D) - PrefillCount
  BY <1>2, <1>3
<1>8. /\ StarveLimit * (b + 1) = StarveLimit * b + StarveLimit /\ StarveLimit * b \in Int
      /\ StarveLimit * (c + 1) = StarveLimit * c + StarveLimit /\ StarveLimit * c \in Int
  BY <1>3, <1>7, Products
<1>9. Load(D)' = Load(D)
  <2>1. Load(D)' = StarveLimit * (b + 1) + 0 + 0 + Cardinality(Bad(D)) + MaxLosses - losses
    BY <1>1, <1>5, <1>6, <1>7 DEF Load
  <2>2. Load(D) = StarveLimit * b + StarveLimit + 0 + Cardinality(Bad(D)) + MaxLosses - losses
    BY <1>1, <1>7 DEF Load
  <2> QED BY <1>2, <1>3, <1>8, <2>1, <2>2
<1>10. skipRun' <= StarveLimit * (Behind(D)' - PrefillCount) + starved'
  <2>1. Behind(D)' - PrefillCount = c + 1
    BY <1>2, <1>3, <1>6, <1>7
  <2>2. skipRun <= StarveLimit * c + StarveLimit
    BY <1>1, <1>7 DEF Lag
  <2> QED BY <1>1, <1>3, <1>8, <2>1, <2>2
<1>11. Behind(D)' >= PrefillCount
  BY <1>2, <1>3, <1>6
<1>12. nextSeq' = Number(expected', D) /\ Flying(D, f)'
  BY <1>1 DEF Lag, Flying
<1>13. Cardinality(Gone(1, D)') <= losses' /\ Load(D)' <= MaxLoad
  BY <1>1, <1>5, <1>9 DEF Lag
<1> QED BY <1>5, <1>10, <1>11, <1>12, <1>13 DEF Lag

-----------------------------------------------------------------------------
\* Steps of the sender and of the receive thread.
LEMMA SendKeepsLag ==
  ASSUME ReceiverInv, Fits, running, cPc # "off", NEW lost \in BOOLEAN, Send(lost),
         NEW D \in Int, NEW f \in Int, Lag(D, f)
  PROVE  \E g \in Int : Lag(D + 1, g)'
<1> DEFINE sD == Place(expected, D)
<1>1. /\ Mid' = Mid /\ Unanswered' = Unanswered /\ lead' = lead + 1
      /\ nextSeq' = (nextSeq + 1) % SeqMod
      /\ UNCHANGED <<expected, held, starved, skipRun>>
  BY DEF Send, Paced, Mid, Asked, Unanswered, jbVars
<1>2. /\ Behind(D) \in Int /\ Behind(D) >= PrefillCount /\ D = Behind(D) + Mid + lead
      /\ Mid \in {0, 1} /\ f < D /\ f >= D - 1 - losses
      /\ lead \in Int /\ losses \in 0 .. MaxLosses
      /\ expected \in Seqs /\ Cardinality(Bad(D)) \in Int
  <2>1. /\ Behind(D) \in PrefillCount .. Depth - PaceSlack
        /\ D = Behind(D) + Mid + lead /\ Mid \in {0, 1} /\ f < D /\ f >= D - 1 - losses
        /\ lead \in -PaceSlack .. PaceSlack /\ losses \in 0 .. MaxLosses
        /\ expected \in Seqs /\ Cardinality(Bad(D)) \in 0 .. Depth
    BY LagBounds
  <2> QED BY <2>1, ReceiverAssumption
<1>3. StarveLimit \in Nat \ {0} /\ MaxLosses \in Nat /\ MaxInFlight = 1
  BY ReceiverAssumption DEF Fits
<1>4. starved \in Int /\ Unanswered \in Int
  BY <1>3 DEF ReceiverInv, PaceTyped, Unanswered
<1>5. nextSeq' = Number(expected', D + 1)
  BY <1>1, <1>2, NumberAfter DEF Lag
<1>6. Behind(D + 1)' = Behind(D)
  BY <1>1, <1>2 DEF Behind
<1>7. Window' = Window
  BY <1>1 DEF Window
<1>8. InWindow(D + 1)'
  <2> SUFFICES ASSUME NEW k \in Window
               PROVE  \/ held[Place(expected, k)] = NoData
                      \/ (k < D + 1 /\ held[Place(expected, k)] = Number(expected, k))
                      \/ k - Depth < D + 1 /\ held[Place(expected, k)] = Number(expected, k - Depth)
    BY <1>1, <1>7 DEF InWindow, Carries
  <2>1. k \in Int /\ k - Depth \in Int
    BY <1>2, ReceiverAssumption DEF Window
  <2> QED BY <2>1 DEF Lag, InWindow, Carries
<1>9. /\ Bad(D) \in SUBSET JB!Slots /\ Gone(1, D) \in SUBSET JB!Slots
      /\ Bad(D + 1)' \in SUBSET JB!Slots /\ Gone(1, D + 1)' \in SUBSET JB!Slots
  BY DEF Bad, Gone
<1>10. /\ Cardinality(Gone(1, D)) \in Int /\ Cardinality(Gone(1, D)) <= losses
       /\ Cardinality(Gone(1, D + 1)') \in Int /\ Cardinality(Bad(D + 1)') \in Int
  BY <1>9, SlotSets DEF Lag
<1>11. PICK x \in Int : x = StarveLimit * Behind(D)
  BY <1>2, <1>3
<1>12. /\ Load(D) = x + starved + Unanswered + Cardinality(Bad(D)) + MaxLosses - losses
       /\ Load(D + 1)' = x + starved + Unanswered + Cardinality(Bad(D + 1)') + MaxLosses - losses'
  BY <1>1, <1>6, <1>11 DEF Load
<1>13. Load(D) <= MaxLoad /\ MaxLoad \in Int
  BY LoadsBounded DEF Lag
<1>14. skipRun' <= StarveLimit * (Behind(D + 1)' - PrefillCount) + starved' /\ Behind(D + 1)' >= PrefillCount
  BY <1>1, <1>2, <1>6 DEF Lag
<1>15. CASE lost
  <2>1. inFlight' = inFlight /\ losses' = losses + 1
    BY <1>15 DEF Send
  <2>2. \A k \in Int : k < D + 1 /\ k # D => k < D
    BY <1>2
  <2>3. Gone(1, D + 1)' \subseteq Gone(1, D) \cup {sD}
    <3> SUFFICES ASSUME NEW i \in JB!Slots, NEW k \in 1 .. (D + 1) - 1, i = Place(expected, k),
                        held[i] = NoData, Number(expected, k) \notin inFlight, i # sD
                 PROVE  k \in 1 .. D - 1
      BY <1>1, <2>1 DEF Gone
    <3>1. k # D
      OBVIOUS
    <3> QED BY <3>1
  <2>4. Bad(D + 1)' \subseteq Bad(D) \cup {sD}
    <3> SUFFICES ASSUME NEW i \in JB!Slots, NEW k \in Window, i = Place(expected, k),
                        held[i] # Number(expected, k),
                        held[i] = NoData => k < D + 1 /\ Number(expected, k) \notin inFlight, i # sD
                 PROVE  i \in Bad(D)
      BY <1>1, <1>7, <2>1 DEF Bad
    <3>1. k # D /\ k \in Int
      BY <1>2, ReceiverAssumption DEF Window
    <3> QED BY <2>2, <3>1 DEF Bad
  <2>5. /\ Cardinality(Gone(1, D + 1)') <= Cardinality(Gone(1, D)) + 1
        /\ Cardinality(Bad(D + 1)') <= Cardinality(Bad(D)) + 1
    BY <1>9, <2>3, <2>4, SlotSets
  <2>6. Cardinality(Gone(1, D + 1)') <= losses'
    BY <1>2, <1>10, <2>1, <2>5
  <2>7. Load(D + 1)' <= MaxLoad
    BY <1>2, <1>3, <1>4, <1>10, <1>12, <1>13, <2>1, <2>5
  <2>8. PICK g \in Int : Flying(D + 1, g)'
    <3>1. f \in (D + 1) - 1 - losses' .. (D + 1) - 1
      BY <1>2, <2>1
    <3>2. Flying(D + 1, f)'
      BY <1>1, <2>1, <3>1 DEF Lag, Flying
    <3> QED BY <3>2
  <2> QED BY <1>5, <1>8, <1>14, <2>6, <2>7, <2>8 DEF Lag
<1>16. CASE ~lost
  <2>1. inFlight = {}
    <3>1. IsFiniteSet(inFlight)
      <4>1. inFlight \in SUBSET {Number(expected, f)}
        BY DEF Lag, Flying
      <4> QED BY <4>1, FS_Singleton, FS_Subset
    <3>2. Cardinality(inFlight) < 1
      BY <1>3, <1>16 DEF Send
    <3>3. Cardinality(inFlight) \in Nat
      BY <3>1, FS_CardinalityType
    <3>4. Cardinality(inFlight) = 0
      BY <3>2, <3>3
    <3> QED BY <3>1, <3>4, FS_EmptySet
  <2>2. inFlight' = {Number(expected, D)} /\ losses' = losses
    BY <1>16, <2>1 DEF Send, Lag
  <2>3. Gone(1, D + 1)' \subseteq Gone(1, D)
    <3> SUFFICES ASSUME NEW i \in JB!Slots, NEW k \in 1 .. (D + 1) - 1, i = Place(expected, k),
                        held[i] = NoData, Number(expected, k) \notin {Number(expected, D)}
                 PROVE  k \in 1 .. D - 1
      BY <1>1, <2>1, <2>2 DEF Gone
    <3>1. k # D
      OBVIOUS
    <3> QED BY <3>1
  <2>4. Bad(D + 1)' \subseteq Bad(D)
    <3> SUFFICES ASSUME NEW i \in JB!Slots, NEW k \in Window, i = Place(expected, k),
                        held[i] # Number(expected, k),
                        held[i] = NoData => k < D + 1 /\ Number(expected, k) \notin {Number(expected, D)}
                 PROVE  i \in Bad(D)
      BY <1>1, <1>7, <2>2 DEF Bad
    <3>1. k \in Int /\ (held[i] = NoData => k # D)
      BY <1>2, ReceiverAssumption DEF Window
    <3>2. held[i] = NoData => k < D
      BY <1>2, <3>1
    <3> QED BY <2>1, <3>2 DEF Bad
  <2>5. /\ Cardinality(Gone(1, D + 1)') <= Cardinality(Gone(1, D))
        /\ Cardinality(Bad(D + 1)') <= Cardinality(Bad(D))
    BY <1>9, <2>3, <2>4, SlotSets
  <2>6. Cardinality(Gone(1, D + 1)') <= losses'
    BY <1>2, <1>10, <2>2, <2>5
  <2>7. Load(D + 1)' <= MaxLoad
    BY <1>2, <1>3, <1>4, <1>10, <1>12, <1>13, <2>2, <2>5
  <2>8. Flying(D + 1, D)'
    <3>1. D \in (D + 1) - 1 - losses' .. (D + 1) - 1
      BY <1>2, <2>2
    <3> QED BY <1>1, <2>2, <3>1 DEF Flying
  <2> QED BY <1>5, <1>8, <1>14, <2>6, <2>7, <2>8 DEF Lag
<1> QED BY <1>15, <1>16

\* A packet arrives and finds its slot empty or taken.
LEMMA ArrivalKeepsLag ==
  ASSUME ReceiverInv, Fits, Resting, running, connected, NEW p \in inFlight, ProcessPacket(p),
         NEW D \in Int, NEW f \in Int, Lag(D, f)
  PROVE  Lag(D, D - 1)'
<1> DEFINE sf == Place(expected, f)
<1>1. /\ Mid' = Mid /\ UNCHANGED <<expected, lead, nextSeq, starved, skipRun, losses>>
  BY DEF ProcessPacket, Mid, Asked, paceVars
<1>2. /\ Behind(D) \in Int /\ Behind(D) >= PrefillCount /\ D = Behind(D) + Mid + lead
      /\ Mid \in {0, 1} /\ f < D /\ f >= D - 1 - losses /\ f >= Mid - Depth /\ D <= Depth + Mid
      /\ lead \in -PaceSlack .. PaceSlack /\ losses \in 0 .. MaxLosses
      /\ expected \in Seqs /\ Cardinality(Bad(D)) \in Int
  <2>1. /\ Behind(D) \in PrefillCount .. Depth - PaceSlack
        /\ D = Behind(D) + Mid + lead /\ Mid \in {0, 1} /\ f < D /\ f >= D - 1 - losses
        /\ f >= Mid - Depth /\ D <= Depth + Mid
        /\ lead \in -PaceSlack .. PaceSlack /\ losses \in 0 .. MaxLosses
        /\ expected \in Seqs /\ Cardinality(Bad(D)) \in 0 .. Depth
    BY LagBounds
  <2> QED BY <2>1, ReceiverAssumption
<1>3. /\ StarveLimit \in Nat \ {0} /\ MaxLosses \in Nat /\ Depth \in Nat \ {0} /\ PaceSlack \in Nat
      /\ WholeLaps /\ NoData \notin Seqs
  BY ReceiverAssumption DEF Fits
<1>4. starved \in 0 .. StarveLimit /\ held \in [JB!Slots -> Seqs \cup {NoData}]
  BY DEF ReceiverInv, PaceTyped, BufferTyped
<1>5. p = Number(expected, f) /\ inFlight = {p} /\ inFlight' = {} /\ JB!SlotOf(p) = sf /\ sf \in JB!Slots
  <2>1. inFlight \subseteq {Number(expected, f)}
    BY DEF Lag, Flying
  <2>2. inFlight' = inFlight \ {p}
    BY DEF ProcessPacket
  <2> QED BY <1>2, <2>1, <2>2, NumbersTyped DEF Place
<1>6. Unanswered' = Unanswered
  BY DEF ProcessPacket, Unanswered, JB!Put, JB!Drop, JB!slotsVars
<1>7. Window' = Window /\ Behind(D)' = Behind(D)
  BY <1>1 DEF Window, Behind
<1>8. Window = Mid .. Mid + Depth - 1 /\ \A k \in Window : k \in Int
  BY <1>2, <1>3 DEF Window
<1>9. /\ \A i \in JB!Slots : i # sf => held'[i] = held[i]
      /\ held'[sf] # NoData
      /\ \/ held' = held
         \/ held'[sf] = p /\ held[sf] = NoData
  <2>1. p \in Seqs /\ p # NoData
    BY <1>2, <1>3, <1>5, NumbersTyped
  <2>2. CASE JB!Put(p)
    BY <1>4, <1>5, <2>1, <2>2 DEF JB!Put
  <2>3. CASE JB!Drop(p)
    <3>1. held' = held /\ held[JB!SlotOf(p)] # NoData
      BY <2>3 DEF JB!Drop, JB!slotsVars
    <3>2. held'[sf] # NoData
      BY <1>5, <3>1
    <3> QED BY <3>1, <3>2
  <2> QED BY <2>2, <2>3 DEF ProcessPacket
\* Another slot's number is not the one that has arrived.
<1>10. \A k \in Int : Place(expected, k) # sf => Number(expected, k) \notin inFlight
  BY <1>5 DEF Place
<1>11. Gone(1, D)' \subseteq Gone(1, D)
  <2> SUFFICES ASSUME NEW i \in JB!Slots, NEW k \in 1 .. D - 1, i = Place(expected, k),
                      held'[i] = NoData
               PROVE  held[i] = NoData /\ Number(expected, k) \notin inFlight
    BY <1>1, <1>5 DEF Gone
  <2> QED BY <1>9, <1>10
<1>12. /\ Bad(D) \in SUBSET JB!Slots /\ Gone(1, D) \in SUBSET JB!Slots
       /\ Bad(D)' \in SUBSET JB!Slots /\ Gone(1, D)' \in SUBSET JB!Slots
  BY DEF Bad, Gone
<1>13. /\ Cardinality(Gone(1, D)') <= losses'
       /\ Cardinality(Bad(D)') \in 0 .. Depth
  <2>1. Cardinality(Gone(1, D)') <= Cardinality(Gone(1, D)) /\ Cardinality(Gone(1, D)) <= losses
    BY <1>11, <1>12, SlotSets DEF Lag
  <2>2. Cardinality(Gone(1, D)') \in Int /\ Cardinality(Gone(1, D)) \in Int
    BY <1>12, SlotSets
  <2> QED BY <1>1, <1>2, <1>12, <2>1, <2>2, SlotSets
<1>14. PICK x \in Int : x = StarveLimit * Behind(D)
  BY <1>2, <1>3
<1>15. /\ Load(D) = x + starved + Unanswered + Cardinality(Bad(D)) + MaxLosses - losses
       /\ Load(D)' = x + starved + Unanswered + Cardinality(Bad(D)') + MaxLosses - losses
  BY <1>1, <1>6, <1>7, <1>14 DEF Load
<1>16. Load(D) <= MaxLoad /\ MaxLoad \in Int /\ Unanswered \in {0, 1}
  BY LoadsBounded DEF Lag, Unanswered
<1>17. /\ skipRun' <= StarveLimit * (Behind(D)' - PrefillCount) + starved' /\ Behind(D)' >= PrefillCount
       /\ nextSeq' = Number(expected', D)
  BY <1>1, <1>2, <1>7 DEF Lag
<1>18. Flying(D, D - 1)'
  <2>1. D - 1 \in D - 1 - losses' .. D - 1
    BY <1>1, <1>2
  <2> QED BY <1>5, <2>1 DEF Flying
<1>19. ASSUME NEW k \in Window, Place(expected, k) # sf
       PROVE  \/ held'[Place(expected, k)] = NoData
              \/ (k < D /\ held'[Place(expected, k)] = Number(expected, k))
              \/ k - Depth < D /\ held'[Place(expected, k)] = Number(expected, k - Depth)
  <2>1. Place(expected, k) \in JB!Slots
    BY <1>2, <1>8, NumbersTyped
  <2>2. held'[Place(expected, k)] = held[Place(expected, k)]
    BY <1>9, <1>19, <2>1
  <2> QED BY <2>2 DEF Lag, InWindow, Carries
\* Of the numbers of the window one has the slot of the packet.
<1>20. PICK m \in {f, f + Depth} : m \in Window /\ (m = f <=> f >= Mid)
  BY <1>2, <1>3, <1>8
<1>21. Place(expected, m) = sf
  BY <1>2, <1>3, <1>20, PlaceRecurs
<1>22. \A k \in Window : Place(expected, k) = sf => k = m
  <2> SUFFICES ASSUME NEW k \in Window, Place(expected, k) = sf PROVE k = m
    OBVIOUS
  <2>1. k \in Int /\ m \in Int /\ k - m < Depth /\ m - k < Depth
    BY <1>2, <1>3, <1>8, <1>20
  <2> QED BY <1>2, <1>3, <1>21, <2>1, PlacesDiffer
<1>23. InWindow(D)'
  <2> SUFFICES ASSUME NEW k \in Window
               PROVE  \/ held'[Place(expected, k)] = NoData
                      \/ (k < D /\ held'[Place(expected, k)] = Number(expected, k))
                      \/ k - Depth < D /\ held'[Place(expected, k)] = Number(expected, k - Depth)
    BY <1>1, <1>7 DEF InWindow, Carries
  <2>1. CASE held' = held
    BY <2>1 DEF Lag, InWindow, Carries
  <2>2. CASE k = m /\ held'[sf] = p /\ m = f
    BY <2>2, <1>2, <1>5
  <2>3. CASE k = m /\ held'[sf] = p /\ m = f + Depth
    <3>1. k - Depth = f
      BY <2>3, <1>3
    <3> QED BY <2>3, <3>1, <1>2, <1>5, <1>21
  <2> QED BY <2>1, <2>2, <2>3, <1>9, <1>19, <1>20, <1>22
<1>24. Load(D)' <= MaxLoad
  <2>1. CASE f >= Mid \/ held' = held
    <3>1. Bad(D)' \subseteq Bad(D)
      <4> SUFFICES ASSUME NEW i \in JB!Slots, NEW k \in Window, i = Place(expected, k),
                          held'[i] # Number(expected, k), held'[i] = NoData => k < D
                   PROVE  i \in Bad(D)
        BY <1>1, <1>5, <1>7 DEF Bad
      <4>1. CASE i # sf
        <5>1. held'[i] = held[i] /\ Number(expected, k) \notin inFlight
          BY <4>1, <1>8, <1>9, <1>10
        <5> QED BY <5>1 DEF Bad
      <4>2. CASE i = sf /\ held' = held
        <5>1. held[i] # NoData
          BY <4>2, <1>9
        <5> QED BY <4>2, <5>1 DEF Bad
      <4>3. CASE i = sf /\ held' # held
        <5>1. k = f /\ held'[sf] = Number(expected, f)
          BY <2>1, <4>3, <1>5, <1>9, <1>20, <1>22
        <5> QED BY <4>3, <5>1
      <4> QED BY <4>1, <4>2, <4>3
    <3>2. Cardinality(Bad(D)') <= Cardinality(Bad(D))
      BY <1>12, <3>1, SlotSets
    <3> QED BY <3>2, <1>2, <1>3, <1>4, <1>13, <1>15, <1>16
  <2>2. CASE f < Mid
    <3>1. Behind(D) <= losses + PaceSlack
      BY <2>2, <1>2, <1>3
    <3>2. starved + Unanswered \in 0 .. StarveLimit
      BY <1>3, <1>4, <1>16 DEF Unanswered, Resting, Asked
    <3>3. StarveLimit * Behind(D) + (starved + Unanswered) + Cardinality(Bad(D)') + MaxLosses - losses
            <= LoadLate
      BY <1>2, <1>13, <3>1, <3>2, LateLoad
    <3>4. LoadLate <= MaxLoad /\ LoadLate \in Int
      BY LoadsBounded
    <3> QED BY <1>2, <1>3, <1>4, <1>13, <1>14, <1>15, <1>16, <3>3, <3>4
  <2> QED BY <2>1, <2>2, <1>2
<1> QED BY <1>13, <1>17, <1>18, <1>23, <1>24 DEF Lag

-----------------------------------------------------------------------------
\* Filling the buffer before playback.
LEMMA FillBounds ==
  ASSUME ReceiverInv, Fits, NEW D \in Int, NEW f \in Int, Fill(D, f)
  PROVE  /\ D \in 1 .. Depth /\ f < D /\ f >= 0 /\ f >= D - 1 - losses
         /\ D - lead <= PrefillCount + 1 + MaxLosses + PaceSlack
         /\ lead \in -PaceSlack .. PaceSlack /\ losses \in 0 .. MaxLosses /\ expected \in Seqs
<1>1. /\ PrefillCount \in Nat \ {0} /\ MaxLosses \in Nat /\ PaceSlack \in Nat /\ Depth \in Nat
  BY ReceiverAssumption
<1>2. lead \in -PaceSlack .. PaceSlack /\ losses \in 0 .. MaxLosses /\ expected \in Seqs
  BY DEF ReceiverInv, PaceTyped, FlowTyped
<1>3. /\ D >= 1 /\ f >= 0 /\ f \in D - 1 - losses .. D - 1
      /\ D - lead <= PrefillCount + 1 + MaxLosses + PaceSlack
  BY DEF Fill, Flying
<1> QED BY <1>1, <1>2, <1>3, DepthSuffices

\* The first packet sets the number playback starts at.
LEMMA FirstPacketFills ==
  ASSUME ReceiverInv, Fits, Waiting, running, ~connected, NEW p \in inFlight, ProcessPacket(p)
  PROVE  connected' /\ \E D, f \in Int : Fill(D, f)'
<1>1. PICK d \in 1 .. losses + 1 : inFlight \subseteq {(nextSeq - d) % SeqMod}
  BY DEF Waiting
<1>2. /\ held = JB!Empty /\ starved = 0 /\ skipRun = 0
  BY DEF Waiting
<1>3. /\ p = (nextSeq - d) % SeqMod /\ inFlight' = {} /\ expected' = p /\ connected' = TRUE
      /\ UNCHANGED <<lead, nextSeq, starved, skipRun, losses>>
  BY <1>1 DEF ProcessPacket, paceVars
<1>4. /\ nextSeq \in Seqs /\ losses \in 0 .. MaxLosses /\ lead \in -PaceSlack .. PaceSlack
      /\ SeqMod \in Nat \ {0} /\ Depth \in Nat \ {0} /\ PaceSlack \in Nat /\ MaxLosses \in Nat
      /\ PrefillCount \in Nat /\ WholeLaps /\ NoData \notin Seqs
  BY ReceiverAssumption DEF ReceiverInv, FlowTyped, PaceTyped, Fits
<1>5. d \in Int /\ nextSeq \in Int /\ nextSeq \in 0 .. SeqMod - 1 /\ p \in Seqs
  BY <1>3, <1>4, WrapsInRange DEF Seqs
<1>6. JB!SlotOf(p) \in JB!Slots /\ Number(p, 0) = p /\ Place(p, 0) = JB!SlotOf(p)
  BY <1>5, SlotInRange, NumberItself
<1>7. held' = [held EXCEPT ![JB!SlotOf(p)] = p]
  <2>1. held[JB!SlotOf(p)] = NoData
    BY <1>2, <1>6 DEF JB!Empty
  <2> QED BY <2>1 DEF ProcessPacket, JB!Put, JB!Drop
<1>8. nextSeq' = Number(expected', d)
  <2>1. PICK a \in Int : a = nextSeq - d
    BY <1>5
  <2>2. ((a % SeqMod) + d) % SeqMod = (a + d) % SeqMod
    BY <1>4, <1>5, RestOfShifted
  <2>3. (a + d) % SeqMod = nextSeq
    <3>1. a + d = SeqMod * 0 + nextSeq
      BY <1>4, <1>5, <2>1
    <3> QED BY <1>4, <1>5, <3>1, RestIsUnique
  <2> QED BY <1>3, <2>1, <2>2, <2>3 DEF Number
<1>9. \A i \in JB!Slots : held'[i] = IF i = Place(p, 0) THEN p ELSE NoData
  BY <1>2, <1>6, <1>7 DEF JB!Empty
<1>10. Flying(d, d - 1)'
  <2>1. d - 1 \in d - 1 - losses' .. d - 1
    BY <1>3, <1>4, <1>5
  <2> QED BY <1>3, <2>1 DEF Flying
<1>11. \A k \in 0 .. Depth - 1 : held'[Place(p, k)] = NoData
                                  \/ (k < d /\ held'[Place(p, k)] = Number(p, k))
  <2> SUFFICES ASSUME NEW k \in 0 .. Depth - 1
               PROVE  held'[Place(p, k)] = NoData \/ (k < d /\ held'[Place(p, k)] = Number(p, k))
    OBVIOUS
  <2>1. Place(p, k) \in JB!Slots
    BY <1>4, <1>5, NumbersTyped
  <2>2. CASE k = 0
    BY <2>1, <2>2, <1>5, <1>6, <1>9
  <2>3. CASE k # 0
    <3>1. k \in Int /\ 0 \in Int /\ k - 0 < Depth /\ 0 - k < Depth
      BY <1>4
    <3>2. Place(p, k) # Place(p, 0)
      BY <2>3, <3>1, <1>4, <1>5, PlacesDiffer
    <3> QED BY <2>1, <3>2, <1>9
  <2> QED BY <2>2, <2>3
<1>12. Cardinality(Gone(0, d)') <= losses'
  <2>1. PICK a \in Int, b \in Int : a = 1 /\ b = d - 1
    BY <1>5
  <2>2. PICK S : S = {Place(p, k) : k \in a .. b}
    OBVIOUS
  <2>3. Cardinality(S) <= b - a + 1
    <3>1. a <= b + 1
      BY <2>1
    <3> QED BY <1>4, <1>5, <2>2, <3>1, RunOfPlaces
  <2>4. S \in SUBSET JB!Slots
    BY <1>5, <2>2, NumbersTyped
  <2>5. Gone(0, d)' \subseteq S
    <3> SUFFICES ASSUME NEW i \in JB!Slots, NEW k \in 0 .. d - 1, i = Place(p, k), held'[i] = NoData
                 PROVE  i \in S
      BY <1>3 DEF Gone
    <3>1. k # 0
      BY <1>4, <1>5, <1>6, <1>9
    <3>2. k \in a .. b
      BY <2>1, <3>1
    <3> QED BY <2>2, <3>2
  <2>6. Cardinality(Gone(0, d)') <= Cardinality(S) /\ Cardinality(S) \in Int
    BY <2>4, <2>5, SlotSets
  <2>7. Cardinality(Gone(0, d)') \in Int
    <3>1. Gone(0, d)' \in SUBSET JB!Slots
      BY <2>4, <2>5
    <3> QED BY <3>1, SlotSets
  <2> QED BY <1>3, <1>4, <1>5, <2>1, <2>3, <2>6, <2>7
<1>13. Fill(d, d - 1)'
  <2>1. \A k \in 0 .. Depth - 1 : (held[Place(expected, k)])' = NoData \/ Carries(k, k, d)'
    BY <1>3, <1>11 DEF Carries
  <2>2. (held[Place(expected, 0)])' # NoData
    BY <1>3, <1>4, <1>5, <1>6, <1>9
  <2>3. d - 1 >= 0 /\ d >= 1 /\ d - lead' <= PrefillCount + 1 + MaxLosses + PaceSlack
    BY <1>3, <1>4
  <2> QED BY <1>2, <1>3, <1>8, <1>10, <1>12, <2>1, <2>2, <2>3 DEF Fill
<1> QED BY <1>3, <1>5, <1>13

\* Sending a packet, and the arrival of one, before playback.
LEMMA SendKeepsFill ==
  ASSUME ReceiverInv, Fits, running, cPc # "off", NEW lost \in BOOLEAN, Send(lost),
         NEW D \in Int, NEW f \in Int, Fill(D, f)
  PROVE  \E g \in Int : Fill(D + 1, g)'
<1> DEFINE sD == Place(expected, D)
<1>1. /\ lead' = lead + 1 /\ nextSeq' = (nextSeq + 1) % SeqMod
      /\ UNCHANGED <<expected, held, starved, skipRun>>
  BY DEF Send, Paced, jbVars
<1>2. /\ D \in 1 .. Depth /\ f < D /\ f >= 0 /\ f >= D - 1 - losses
      /\ D - lead <= PrefillCount + 1 + MaxLosses + PaceSlack
      /\ lead \in -PaceSlack .. PaceSlack /\ losses \in 0 .. MaxLosses /\ expected \in Seqs
  BY FillBounds
<1>3. /\ MaxLosses \in Nat /\ PaceSlack \in Nat /\ PrefillCount \in Nat /\ Depth \in Nat
      /\ MaxInFlight = 1
  BY ReceiverAssumption DEF Fits
<1>4. nextSeq' = Number(expected', D + 1)
  BY <1>1, <1>2, NumberAfter DEF Fill
<1>5. \A k \in 0 .. Depth - 1 : (held[Place(expected, k)])' = NoData \/ Carries(k, k, D + 1)'
  <2> SUFFICES ASSUME NEW k \in 0 .. Depth - 1
               PROVE  held[Place(expected, k)] = NoData
                      \/ (k < D + 1 /\ held[Place(expected, k)] = Number(expected, k))
    BY <1>1 DEF Carries
  <2> QED BY DEF Fill, Carries
<1>6. /\ (held[Place(expected, 0)])' # NoData /\ starved' = 0 /\ skipRun' = 0
      /\ (D + 1) - lead' <= PrefillCount + 1 + MaxLosses + PaceSlack /\ D + 1 >= 1
  BY <1>1, <1>2, <1>3 DEF Fill
<1>7. Gone(0, D) \in SUBSET JB!Slots /\ Gone(0, D + 1)' \in SUBSET JB!Slots
  BY DEF Gone
<1>8. /\ Cardinality(Gone(0, D)) \in Int /\ Cardinality(Gone(0, D)) <= losses
      /\ Cardinality(Gone(0, D + 1)') \in Int
  BY <1>7, SlotSets DEF Fill
<1>9. CASE lost
  <2>1. inFlight' = inFlight /\ losses' = losses + 1
    BY <1>9 DEF Send
  <2>2. Gone(0, D + 1)' \subseteq Gone(0, D) \cup {sD}
    <3> SUFFICES ASSUME NEW i \in JB!Slots, NEW k \in 0 .. (D + 1) - 1, i = Place(expected, k),
                        held[i] = NoData, Number(expected, k) \notin inFlight, i # sD
                 PROVE  k \in 0 .. D - 1
      BY <1>1, <2>1 DEF Gone
    <3>1. k # D
      OBVIOUS
    <3> QED BY <3>1
  <2>3. Cardinality(Gone(0, D + 1)') <= losses'
    <3>1. Cardinality(Gone(0, D + 1)') <= Cardinality(Gone(0, D)) + 1
      BY <1>7, <2>2, SlotSets
    <3> QED BY <1>2, <1>8, <2>1, <3>1
  <2>4. Flying(D + 1, f)'
    <3>1. f \in (D + 1) - 1 - losses' .. (D + 1) - 1
      BY <1>2, <2>1
    <3> QED BY <1>1, <2>1, <3>1 DEF Fill, Flying
  <2>5. Fill(D + 1, f)'
    BY <1>2, <1>4, <1>5, <1>6, <2>3, <2>4 DEF Fill
  <2> QED BY <2>5
<1>10. CASE ~lost
  <2>1. inFlight = {}
    <3>1. IsFiniteSet(inFlight)
      <4>1. inFlight \in SUBSET {Number(expected, f)}
        BY DEF Fill, Flying
      <4> QED BY <4>1, FS_Singleton, FS_Subset
    <3>2. Cardinality(inFlight) < 1
      BY <1>3, <1>10 DEF Send
    <3>3. Cardinality(inFlight) \in Nat
      BY <3>1, FS_CardinalityType
    <3>4. Cardinality(inFlight) = 0
      BY <3>2, <3>3
    <3> QED BY <3>1, <3>4, FS_EmptySet
  <2>2. inFlight' = {Number(expected, D)} /\ losses' = losses
    BY <1>10, <2>1 DEF Send, Fill
  <2>3. Gone(0, D + 1)' \subseteq Gone(0, D)
    <3> SUFFICES ASSUME NEW i \in JB!Slots, NEW k \in 0 .. (D + 1) - 1, i = Place(expected, k),
                        held[i] = NoData, Number(expected, k) \notin {Number(expected, D)}
                 PROVE  k \in 0 .. D - 1
      BY <1>1, <2>1, <2>2 DEF Gone
    <3>1. k # D
      OBVIOUS
    <3> QED BY <3>1
  <2>4. Cardinality(Gone(0, D + 1)') <= losses'
    <3>1. Cardinality(Gone(0, D + 1)') <= Cardinality(Gone(0, D))
      BY <1>7, <2>3, SlotSets
    <3> QED BY <1>2, <1>8, <2>2, <3>1
  <2>5. Flying(D + 1, D)'
    <3>1. D \in (D + 1) - 1 - losses' .. (D + 1) - 1
      BY <1>2, <2>2
    <3> QED BY <1>1, <2>2, <3>1 DEF Flying
  <2>6. D \in Int /\ D >= 0
    BY <1>2
  <2>7. Fill(D + 1, D)'
    BY <1>4, <1>5, <1>6, <2>4, <2>5, <2>6 DEF Fill
  <2> QED BY <2>6, <2>7
<1> QED BY <1>9, <1>10

LEMMA ArrivalKeepsFill ==
  ASSUME ReceiverInv, Fits, running, connected, NEW p \in inFlight, ProcessPacket(p),
         NEW D \in Int, NEW f \in Int, Fill(D, f)
  PROVE  Fill(D, D - 1)'
<1> DEFINE sf == Place(expected, f)
<1>1. /\ UNCHANGED <<expected, lead, nextSeq, starved, skipRun, losses>>
  BY DEF ProcessPacket, paceVars
<1>2. /\ D \in 1 .. Depth /\ f < D /\ f >= 0 /\ f >= D - 1 - losses
      /\ D - lead <= PrefillCount + 1 + MaxLosses + PaceSlack
      /\ lead \in -PaceSlack .. PaceSlack /\ losses \in 0 .. MaxLosses /\ expected \in Seqs
  BY FillBounds
<1>3. /\ MaxLosses \in Nat /\ Depth \in Nat \ {0} /\ WholeLaps /\ NoData \notin Seqs
  BY ReceiverAssumption DEF Fits
<1>4. held \in [JB!Slots -> Seqs \cup {NoData}]
  BY DEF ReceiverInv, BufferTyped
<1>5. p = Number(expected, f) /\ inFlight' = {} /\ JB!SlotOf(p) = sf /\ sf \in JB!Slots
  <2>1. inFlight \subseteq {Number(expected, f)}
    BY DEF Fill, Flying
  <2>2. inFlight' = inFlight \ {p}
    BY DEF ProcessPacket
  <2> QED BY <1>2, <2>1, <2>2, NumbersTyped DEF Place
<1>6. /\ \A i \in JB!Slots : i # sf => held'[i] = held[i]
      /\ held'[sf] # NoData
      /\ \/ held' = held
         \/ held'[sf] = p
  <2>1. p \in Seqs /\ p # NoData
    BY <1>2, <1>3, <1>5, NumbersTyped
  <2>2. CASE JB!Put(p)
    BY <1>4, <1>5, <2>1, <2>2 DEF JB!Put
  <2>3. CASE JB!Drop(p)
    <3>1. held' = held /\ held[JB!SlotOf(p)] # NoData
      BY <2>3 DEF JB!Drop, JB!slotsVars
    <3>2. held'[sf] # NoData
      BY <1>5, <3>1
    <3> QED BY <3>1, <3>2
  <2> QED BY <2>2, <2>3 DEF ProcessPacket
<1>7. \A k \in Int : Place(expected, k) # sf => Number(expected, k) # p
  BY <1>5 DEF Place
<1>8. Gone(0, D)' \subseteq Gone(0, D)
  <2> SUFFICES ASSUME NEW i \in JB!Slots, NEW k \in 0 .. D - 1, i = Place(expected, k),
                      held'[i] = NoData
               PROVE  held[i] = NoData /\ Number(expected, k) \notin inFlight
    BY <1>1, <1>5 DEF Gone
  <2>1. i # sf /\ Number(expected, k) # p
    BY <1>6, <1>7
  <2>2. Number(expected, k) \notin inFlight
    BY <2>1, <1>5 DEF Fill, Flying
  <2> QED BY <1>6, <2>1, <2>2
<1>9. Cardinality(Gone(0, D)') <= losses'
  <2>1. Gone(0, D) \in SUBSET JB!Slots /\ Gone(0, D)' \in SUBSET JB!Slots
    BY DEF Gone
  <2>2. Cardinality(Gone(0, D)') <= Cardinality(Gone(0, D)) /\ Cardinality(Gone(0, D)) <= losses
    BY <1>8, <2>1, SlotSets DEF Fill
  <2>3. Cardinality(Gone(0, D)') \in Int /\ Cardinality(Gone(0, D)) \in Int
    BY <2>1, SlotSets
  <2> QED BY <1>1, <1>2, <2>2, <2>3
<1>10. \A k \in 0 .. Depth - 1 : (held[Place(expected, k)])' = NoData \/ Carries(k, k, D)'
  <2> SUFFICES ASSUME NEW k \in 0 .. Depth - 1
               PROVE  held'[Place(expected, k)] = NoData
                      \/ (k < D /\ held'[Place(expected, k)] = Number(expected, k))
    BY <1>1 DEF Carries
  <2>1. held[Place(expected, k)] = NoData \/ (k < D /\ held[Place(expected, k)] = Number(expected, k))
    BY DEF Fill, Carries
  <2>2. Place(expected, k) \in JB!Slots
    BY <1>2, NumbersTyped
  <2>3. CASE Place(expected, k) # sf \/ held' = held
    BY <1>6, <2>1, <2>2, <2>3
  <2>4. CASE Place(expected, k) = sf /\ held'[sf] = p
    <3>1. k \in Int /\ k - f < Depth /\ f - k < Depth
      BY <1>2, <1>3
    <3>2. k = f
      BY <2>4, <3>1, <1>2, <1>3, PlacesDiffer
    <3> QED BY <2>4, <3>2, <1>2, <1>5
  <2> QED BY <1>6, <2>3, <2>4
<1>11. (held[Place(expected, 0)])' # NoData
  <2>1. held[Place(expected, 0)] # NoData /\ Place(expected, 0) \in JB!Slots
    BY <1>2, NumbersTyped DEF Fill
  <2> QED BY <1>1, <1>6, <2>1
<1>12. Flying(D, D - 1)'
  <2>1. D - 1 \in D - 1 - losses' .. D - 1
    BY <1>1, <1>2
  <2> QED BY <1>5, <2>1 DEF Flying
<1>13. /\ nextSeq' = Number(expected', D) /\ D - 1 >= 0 /\ D >= 1 /\ starved' = 0 /\ skipRun' = 0
       /\ D - lead' <= PrefillCount + 1 + MaxLosses + PaceSlack
  BY <1>1, <1>2 DEF Fill
<1> QED BY <1>9, <1>10, <1>11, <1>12, <1>13 DEF Fill

-----------------------------------------------------------------------------
\* What the counter says of the slots.
LEMMA OwedTyped == Owed \in {-1, 0, 1} /\ (~getPending => Owed \in {-1, 0})
BY DEF Owed

LEMMA CountBounds ==
  ASSUME ReceiverInv, Fits, Counted, ~getPending
  PROVE  /\ Cardinality(Occupied) \in 0 .. Depth
         /\ Occupied # {} => count <= Cardinality(Occupied)
         /\ Occupied # {} => Cardinality(Occupied) <= count + 1
         /\ count = 0 => Cardinality(Occupied) <= 1
<1>1. PICK n \in Int : n = Cardinality(Occupied)
  <2>1. Occupied \in SUBSET JB!Slots
    BY DEF Occupied
  <2> QED BY <2>1, SlotSets
<1>2. n \in 0 .. Depth /\ (Occupied # {} => n >= 1)
  <2>1. Occupied \in SUBSET JB!Slots
    BY DEF Occupied
  <2>2. IsFiniteSet(Occupied) /\ n \in 0 .. Depth
    BY <1>1, <2>1, SlotSets
  <2>3. Occupied # {} => n # 0
    BY <1>1, <2>2, FS_EmptySet
  <2> QED BY <2>2, <2>3
<1>3. PICK o \in {-1, 0} : o = Owed
  BY OwedTyped
<1>4. CountMod \in Nat \ {0} /\ Depth \in Nat /\ CountMod > Depth + 1
  BY ReceiverAssumption DEF Fits
<1>5. PICK s \in Int : s = n + o
  BY <1>3
<1>6. count = s % CountMod
  BY <1>1, <1>3, <1>5 DEF Counted
<1>7. s >= 0 => count = s
  <2> SUFFICES ASSUME s >= 0 PROVE count = s
    OBVIOUS
  <2>1. s \in 0 .. CountMod - 1 /\ s = CountMod * 0 + s
    BY <1>2, <1>3, <1>4, <1>5
  <2>2. (CountMod * 0 + s) % CountMod = s
    BY <1>4, <2>1, RestIsUnique
  <2> QED BY <1>6, <2>1, <2>2
<1>8. s < 0 => count # 0
  <2> SUFFICES ASSUME s < 0 PROVE count # 0
    OBVIOUS
  <2>1. CountMod - 1 \in 0 .. CountMod - 1 /\ s = CountMod * (-1) + (CountMod - 1)
    BY <1>2, <1>3, <1>4, <1>5
  <2>2. PICK r \in 0 .. CountMod - 1 : r = CountMod - 1
    BY <2>1
  <2>3. (CountMod * (-1) + r) % CountMod = r
    BY <1>4, RestIsUnique
  <2> QED BY <1>4, <1>6, <2>1, <2>2, <2>3
<1> QED BY <1>1, <1>2, <1>3, <1>4, <1>5, <1>7, <1>8

\* The prefill goes on while few packets are there, and not many more can
\* have been sent.
LEMMA PollKeepsFill ==
  ASSUME ReceiverInv, Fits, Counted, running, PrefillPoll, NEW D \in Int, NEW f \in Int, Fill(D, f)
  PROVE  Fill(D, f)'
<1>1. /\ lead' = lead - 1 /\ lead > -PaceSlack /\ count < PrefillCount /\ ~getPending
      /\ UNCHANGED <<expected, held, starved, skipRun, nextSeq, inFlight, losses>>
  BY DEF PrefillPoll, PrefillWaits, jbVars, netVars, ReceiverInv, ThreadsAndPending
<1>2. /\ D \in 1 .. Depth /\ f < D /\ f >= 0 /\ f >= D - 1 - losses
      /\ D - lead <= PrefillCount + 1 + MaxLosses + PaceSlack
      /\ lead \in -PaceSlack .. PaceSlack /\ losses \in 0 .. MaxLosses /\ expected \in Seqs
  BY FillBounds
<1>3. /\ MaxLosses \in Nat /\ PaceSlack \in Nat /\ PrefillCount \in Nat /\ Depth \in Nat /\ WholeLaps
  BY ReceiverAssumption DEF Fits
<1>4. Occupied # {}
  <2>1. held[Place(expected, 0)] # NoData /\ Place(expected, 0) \in JB!Slots
    BY <1>2, NumbersTyped DEF Fill
  <2> QED BY <2>1 DEF Occupied
<1>5. Cardinality(Occupied) \in Int /\ Cardinality(Occupied) <= PrefillCount
  <2>1. Cardinality(Occupied) \in 0 .. Depth /\ Cardinality(Occupied) <= count + 1
    BY <1>1, <1>4, CountBounds
  <2>2. count \in Int
    BY ReceiverAssumption DEF ReceiverInv, BufferTyped
  <2> QED BY <1>1, <1>3, <2>1, <2>2
<1>6. PICK S : S = {Place(expected, k) : k \in 0 .. D - 1}
  OBVIOUS
<1>7. Cardinality(S) = D
  <2>1. PICK a \in Int, b \in Int : a = 0 /\ b = D - 1
    OBVIOUS
  <2>2. a <= b + 1 /\ b - a < Depth
    BY <1>2, <1>3, <2>1
  <2>3. Cardinality({Place(expected, k) : k \in a .. b}) = b - a + 1
    BY <1>2, <1>3, <2>2, RunOfPlaces
  <2> QED BY <1>2, <1>6, <2>1, <2>3
<1>8. PICK x \in JB!Slots : x = Place(expected, f)
  BY <1>2, NumbersTyped
<1>9. PICK T : T = Gone(0, D) \cup Occupied
  OBVIOUS
<1>10. S \subseteq T \cup {x}
  <2> SUFFICES ASSUME NEW k \in 0 .. D - 1, Place(expected, k) \notin Occupied,
                      Place(expected, k) # x
               PROVE  Place(expected, k) \in Gone(0, D)
    BY <1>6, <1>9
  <2>1. Place(expected, k) \in JB!Slots
    BY <1>2, NumbersTyped
  <2>2. held[Place(expected, k)] = NoData
    BY <2>1 DEF Occupied
  <2>3. Number(expected, k) # Number(expected, f)
    BY <1>8 DEF Place
  <2>4. Number(expected, k) \notin inFlight
    BY <2>3 DEF Fill, Flying
  <2> QED BY <2>1, <2>2, <2>4 DEF Gone
<1>11. Gone(0, D) \in SUBSET JB!Slots /\ Occupied \in SUBSET JB!Slots /\ T \in SUBSET JB!Slots
  BY <1>9 DEF Gone, Occupied
<1>12. D <= losses + PrefillCount + 1
  <2>1. Cardinality(S) <= Cardinality(T) + 1
    BY <1>10, <1>11, SlotSets
  <2>2. IsFiniteSet(Gone(0, D)) /\ IsFiniteSet(Occupied)
    BY <1>11, SlotSets
  <2>3. PICK U : U = Gone(0, D) \cap Occupied
    OBVIOUS
  <2>4. Cardinality(T) = Cardinality(Gone(0, D)) + Cardinality(Occupied) - Cardinality(U)
    BY <1>9, <2>2, <2>3, FS_Union
  <2>5. Cardinality(U) \in 0 .. Depth
    <3>1. U \in SUBSET JB!Slots
      BY <1>11, <2>3
    <3> QED BY <3>1, SlotSets
  <2>6. Cardinality(Gone(0, D)) \in Int /\ Cardinality(Gone(0, D)) <= losses
    BY <1>11, SlotSets DEF Fill
  <2> QED BY <1>2, <1>3, <1>5, <1>7, <2>1, <2>4, <2>5, <2>6
<1>13. D - lead' <= PrefillCount + 1 + MaxLosses + PaceSlack
  BY <1>1, <1>2, <1>3, <1>12
<1>14. Gone(0, D)' = Gone(0, D)
  BY <1>1 DEF Gone
<1>15. Cardinality(Gone(0, D)') <= losses'
  BY <1>1, <1>14 DEF Fill
<1>16. Flying(D, f)' /\ nextSeq' = Number(expected', D)
  BY <1>1 DEF Fill, Flying
<1>17. \A k \in 0 .. Depth - 1 : (held[Place(expected, k)])' = NoData \/ Carries(k, k, D)'
  BY <1>1 DEF Fill, Carries
<1>18. (held[Place(expected, 0)])' # NoData /\ f >= 0 /\ D >= 1 /\ starved' = 0 /\ skipRun' = 0
  BY <1>1 DEF Fill
<1> QED BY <1>13, <1>15, <1>16, <1>17, <1>18 DEF Fill

\* Playback starts.
LEMMA DoneStartsLag ==
  ASSUME ReceiverInv, Fits, Counted, running, PrefillDone, NEW D \in Int, NEW f \in Int, Fill(D, f)
  PROVE  Lag(D, f)'
<1>1. /\ lead' = 0 /\ count >= PrefillCount /\ ~getPending /\ Mid' = 0 /\ Unanswered' = 0
      /\ UNCHANGED <<expected, held, starved, skipRun, nextSeq, inFlight, losses>>
  <2>1. count >= PrefillCount
    BY ReceiverAssumption DEF PrefillDone, PrefillWaits, ReceiverInv, BufferTyped
  <2> QED BY <2>1 DEF PrefillDone, jbVars, netVars, ReceiverInv, ThreadsAndPending, Mid, Asked,
         Unanswered
<1>2. /\ D \in 1 .. Depth /\ f < D /\ f >= 0 /\ f >= D - 1 - losses
      /\ D - lead <= PrefillCount + 1 + MaxLosses + PaceSlack
      /\ lead \in -PaceSlack .. PaceSlack /\ losses \in 0 .. MaxLosses /\ expected \in Seqs
  BY FillBounds
<1>3. /\ MaxLosses \in Nat /\ PaceSlack \in Nat /\ PrefillCount \in Nat /\ Depth \in Nat \ {0}
      /\ WholeLaps /\ StarveLimit \in Nat \ {0}
  BY ReceiverAssumption DEF Fits
<1>4. D >= PrefillCount
  <2>1. PICK S : S = {Place(expected, k) : k \in 0 .. D - 1}
    OBVIOUS
  <2>2. Cardinality(S) <= D
    <3>1. PICK a \in Int, b \in Int : a = 0 /\ b = D - 1
      OBVIOUS
    <3>2. a <= b + 1
      BY <1>2, <3>1
    <3>3. Cardinality({Place(expected, k) : k \in a .. b}) <= b - a + 1
      BY <1>2, <1>3, <3>2, RunOfPlaces
    <3> QED BY <1>2, <2>1, <3>1, <3>3
  <2>3. S \in SUBSET JB!Slots
    BY <1>2, <2>1, NumbersTyped
  <2>4. Occupied \subseteq S
    <3> SUFFICES ASSUME NEW i \in JB!Slots, held[i] # NoData PROVE i \in S
      BY DEF Occupied
    <3>1. PICK m \in Int : m = 0
      OBVIOUS
    <3>2. PICK k \in m .. m + Depth - 1 : Place(expected, k) = i
      BY <1>2, <1>3, EveryPlace
    <3>3. k \in 0 .. Depth - 1
      BY <1>3, <3>1, <3>2
    <3>4. k < D
      BY <3>2, <3>3 DEF Fill, Carries
    <3> QED BY <2>1, <3>2, <3>3, <3>4
  <2>5. Occupied # {}
    <3>1. held[Place(expected, 0)] # NoData /\ Place(expected, 0) \in JB!Slots
      BY <1>2, NumbersTyped DEF Fill
    <3> QED BY <3>1 DEF Occupied
  <2>6. count <= Cardinality(Occupied) /\ Cardinality(Occupied) <= Cardinality(S)
    BY <1>1, <2>3, <2>4, <2>5, CountBounds, SlotSets
  <2>7. Cardinality(S) \in Int /\ Cardinality(Occupied) \in Int /\ count \in Int
    BY <2>3, <2>4, SlotSets, ReceiverAssumption DEF ReceiverInv, BufferTyped
  <2> QED BY <1>1, <1>2, <1>3, <2>2, <2>6, <2>7
<1>5. Window' = 0 .. Depth - 1
  BY <1>1, <1>3 DEF Window
<1>6. InWindow(D)'
  <2> SUFFICES ASSUME NEW k \in 0 .. Depth - 1
               PROVE  \/ held[Place(expected, k)] = NoData
                      \/ (k < D /\ held[Place(expected, k)] = Number(expected, k))
    BY <1>1, <1>5 DEF InWindow, Carries
  <2> QED BY DEF Fill, Carries
<1>7. Gone(1, D)' \subseteq Gone(0, D) /\ Bad(D)' \subseteq Gone(0, D)
  <2>1. Gone(1, D)' \subseteq Gone(0, D)
    BY <1>1 DEF Gone
  <2>2. Bad(D)' \subseteq Gone(0, D)
    <3> SUFFICES ASSUME NEW i \in JB!Slots, NEW k \in 0 .. Depth - 1, i = Place(expected, k),
                        held[i] # Number(expected, k),
                        held[i] = NoData => k < D /\ Number(expected, k) \notin inFlight
                 PROVE  i \in Gone(0, D)
      BY <1>1, <1>5 DEF Bad
    <3>1. held[i] = NoData
      BY DEF Fill, Carries
    <3>2. k \in 0 .. D - 1
      BY <3>1, <1>2
    <3> QED BY <3>1, <3>2 DEF Gone
  <2> QED BY <2>1, <2>2
<1>8. /\ Cardinality(Gone(1, D)') <= losses /\ Cardinality(Bad(D)') <= losses
      /\ Cardinality(Bad(D)') \in Int
  <2>1. Gone(0, D) \in SUBSET JB!Slots
    BY DEF Gone
  <2>2. /\ Cardinality(Gone(1, D)') <= Cardinality(Gone(0, D))
        /\ Cardinality(Bad(D)') <= Cardinality(Gone(0, D)) /\ Cardinality(Gone(0, D)) <= losses
    BY <1>7, <2>1, SlotSets DEF Fill
  <2>3. Gone(1, D)' \in SUBSET JB!Slots /\ Bad(D)' \in SUBSET JB!Slots
    BY <1>7, <2>1
  <2>4. /\ Cardinality(Gone(1, D)') \in Int /\ Cardinality(Gone(0, D)) \in Int
        /\ Cardinality(Bad(D)') \in Int
    BY <2>1, <2>3, SlotSets
  <2> QED BY <1>2, <2>2, <2>4
<1>9. Behind(D)' = D
  BY <1>1, <1>2 DEF Behind
<1>10. Load(D)' <= MaxLoad
  <2>1. PICK b \in Int : b = PrefillCount + 1 + MaxLosses + 2 * PaceSlack
    BY <1>3
  <2>2. D <= b
    BY <1>2, <1>3, <2>1
  <2>3. StarveLimit * D <= StarveLimit * b /\ StarveLimit * D \in Int /\ StarveLimit * b \in Int
    BY <1>3, <2>2, Products
  <2>4. LoadFilled = StarveLimit * b + MaxLosses
    BY <2>1 DEF LoadFilled
  <2>5. Load(D)' = StarveLimit * D + 0 + 0 + Cardinality(Bad(D)') + MaxLosses - losses
    BY <1>1, <1>9 DEF Load, Fill
  <2>6. LoadFilled <= MaxLoad /\ LoadFilled \in Int /\ MaxLoad \in Int
    BY LoadsBounded
  <2> QED BY <1>2, <1>3, <1>8, <2>3, <2>4, <2>5, <2>6
<1>11. skipRun' <= StarveLimit * (Behind(D)' - PrefillCount) + starved'
  <2>1. PICK c \in Int : c = D - PrefillCount /\ c >= 0
    BY <1>2, <1>3, <1>4
  <2>2. StarveLimit * c >= 0 /\ StarveLimit * c \in Int
    BY <1>3, <2>1, Products
  <2> QED BY <1>1, <1>9, <2>1, <2>2 DEF Fill
<1>12. nextSeq' = Number(expected', D) /\ Flying(D, f)'
  BY <1>1 DEF Fill, Flying
<1> QED BY <1>1, <1>4, <1>6, <1>8, <1>9, <1>10, <1>11, <1>12 DEF Lag


-----------------------------------------------------------------------------
\* The step of the whole receiver.
LEMMA SameLag ==
  ASSUME UNCHANGED <<expected, inFlight, held, nextSeq, losses, lead, starved, skipRun>>,
         Mid' = Mid, Unanswered' = Unanswered, NEW D \in Int, NEW f \in Int, Lag(D, f)
  PROVE  Lag(D, f)'
<1>1. Behind(D)' = Behind(D)
  BY DEF Behind
<1>2. Window' = Window
  BY <1>1 DEF Window
<1>3. Bad(D)' = Bad(D) /\ Gone(1, D)' = Gone(1, D)
  BY <1>2 DEF Bad, Gone
<1>4. Load(D)' = Load(D)
  BY <1>1, <1>3 DEF Load
<1>5. InWindow(D)' /\ Flying(D, f)'
  BY <1>2 DEF Lag, InWindow, Carries, Flying
<1> QED BY <1>1, <1>3, <1>4, <1>5 DEF Lag

LEMMA SameFill ==
  ASSUME UNCHANGED <<expected, inFlight, held, nextSeq, losses, lead, starved, skipRun>>,
         NEW D \in Int, NEW f \in Int, Fill(D, f)
  PROVE  Fill(D, f)'
<1>1. Gone(0, D)' = Gone(0, D)
  BY DEF Gone
<1>2. \A k \in 0 .. Depth - 1 : (held[Place(expected, k)])' = NoData \/ Carries(k, k, D)'
  BY DEF Fill, Carries
<1>3. (held[Place(expected, 0)])' # NoData /\ Flying(D, f)'
  BY DEF Fill, Flying
<1> QED BY <1>1, <1>2, <1>3 DEF Fill

\* Between runs nothing is in flight, and who asked was not starved.
LEMMA NextResting ==
  ASSUME ReceiverInv, Resting, Next
  PROVE  Resting'
<1>1. StarveLimit \in Nat \ {0} /\ starved \in 0 .. StarveLimit
  BY ReceiverAssumption DEF ReceiverInv, PaceTyped
<1>2. /\ ctl = "idle" /\ ~running => rPc = "off" /\ cPc = "off"
      /\ ctl # "idle" => ~running
      /\ ctl = "joinConsume" => rPc = "off"
      /\ running \in BOOLEAN /\ gotPacket \in BOOLEAN
  BY DEF ReceiverInv, ThreadsAndPending, FlowTyped, BufferTyped
<1> USE DEF Resting, Asked, jbVars, netVars, paceVars
<1>3. CASE Start \/ Stop \/ JoinReceive \/ JoinConsume
  BY <1>2, <1>3 DEF Start, Stop, JoinReceive, JoinConsume
<1>4. CASE ReceivePoll \/ SelectTimeout
  BY <1>2, <1>4 DEF ReceivePoll, SelectTimeout
<1>5. CASE CountAdded
  BY <1>2, <1>5 DEF CountAdded, JB!CountPut
<1>6. CASE \E p \in inFlight : ProcessPacket(p)
  <2>1. UNCHANGED <<running, cPc, ctl, starved, gotPacket>> /\ rPc = "select"
    BY <1>6 DEF ProcessPacket, JB!Put, JB!Drop, JB!slotsVars
  <2> QED BY <1>2, <2>1
<1>7. CASE Consume
  <2>1. UNCHANGED <<running, ctl, connected, inFlight>> /\ cPc # "off"
    BY <1>7 DEF Consume, PrefillPoll, PrefillDone, ConsumeLoop, ConsumeTick, RateSlip, CountTaken,
       Play, Skip, Underrun
  <2>2. running => cPc' # "off"
    BY <1>7 DEF Consume, PrefillPoll, PrefillDone, ConsumeLoop, ConsumeTick, RateSlip, CountTaken,
       Play, Skip, Underrun
  <2>3. Asked' => starved' < StarveLimit
    BY <1>1, <1>7 DEF Consume, PrefillPoll, PrefillDone, ConsumeLoop, ConsumeTick, RateSlip, CountTaken,
       Play, Skip, Underrun
  <2>4. cPc' = "missed" => ~gotPacket'
    BY <1>7 DEF Consume, PrefillPoll, PrefillDone, ConsumeLoop, ConsumeTick, RateSlip, CountTaken,
       Play, Skip, Underrun, JB!Miss, JB!CountTake
  <2> QED BY <1>2, <2>1, <2>2, <2>3, <2>4
<1>8. CASE \E lost \in BOOLEAN : Send(lost)
  <2>1. UNCHANGED <<running, cPc, ctl, starved, gotPacket, connected>> /\ (~running => inFlight' = inFlight)
    BY <1>8 DEF Send
  <2> QED BY <1>2, <2>1
<1> QED BY <1>3, <1>4, <1>5, <1>6, <1>7, <1>8 DEF Next, Receive

\* The counter counts the slots, but for updates still owed.
LEMMA NextCounted ==
  ASSUME ReceiverInv, Fits, Counted, Next
  PROVE  Counted'
<1>1. /\ held \in [JB!Slots -> Seqs \cup {NoData}] /\ expected \in Seqs /\ inFlight \subseteq Seqs
      /\ addPending \in BOOLEAN /\ getPending \in BOOLEAN /\ NoData \notin Seqs
      /\ ctl = "idle" /\ ~running => ~addPending /\ ~getPending
  BY DEF ReceiverInv, BufferTyped, FlowTyped, ThreadsAndPending, Fits
<1>2. CountMod \in Nat \ {0} /\ Depth \in Nat
  BY ReceiverAssumption
<1>3. Occupied \in SUBSET JB!Slots /\ IsFiniteSet(Occupied) /\ Cardinality(Occupied) \in 0 .. Depth
  <2>1. Occupied \in SUBSET JB!Slots
    BY DEF Occupied
  <2> QED BY <2>1, SlotSets
<1>4. PICK n \in Int, o \in Int : n = Cardinality(Occupied) /\ o = Owed
  BY <1>3, OwedTyped
<1>5. count = (n + o) % CountMod
  BY <1>4 DEF Counted
<1>6. CASE Start
  <2>1. Occupied' = {}
    BY <1>6 DEF Start, Occupied, JB!Empty
  <2>2. Owed' = 0
    BY <1>1, <1>6 DEF Start, Owed
  <2>3. (CountMod * 0 + 0) % CountMod = 0
    <3>1. PICK z \in 0 .. CountMod - 1 : z = 0
      BY <1>2
    <3>2. (CountMod * 0 + z) % CountMod = z
      BY <1>2, RestIsUnique
    <3> QED BY <3>1, <3>2
  <2>4. Cardinality({}) = 0
    BY FS_EmptySet
  <2> QED BY <1>2, <1>6, <2>1, <2>2, <2>3, <2>4 DEF Counted, Start
<1>7. ASSUME NEW p \in inFlight, ProcessPacket(p) PROVE Counted'
  <2>1. CASE JB!Put(p)
    <3>1. PICK i \in JB!Slots : i = JB!SlotOf(p)
      BY <1>1, SlotInRange
    <3>2. held[i] = NoData /\ held' = [held EXCEPT ![i] = p] /\ p # NoData
      BY <1>1, <2>1, <3>1 DEF JB!Put
    <3>3. Occupied' = Occupied \cup {i} /\ i \notin Occupied
      BY <1>1, <3>2 DEF Occupied
    <3>4. Cardinality(Occupied') = n + 1
      BY <1>3, <1>4, <3>3, FS_AddElement
    <3>5. Owed' = o - 1 /\ count' = count
      BY <1>4, <2>1 DEF Owed, JB!Put
    <3>6. (n + 1) + (o - 1) = n + o
      OBVIOUS
    <3> QED BY <1>5, <3>4, <3>5, <3>6 DEF Counted
  <2>2. CASE JB!Drop(p)
    BY <2>2 DEF JB!Drop, JB!slotsVars, Counted, Occupied, Owed
  <2> QED BY <1>7, <2>1, <2>2 DEF ProcessPacket
<1>8. CASE CountAdded
  <2>1. Owed' = o + 1 /\ Occupied' = Occupied /\ count' = (count + 1) % CountMod
    BY <1>4, <1>8 DEF CountAdded, JB!CountPut, Owed, Occupied
  <2>2. PICK a \in Int, b \in Int : a = n + o /\ b = 1
    OBVIOUS
  <2>3. ((a % CountMod) + b) % CountMod = (a + b) % CountMod
    BY <1>2, RestOfShifted
  <2>4. a + b = n + (o + 1) /\ b = 1
    BY <2>2
  <2> QED BY <1>4, <1>5, <2>1, <2>2, <2>3, <2>4 DEF Counted
<1>9. CASE ConsumeTick
  <2>1. CASE JB!Take(expected)
    <3>1. PICK i \in JB!Slots : i = JB!SlotOf(expected)
      BY <1>1, SlotInRange
    <3>2. held[i] # NoData /\ held' = [held EXCEPT ![i] = NoData]
      BY <1>1, <2>1, <3>1 DEF JB!Take
    <3>3. Occupied' = Occupied \ {i} /\ i \in Occupied
      BY <1>1, <3>2 DEF Occupied
    <3>4. Cardinality(Occupied') = n - 1
      BY <1>3, <1>4, <3>3, FS_RemoveElement
    <3>5. Owed' = o + 1 /\ count' = count
      BY <1>4, <2>1 DEF Owed, JB!Take
    <3>6. (n - 1) + (o + 1) = n + o
      OBVIOUS
    <3> QED BY <1>5, <3>4, <3>5, <3>6 DEF Counted
  <2>2. CASE JB!Miss(expected)
    BY <2>2 DEF JB!Miss, Counted, Occupied, Owed
  <2> QED BY <1>9, <2>1, <2>2 DEF ConsumeTick
<1>10. CASE CountTaken
  <2>1. Owed' = o - 1 /\ Occupied' = Occupied /\ count' = (count - 1) % CountMod
    BY <1>4, <1>10 DEF CountTaken, JB!CountTake, Owed, Occupied
  <2>2. PICK a \in Int, b \in Int : a = n + o /\ b = -1
    OBVIOUS
  <2>3. ((a % CountMod) + b) % CountMod = (a + b) % CountMod
    BY <1>2, RestOfShifted
  <2>4. a + b = n + (o - 1) /\ (a % CountMod) + b = (a % CountMod) - 1
    BY <1>2, <2>2
  <2> QED BY <1>4, <1>5, <2>1, <2>2, <2>3, <2>4 DEF Counted
<1>11. CASE \/ Stop \/ JoinReceive \/ JoinConsume \/ ReceivePoll \/ SelectTimeout
            \/ \E lost \in BOOLEAN : Send(lost)
            \/ PrefillPoll \/ PrefillDone \/ ConsumeLoop \/ RateSlip \/ Play \/ Skip \/ Underrun
  <2>1. UNCHANGED jbVars
    BY <1>11 DEF Stop, JoinReceive, JoinConsume, ReceivePoll, SelectTimeout, Send, PrefillPoll,
       PrefillDone, ConsumeLoop, RateSlip, Play, Skip, Underrun
  <2> QED BY <2>1 DEF jbVars, Counted, Occupied, Owed
<1> QED BY <1>6, <1>7, <1>8, <1>9, <1>10, <1>11 DEF Next, Receive, Consume


\* Before the first packet the buffer is empty.
LEMMA NextWaiting ==
  ASSUME ReceiverInv, Fits, Waiting, Resting, Next
  PROVE  Waiting'
<1>1. /\ nextSeq \in Seqs /\ losses \in 0 .. MaxLosses /\ MaxLosses \in Nat /\ PrefillCount \in Nat \ {0}
      /\ SeqMod \in Nat \ {0} /\ MaxInFlight = 1 /\ inFlight \subseteq Seqs
      /\ ctl = "idle" /\ ~running => ~addPending
      /\ addPending <=> rPc = "count"
      /\ ctl # "idle" => ~running
  BY ReceiverAssumption DEF ReceiverInv, FlowTyped, PaceTyped, ThreadsAndPending, Fits
<1> SUFFICES ASSUME running', ~connected'
             PROVE  /\ cPc' = "prefill" /\ held' = JB!Empty /\ count' = 0 /\ ~addPending'
                    /\ starved' = 0 /\ skipRun' = 0
                    /\ \E d \in 1 .. losses' + 1 : inFlight' \subseteq {(nextSeq' - d) % SeqMod}
  BY DEF Waiting, JB!Empty, JB!Slots
<1>2. CASE Start
  <2>1. inFlight = {} /\ ~addPending
    BY <1>1, <1>2 DEF Start, Resting
  <2>2. 1 \in 1 .. losses' + 1 /\ inFlight' \subseteq {(nextSeq' - 1) % SeqMod}
    BY <1>1, <1>2, <2>1 DEF Start, netVars
  <2> QED BY <1>2, <2>1, <2>2 DEF Start
<1>3. CASE Stop \/ JoinConsume
  BY <1>1, <1>3 DEF Stop, JoinConsume
<1>4. CASE JoinReceive \/ ReceivePoll \/ SelectTimeout
  <2>1. UNCHANGED <<running, connected, cPc, jbVars, netVars, paceVars>>
    BY <1>4 DEF JoinReceive, ReceivePoll, SelectTimeout
  <2> QED BY <2>1 DEF Waiting, jbVars, netVars, paceVars
<1>5. CASE CountAdded
  BY <1>1, <1>5 DEF CountAdded, Waiting
<1>6. CASE \E p \in inFlight : ProcessPacket(p)
  BY <1>6 DEF ProcessPacket
<1>7. CASE Consume
  <2>1. running /\ ~connected
    <3>1. UNCHANGED <<running, connected>>
      BY <1>7 DEF Consume, PrefillPoll, PrefillDone, ConsumeLoop, ConsumeTick, RateSlip, CountTaken,
         Play, Skip, Underrun
    <3> QED BY <3>1
  <2>2. cPc = "prefill" /\ count = 0
    BY <2>1 DEF Waiting
  <2>3. PrefillWaits
    BY <1>1, <2>1, <2>2 DEF PrefillWaits
  <2>4. PrefillPoll
    BY <1>7, <2>2, <2>3 DEF Consume, PrefillDone, ConsumeLoop, ConsumeTick, RateSlip, CountTaken,
       Play, Skip, Underrun
  <2> QED BY <2>1, <2>4 DEF PrefillPoll, Waiting, jbVars, netVars
<1>8. ASSUME NEW lost \in BOOLEAN, Send(lost)
      PROVE  /\ cPc' = "prefill" /\ held' = JB!Empty /\ count' = 0 /\ ~addPending'
             /\ starved' = 0 /\ skipRun' = 0
             /\ \E d \in 1 .. losses' + 1 : inFlight' \subseteq {(nextSeq' - d) % SeqMod}
  <2>1. /\ running /\ ~connected /\ nextSeq' = (nextSeq + 1) % SeqMod
        /\ UNCHANGED <<cPc, held, count, addPending, starved, skipRun>>
    BY <1>8 DEF Send, jbVars
  <2>2. PICK d \in 1 .. losses + 1 : inFlight \subseteq {(nextSeq - d) % SeqMod}
    BY <2>1 DEF Waiting
  <2>3. nextSeq \in 0 .. SeqMod - 1 /\ d \in Int
    BY <1>1, <2>2 DEF Seqs
\* The number d back is, after one more, the number d + 1 back.
  <2>4. \A c \in Int : (nextSeq' - c) % SeqMod = ((nextSeq + 1) - c) % SeqMod
    <3> SUFFICES ASSUME NEW c \in Int PROVE (nextSeq' - c) % SeqMod = ((nextSeq + 1) - c) % SeqMod
      OBVIOUS
    <3>1. PICK a \in Int, b \in Int : a = nextSeq + 1 /\ b = -c
      BY <2>3
    <3>2. ((a % SeqMod) + b) % SeqMod = (a + b) % SeqMod
      BY <1>1, RestOfShifted
    <3>3. (a % SeqMod) + b = nextSeq' - c /\ a + b = (nextSeq + 1) - c
      BY <1>1, <2>1, <3>1
    <3> QED BY <3>2, <3>3
  <2>5. \E e \in 1 .. losses' + 1 : inFlight' \subseteq {(nextSeq' - e) % SeqMod}
    <3>1. CASE lost
      <4>1. inFlight' = inFlight /\ losses' = losses + 1
        BY <1>8, <3>1 DEF Send
      <4>2. PICK e \in 1 .. losses' + 1 : e = d + 1
        BY <1>1, <2>2, <4>1
      <4>3. (nextSeq' - e) % SeqMod = (nextSeq - d) % SeqMod
        <5>1. (nextSeq + 1) - e = nextSeq - d /\ e \in Int
          BY <2>3, <4>2
        <5> QED BY <2>4, <5>1
      <4> QED BY <2>2, <4>1, <4>3
    <3>2. CASE ~lost
      <4>1. inFlight = {}
        <5>1. IsFiniteSet(inFlight)
          <6>1. inFlight \in SUBSET {(nextSeq - d) % SeqMod}
            BY <2>2
          <6> QED BY <6>1, FS_Singleton, FS_Subset
        <5>2. Cardinality(inFlight) < 1 /\ Cardinality(inFlight) \in Nat
          BY <1>1, <1>8, <2>1, <3>2, <5>1, FS_CardinalityType DEF Send
        <5> QED BY <5>1, <5>2, FS_EmptySet
      <4>2. inFlight' = {nextSeq} /\ losses' = losses
        BY <1>8, <2>1, <3>2, <4>1 DEF Send
      <4>3. (nextSeq' - 1) % SeqMod = nextSeq
        <5>1. PICK c \in Int : c = 1
          OBVIOUS
        <5>2. (nextSeq' - c) % SeqMod = ((nextSeq + 1) - c) % SeqMod
          BY <2>4
        <5>3. (nextSeq + 1) - c = SeqMod * 0 + nextSeq
          BY <1>1, <2>3, <5>1
        <5>4. (SeqMod * 0 + nextSeq) % SeqMod = nextSeq
          BY <1>1, <2>3, RestIsUnique
        <5> QED BY <5>1, <5>2, <5>3, <5>4
      <4>4. 1 \in 1 .. losses' + 1
        BY <1>1, <4>2
      <4> QED BY <4>2, <4>3, <4>4
    <3> QED BY <3>1, <3>2
  <2> QED BY <2>1, <2>5 DEF Waiting
<1> QED BY <1>2, <1>3, <1>4, <1>5, <1>6, <1>7, <1>8 DEF Next, Receive

\* From the first packet to the start of playback.
LEMMA NextFilling ==
  ASSUME ReceiverInv, Fits, LagInv, Next
  PROVE  Filling'
<1> USE DEF LagInv
<1>1. /\ ctl = "idle" /\ ~running => rPc = "off" /\ cPc = "off"
      /\ ctl # "idle" => ~running
  BY DEF ReceiverInv, ThreadsAndPending
<1> SUFFICES ASSUME running', cPc' = "prefill", connected'
             PROVE  \E D, f \in Int : Fill(D, f)'
  BY DEF Filling
<1>2. CASE Start
  BY <1>2 DEF Start, Resting
<1>3. CASE Stop \/ JoinConsume
  BY <1>1, <1>3 DEF Stop, JoinConsume
<1>4. CASE JoinReceive \/ ReceivePoll \/ SelectTimeout \/ CountAdded
  <2>1. /\ UNCHANGED <<expected, inFlight, held, nextSeq, losses, lead, starved, skipRun>>
        /\ running /\ cPc = "prefill" /\ connected
    BY <1>4 DEF JoinReceive, ReceivePoll, SelectTimeout, CountAdded, JB!CountPut, jbVars, netVars, paceVars
  <2>2. PICK D \in Int, f \in Int : Fill(D, f)
    BY <2>1 DEF Filling
  <2>3. Fill(D, f)'
    BY <2>1, <2>2, SameFill
  <2> QED BY <2>3
<1>5. ASSUME NEW p \in inFlight, ProcessPacket(p) PROVE \E D, f \in Int : Fill(D, f)'
  <2>1. running /\ cPc = "prefill"
    BY <1>5 DEF ProcessPacket
  <2>2. CASE ~connected
    BY <1>5, <2>1, <2>2, FirstPacketFills
  <2>3. CASE connected
    <3>1. PICK D \in Int, f \in Int : Fill(D, f)
      BY <2>1, <2>3 DEF Filling
    <3>2. Fill(D, D - 1)' /\ D - 1 \in Int
      BY <1>5, <2>1, <2>3, <3>1, ArrivalKeepsFill
    <3> QED BY <3>2
  <2> QED BY <2>2, <2>3
<1>6. CASE Consume
  <2>1. PrefillPoll /\ running /\ connected /\ cPc = "prefill"
    BY <1>6 DEF Consume, PrefillPoll, PrefillDone, ConsumeLoop, ConsumeTick, RateSlip, CountTaken,
       Play, Skip, Underrun
  <2>2. PICK D \in Int, f \in Int : Fill(D, f)
    BY <2>1 DEF Filling
  <2>3. Fill(D, f)'
    BY <2>1, <2>2, PollKeepsFill
  <2> QED BY <2>3
<1>7. ASSUME NEW lost \in BOOLEAN, Send(lost) PROVE \E D, f \in Int : Fill(D, f)'
  <2>1. running /\ connected /\ cPc = "prefill"
    BY <1>7 DEF Send
  <2>2. PICK D \in Int, f \in Int : Fill(D, f)
    BY <2>1 DEF Filling
  <2>3. PICK g \in Int : Fill(D + 1, g)'
    BY <1>7, <2>1, <2>2, SendKeepsFill
  <2>4. D + 1 \in Int
    OBVIOUS
  <2> QED BY <2>3, <2>4
<1> QED BY <1>2, <1>3, <1>4, <1>5, <1>6, <1>7 DEF Next, Receive

\* While packets are consumed.
LEMMA NextSteady ==
  ASSUME ReceiverInv, Fits, LagInv, Next
  PROVE  Steady'
<1> USE DEF LagInv
<1>1. /\ ctl = "idle" /\ ~running => rPc = "off" /\ cPc = "off"
      /\ ctl # "idle" => ~running
      /\ getPending <=> cPc = "count"
  BY DEF ReceiverInv, ThreadsAndPending
<1> DEFINE Goal == connected' /\ \E D, f \in Int : Lag(D, f)'
<1> SUFFICES ASSUME running', Consuming'
             PROVE  Goal
  BY DEF Steady
<1>2. CASE Start
  BY <1>2 DEF Start, Consuming
<1>3. CASE Stop \/ JoinConsume
  BY <1>1, <1>3 DEF Stop, JoinConsume
<1>4. CASE JoinReceive \/ ReceivePoll \/ SelectTimeout \/ CountAdded \/ ConsumeLoop \/ CountTaken
  <2>1. /\ UNCHANGED <<running, connected>>
        /\ UNCHANGED <<expected, inFlight, held, nextSeq, losses, lead, starved, skipRun>>
    BY <1>4 DEF JoinReceive, ReceivePoll, SelectTimeout, CountAdded, ConsumeLoop, CountTaken,
       JB!CountPut, JB!CountTake, jbVars, netVars, paceVars
  <2>2. Mid' = Mid /\ Unanswered' = Unanswered /\ Consuming
    <3>1. CASE JoinReceive \/ ReceivePoll \/ SelectTimeout \/ CountAdded
      <4>1. UNCHANGED <<cPc, gotPacket>>
        BY <3>1 DEF JoinReceive, ReceivePoll, SelectTimeout, CountAdded, JB!CountPut, jbVars
      <4> QED BY <4>1 DEF Consuming, Mid, Asked, Unanswered
    <3>2. CASE ConsumeLoop
      BY <3>2 DEF ConsumeLoop, Consuming, Mid, Asked, Unanswered
    <3>3. CASE CountTaken
      BY <3>3 DEF CountTaken, JB!CountTake, Consuming, Mid, Asked, Unanswered
    <3> QED BY <1>4, <3>1, <3>2, <3>3
  <2>3. connected /\ \E D, f \in Int : Lag(D, f)
    BY <2>1, <2>2 DEF Steady
  <2>4. PICK D \in Int, f \in Int : Lag(D, f)
    BY <2>3
  <2>5. Lag(D, f)'
    BY <2>1, <2>2, <2>4, SameLag
  <2> QED BY <2>1, <2>3, <2>5
<1>5. ASSUME NEW p \in inFlight, ProcessPacket(p) PROVE Goal
  <2>1. running /\ Consuming /\ connected'
    BY <1>5 DEF ProcessPacket, Consuming
  <2>2. connected /\ \E D, f \in Int : Lag(D, f)
    BY <2>1 DEF Steady
  <2>3. PICK D \in Int, f \in Int : Lag(D, f)
    BY <2>2
  <2>4. Lag(D, D - 1)' /\ D - 1 \in Int
    BY <1>5, <2>1, <2>2, <2>3, ArrivalKeepsLag
  <2> QED BY <2>1, <2>4
<1>6. CASE PrefillPoll
  BY <1>6 DEF PrefillPoll, Consuming
<1>7. CASE PrefillDone
  <2>1. running /\ cPc = "prefill" /\ connected' = connected
    BY <1>7 DEF PrefillDone
  <2>2. connected
    <3> SUFFICES ASSUME ~connected PROVE FALSE
      OBVIOUS
    <3>1. count = 0
      BY <2>1 DEF Waiting
    <3> QED BY <1>7, <2>1, <3>1, ReceiverAssumption DEF PrefillDone, PrefillWaits
  <2>3. PICK D \in Int, f \in Int : Fill(D, f)
    BY <2>1, <2>2 DEF Filling
  <2>4. Lag(D, f)'
    BY <1>7, <2>1, <2>3, DoneStartsLag
  <2> QED BY <2>1, <2>2, <2>4
<1>8. CASE ConsumeTick \/ RateSlip \/ Play \/ Skip \/ Underrun
  <2>1. running /\ Consuming /\ connected' = connected
    BY <1>8 DEF ConsumeTick, RateSlip, Play, Skip, Underrun, Consuming
  <2>2. connected /\ \E D, f \in Int : Lag(D, f)
    BY <2>1 DEF Steady
  <2>3. PICK D \in Int, f \in Int : Lag(D, f)
    BY <2>2
  <2>4. CASE ConsumeTick
    <3>1. Lag(D, f)'
      BY <2>3, <2>4, TickKeepsLag
    <3> QED BY <2>1, <2>2, <3>1
  <2>5. CASE RateSlip
    <3>1. Lag(D, f)'
      BY <2>3, <2>5, SlipKeepsLag
    <3> QED BY <2>1, <2>2, <3>1
  <2>6. CASE Play \/ Skip
    <3>1. Lag(D - 1, f - 1)' /\ D - 1 \in Int /\ f - 1 \in Int
      BY <2>3, <2>6, AdvanceKeepsLag
    <3> QED BY <2>1, <2>2, <3>1
  <2>7. CASE Underrun
    <3>1. Cardinality(Occupied) <= 1
      BY <1>1, <2>7, CountBounds DEF Underrun
    <3>2. Lag(D, f)'
      BY <2>3, <2>7, <3>1, UnderrunKeepsLag
    <3> QED BY <2>1, <2>2, <3>2
  <2> QED BY <1>8, <2>4, <2>5, <2>6, <2>7
<1>9. ASSUME NEW lost \in BOOLEAN, Send(lost) PROVE Goal
  <2>1. running /\ Consuming /\ connected' = connected /\ cPc # "off"
    BY <1>9 DEF Send, Consuming
  <2>2. connected /\ \E D, f \in Int : Lag(D, f)
    BY <2>1 DEF Steady
  <2>3. PICK D \in Int, f \in Int : Lag(D, f)
    BY <2>2
  <2>4. PICK g \in Int : Lag(D + 1, g)'
    BY <1>9, <2>1, <2>3, SendKeepsLag
  <2>5. D + 1 \in Int
    OBVIOUS
  <2> QED BY <2>1, <2>2, <2>4, <2>5
<1> QED BY <1>2, <1>3, <1>4, <1>5, <1>6, <1>7, <1>8, <1>9 DEF Next, Receive, Consume


\* stop() while the consumer sleeps: what is in the slots then stays near the
\* number it will still ask for.
LEMMA StopDrains ==
  ASSUME ReceiverInv, Fits, LagInv, running, cPc = "sleep"
  PROVE  /\ connected
         /\ \A i \in JB!Slots : held[i] = NoData \/ \E j \in -Depth .. Depth - 1 :
                                  i = Place(expected, j) /\ held[i] = Number(expected, j)
         /\ \A p \in inFlight : \E j \in -Depth .. Depth - 1 : p = Number(expected, j)
<1>1. connected /\ \E D, f \in Int : Lag(D, f)
  BY DEF LagInv, Steady, Consuming
<1>2. PICK D \in Int, f \in Int : Lag(D, f)
  BY <1>1
<1>3. Mid = 0
  BY DEF Mid, Asked
<1>4. /\ expected \in Seqs /\ f < D /\ D <= Depth /\ f >= -Depth
  <2>1. /\ expected \in Seqs /\ f < D /\ D <= Depth + Mid /\ f >= Mid - Depth
    BY <1>2, LagBounds
  <2>2. Depth \in Int
    BY ReceiverAssumption
  <2> QED BY <1>3, <2>1, <2>2
<1>5. Depth \in Nat \ {0} /\ WholeLaps
  BY ReceiverAssumption DEF Fits
<1>6. Window = 0 .. Depth - 1
  BY <1>3, <1>5 DEF Window
<1>7. ASSUME NEW i \in JB!Slots
      PROVE  held[i] = NoData \/ \E j \in -Depth .. Depth - 1 :
               i = Place(expected, j) /\ held[i] = Number(expected, j)
  <2>1. PICK m \in Int : m = 0
    OBVIOUS
  <2>2. PICK k \in m .. m + Depth - 1 : Place(expected, k) = i
    BY <1>4, <1>5, EveryPlace
  <2>3. k \in Window /\ k \in Int /\ k - Depth \in Int
    BY <1>5, <1>6, <2>1, <2>2
  <2>4. \/ held[i] = NoData
        \/ held[i] = Number(expected, k)
        \/ held[i] = Number(expected, k - Depth)
    BY <1>2, <2>2, <2>3 DEF Lag, InWindow, Carries
  <2>5. Place(expected, k - Depth) = i
    BY <1>4, <1>5, <2>2, <2>3, PlaceRecurs
  <2>6. k \in -Depth .. Depth - 1 /\ k - Depth \in -Depth .. Depth - 1
    BY <1>5, <1>6, <2>3
  <2> QED BY <2>2, <2>4, <2>5, <2>6
<1>8. ASSUME NEW p \in inFlight PROVE \E j \in -Depth .. Depth - 1 : p = Number(expected, j)
  <2>1. p = Number(expected, f)
    BY <1>2 DEF Lag, Flying
  <2>2. f \in -Depth .. Depth - 1
    BY <1>4, <1>5
  <2> QED BY <2>1, <2>2
<1> QED BY <1>1, <1>7, <1>8

\* After stop() has lowered the flag.
LEMMA NextDraining ==
  ASSUME ReceiverInv, Fits, LagInv, Next
  PROVE  Draining'
<1>1. /\ ctl = "idle" /\ ~running => rPc = "off" /\ cPc = "off"
      /\ held \in [JB!Slots -> Seqs \cup {NoData}] /\ inFlight \subseteq Seqs
  BY DEF ReceiverInv, ThreadsAndPending, BufferTyped, FlowTyped
<1> DEFINE Near == /\ connected
                   /\ \A i \in JB!Slots : held[i] = NoData \/ \E j \in -Depth .. Depth - 1 :
                                            i = Place(expected, j) /\ held[i] = Number(expected, j)
                   /\ \A p \in inFlight : \E j \in -Depth .. Depth - 1 : p = Number(expected, j)
<1> SUFFICES ASSUME ~running', cPc' = "sleep"
             PROVE  Near'
  BY DEF Draining
<1>2. CASE Start
  BY <1>2 DEF Start
<1>3. CASE Stop
  <2>1. Near
    BY <1>3, StopDrains DEF Stop
  <2>2. UNCHANGED <<connected, held, expected, inFlight>>
    BY <1>3 DEF Stop, jbVars, netVars
  <2> QED BY <2>1, <2>2
<1>4. CASE JoinConsume
  BY <1>4 DEF JoinConsume
<1>5. CASE JoinReceive \/ ReceivePoll \/ SelectTimeout \/ CountAdded \/ RateSlip
  <2>1. UNCHANGED <<connected, held, expected, inFlight, running, cPc>>
    BY <1>5 DEF JoinReceive, ReceivePoll, SelectTimeout, CountAdded, RateSlip, JB!CountPut, jbVars, netVars
  <2>2. Near
    BY <2>1 DEF LagInv, Draining
  <2> QED BY <2>1, <2>2
<1>6. ASSUME NEW p \in inFlight, ProcessPacket(p) PROVE Near'
  <2>1. ~running /\ cPc = "sleep" /\ connected' = TRUE /\ inFlight' = inFlight \ {p}
    BY <1>6 DEF ProcessPacket
  <2>2. Near
    BY <2>1 DEF LagInv, Draining
  <2>3. expected' = expected
    BY <1>6, <2>2 DEF ProcessPacket
  <2>4. PICK j \in -Depth .. Depth - 1 : p = Number(expected, j)
    BY <2>2
  <2>5. JB!SlotOf(p) = Place(expected, j) /\ JB!SlotOf(p) \in JB!Slots
    BY <1>1, <2>4, SlotInRange DEF Place
  <2>6. \A i \in JB!Slots : held'[i] = held[i] \/ (i = JB!SlotOf(p) /\ held'[i] = p)
    <3>1. CASE JB!Put(p)
      BY <1>1, <2>5, <3>1 DEF JB!Put
    <3>2. CASE JB!Drop(p)
      BY <3>2 DEF JB!Drop, JB!slotsVars
    <3> QED BY <1>6, <3>1, <3>2 DEF ProcessPacket
  <2>7. \A i \in JB!Slots : held'[i] = NoData \/ \E m \in -Depth .. Depth - 1 :
          i = Place(expected, m) /\ held'[i] = Number(expected, m)
    BY <2>2, <2>4, <2>5, <2>6
  <2>8. \A q \in inFlight' : \E m \in -Depth .. Depth - 1 : q = Number(expected, m)
    BY <2>1, <2>2
  <2> QED BY <2>1, <2>3, <2>7, <2>8
<1>7. CASE \/ PrefillPoll \/ PrefillDone \/ ConsumeLoop \/ ConsumeTick \/ CountTaken \/ Play \/ Skip
           \/ Underrun
  BY <1>7 DEF PrefillPoll, PrefillDone, ConsumeLoop, ConsumeTick, CountTaken, Play, Skip, Underrun
<1>8. ASSUME NEW lost \in BOOLEAN, Send(lost) PROVE Near'
  <2>1. UNCHANGED <<connected, held, expected, running, cPc>> /\ (~running => inFlight' = inFlight)
    BY <1>8 DEF Send, jbVars
  <2>2. Near
    BY <2>1 DEF LagInv, Draining
  <2> QED BY <2>1, <2>2
<1> QED BY <1>2, <1>3, <1>4, <1>5, <1>6, <1>7, <1>8 DEF Next, Receive, Consume

LEMMA InitLag ==
  ASSUME Fits, Init
  PROVE  LagInv
<1>1. Steady /\ Filling /\ Waiting /\ Draining /\ Resting
  BY DEF Init, Steady, Filling, Waiting, Draining, Resting, Asked
<1>2. Counted
  <2>1. Occupied = {}
    BY DEF Init, JB!Init, JB!Empty, Occupied
  <2>2. Owed = 0 /\ count = 0
    BY DEF Init, JB!Init, Owed
  <2>3. CountMod \in Nat \ {0}
    BY ReceiverAssumption
  <2>4. PICK z \in 0 .. CountMod - 1 : z = 0
    BY <2>3
  <2>5. (CountMod * 0 + z) % CountMod = z
    BY <2>3, RestIsUnique
  <2> QED BY <2>1, <2>2, <2>3, <2>4, <2>5, FS_EmptySet DEF Counted
<1> QED BY <1>1, <1>2 DEF LagInv

LEMMA NextLag ==
  ASSUME ReceiverInv, Fits, LagInv, [Next]_vars
  PROVE  LagInv'
<1>1. CASE Next
  BY <1>1, NextSteady, NextFilling, NextWaiting, NextDraining, NextResting, NextCounted DEF LagInv
<1>2. CASE UNCHANGED vars
  <2>1. UNCHANGED <<held, count, addPending, getPending, gotPacket, running, connected, expected,
                    cPc, ctl, nextSeq, inFlight, losses, lead, starved, skipRun>>
    BY <1>2 DEF vars, jbVars, netVars, paceVars
  <2>2. Mid' = Mid /\ Unanswered' = Unanswered
    BY <2>1 DEF Mid, Asked, Unanswered
  <2>3. Steady'
    <3> SUFFICES ASSUME running, Consuming PROVE connected' /\ \E D, f \in Int : Lag(D, f)'
      BY <2>1 DEF Steady, Consuming
    <3>1. connected /\ \E D, f \in Int : Lag(D, f)
      BY DEF LagInv, Steady
    <3>2. PICK D \in Int, f \in Int : Lag(D, f)
      BY <3>1
    <3>3. Lag(D, f)'
      BY <2>1, <2>2, <3>2, SameLag
    <3> QED BY <2>1, <3>1, <3>3
  <2>4. Filling'
    <3> SUFFICES ASSUME running, cPc = "prefill", connected PROVE \E D, f \in Int : Fill(D, f)'
      BY <2>1 DEF Filling
    <3>1. PICK D \in Int, f \in Int : Fill(D, f)
      BY DEF LagInv, Filling
    <3>2. Fill(D, f)'
      BY <2>1, <3>1, SameFill
    <3> QED BY <3>2
  <2>5. Waiting' /\ Resting'
    BY <2>1 DEF LagInv, Waiting, Resting, Asked
  <2>6. Draining'
    BY <2>1 DEF LagInv, Draining
  <2>7. Counted'
    BY <2>1 DEF LagInv, Counted, Occupied, Owed
  <2> QED BY <2>3, <2>4, <2>5, <2>6, <2>7 DEF LagInv
<1> QED BY <1>1, <1>2

\* A packet the consumer throws away on a mismatch is one that playback has
\* passed, however long the receiver runs, whenever stop() comes and wherever
\* the numbers wrap (RTPReceiver.cpp 310-379, LockFreeCircularJitterBuffer.cpp
\* 106-142): on a network that keeps the order, and for a depth that the losses
\* cannot use up.
THEOREM StaleIsDiscarded ==
  ASSUME Fits
  PROVE  Spec => []DiscardsOnlyStale
<1>1. Init => ReceiverInv /\ LagInv
  BY InitReceiver, InitLag
<1>2. (ReceiverInv /\ LagInv) /\ [Next]_vars => (ReceiverInv /\ LagInv)'
  BY NextReceiver, NextLag
<1>3. ReceiverInv /\ LagInv => DiscardsOnlyStale
  <2> SUFFICES ASSUME ReceiverInv, LagInv, cPc = "sleep",
                      held[JB!SlotOf(expected)] \notin {NoData, expected}
               PROVE  Older(held[JB!SlotOf(expected)], expected)
    BY DEF DiscardsOnlyStale
  <2>1. \A i \in JB!Slots : held[i] = NoData \/ \E j \in -Depth .. Depth - 1 :
                              i = Place(expected, j) /\ held[i] = Number(expected, j)
    BY StopDrains DEF LagInv, Draining
  <2>2. expected \in Seqs /\ Depth \in Nat \ {0} /\ WholeLaps
    BY ReceiverAssumption DEF ReceiverInv, FlowTyped, Fits
  <2>3. /\ JB!SlotOf(expected) \in JB!Slots /\ Number(expected, 0) = expected
        /\ Place(expected, 0) = JB!SlotOf(expected)
    BY <2>2, SlotInRange, NumberItself
  <2>4. PICK j \in -Depth .. Depth - 1 :
          JB!SlotOf(expected) = Place(expected, j) /\ held[JB!SlotOf(expected)] = Number(expected, j)
    BY <2>1, <2>3
  <2>5. j \in Int /\ j # 0
    BY <2>2, <2>3, <2>4
  <2>6. ~(j > 0)
    <3> SUFFICES ASSUME j > 0 PROVE FALSE
      OBVIOUS
    <3>1. j - 0 < Depth /\ 0 - j < Depth
      BY <2>2, <2>4
    <3> QED BY <2>2, <2>3, <2>4, <2>5, <3>1, PlacesDiffer
  <2>7. j \in -Depth .. -1
    BY <2>2, <2>4, <2>5, <2>6
  <2> QED BY <2>2, <2>4, <2>7, BehindIsOlder
<1> QED BY <1>1, <1>2, <1>3, PTL DEF Spec

-----------------------------------------------------------------------------
\* After stop() the consumer may go on to the end of its interval.
SkipsEnd ==
  ~running => skipRun <= IF cPc \in {"prefill", "loop", "off"} THEN SkipLimit ELSE SkipLimit - 1

LEMMA SkipsBounded ==
  ASSUME ReceiverInv, Fits, SkipsAreFew, LagInv, running
  PROVE  skipRun <= SkipLimit - 1
<1>1. /\ StarveLimit \in Nat \ {0} /\ PrefillCount \in Nat /\ Depth \in Nat \ {0} /\ MaxLosses \in Nat
      /\ skipRun \in Int /\ SkipLimit \in Nat /\ SkipLimit >= 2
      /\ losses \in 0 .. MaxLosses /\ starved \in 0 .. StarveLimit
  BY ReceiverAssumption DEF ReceiverInv, PaceTyped, SkipLimit
<1>2. CASE cPc = "prefill"
  <2>1. skipRun = 0
    BY <1>2 DEF LagInv, Waiting, Filling, Fill
  <2> QED BY <1>1, <2>1
<1>3. CASE Consuming
  <2>1. \E D, f \in Int : Lag(D, f)
    BY <1>3 DEF LagInv, Steady
  <2>2. PICK D \in Int, f \in Int : Lag(D, f)
    BY <2>1
  <2>3. /\ Behind(D) \in PrefillCount .. Depth - PaceSlack /\ Cardinality(Bad(D)) \in 0 .. Depth
    BY <2>2, LagBounds
  <2>4. PICK b \in Int, c \in Int : b = Behind(D) /\ c = b - PrefillCount
    BY <1>1, <2>3, ReceiverAssumption
  <2>5. StarveLimit * b = StarveLimit * c + StarveLimit * PrefillCount
        /\ StarveLimit * b \in Int /\ StarveLimit * c \in Int /\ StarveLimit * PrefillCount \in Int
    <3>1. b = c + PrefillCount
      BY <1>1, <2>4
    <3>2. StarveLimit * (c + PrefillCount) = StarveLimit * c + StarveLimit * PrefillCount
      BY <1>1, Z3
    <3> QED BY <1>1, <3>1, <3>2
  <2>6. skipRun <= StarveLimit * c + starved
    BY <2>2, <2>4 DEF Lag
  <2>7. StarveLimit * b + starved + Unanswered + Cardinality(Bad(D)) + MaxLosses - losses <= MaxLoad
    BY <2>2, <2>4 DEF Lag, Load
  <2>8. Unanswered \in {0, 1} /\ MaxLoad \in Int
    BY LoadsBounded DEF Unanswered
  <2>9. MaxLoad - StarveLimit * PrefillCount < SkipLimit
    BY DEF SkipsAreFew
  <2>10. Cardinality(Bad(D)) \in Nat
    BY <1>1, <2>3
  <2> QED BY <1>1, <2>5, <2>6, <2>7, <2>8, <2>9, <2>10
<1> QED BY <1>2, <1>3 DEF ReceiverInv, ThreadsTyped, Consuming, LagInv, Resting

\* A step of the consumer ends a run of skips or has its load pay for it.
LEMMA NextSkips ==
  ASSUME ReceiverInv, Fits, SkipsAreFew, LagInv, SkipsEnd, [Next]_vars
  PROVE  SkipsEnd'
<1>1. /\ skipRun \in Int /\ SkipLimit \in Nat /\ SkipLimit >= 2
      /\ running => skipRun <= SkipLimit - 1
      /\ ctl = "idle" /\ ~running => cPc = "off"
  <2>1. skipRun \in Int /\ SkipLimit \in Nat /\ SkipLimit >= 2
    BY ReceiverAssumption DEF ReceiverInv, PaceTyped, SkipLimit
  <2> QED BY <2>1, SkipsBounded DEF ReceiverInv, ThreadsAndPending
<1> SUFFICES ASSUME ~running'
             PROVE  skipRun' <= IF cPc' \in {"prefill", "loop", "off"} THEN SkipLimit ELSE SkipLimit - 1
  BY DEF SkipsEnd, SkipLimit
<1>2. CASE Start
  BY <1>2 DEF Start
<1>3. CASE Stop
  BY <1>1, <1>3 DEF Stop, paceVars
<1>4. CASE \/ JoinReceive \/ JoinConsume \/ ReceivePoll \/ SelectTimeout \/ CountAdded
           \/ \E p \in inFlight : ProcessPacket(p)
           \/ \E lost \in BOOLEAN : Send(lost)
  <2>1. UNCHANGED <<running, cPc, skipRun>>
    BY <1>4 DEF JoinReceive, JoinConsume, ReceivePoll, SelectTimeout, CountAdded, ProcessPacket, Send,
       paceVars
  <2> QED BY <2>1 DEF SkipsEnd
<1>5. CASE PrefillPoll \/ PrefillDone \/ ConsumeLoop
  <2>1. running' = running /\ skipRun' = skipRun
    BY <1>5 DEF PrefillPoll, PrefillDone, ConsumeLoop, paceVars
  <2>2. cPc \in {"prefill", "loop"} /\ cPc' \in {"prefill", "loop", "off"}
    BY <1>5, <2>1 DEF PrefillPoll, PrefillDone, ConsumeLoop
  <2> QED BY <2>1, <2>2 DEF SkipsEnd
<1>6. CASE ConsumeTick \/ RateSlip \/ CountTaken
  <2>1. running' = running /\ skipRun' = skipRun
    BY <1>6 DEF ConsumeTick, RateSlip, CountTaken, paceVars
  <2>2. cPc \in {"sleep", "count"}
    BY <1>6 DEF ConsumeTick, RateSlip, CountTaken
  <2>3. skipRun <= SkipLimit - 1
    BY <2>1, <2>2 DEF SkipsEnd
  <2> QED BY <1>1, <2>1, <2>3
<1>7. CASE Play \/ Skip \/ Underrun
  <2>1. running' = running /\ cPc \in {"got", "missed"} /\ cPc' = "loop"
    BY <1>7 DEF Play, Skip, Underrun
  <2>2. skipRun <= SkipLimit - 1
    BY <2>1 DEF SkipsEnd
  <2>3. skipRun' = 0 \/ skipRun' = skipRun + 1
    BY <1>1, <1>7, <2>2 DEF Play, Skip, Underrun
  <2> QED BY <1>1, <2>1, <2>2, <2>3
<1>8. CASE UNCHANGED vars
  BY <1>8 DEF vars, paceVars, SkipsEnd
<1> QED BY <1>2, <1>3, <1>4, <1>5, <1>6, <1>7, <1>8 DEF Next, Receive, Consume

\* Skipping lost and late packets comes to a packet that is played, or to an
\* empty buffer, before it has gone twice round the buffer (RTPReceiver.cpp
\* 331-347): the receiver does not run after the sender for ever.
THEOREM SkippingEnds ==
  ASSUME Fits, SkipsAreFew
  PROVE  Spec => []SkipDoesNotStall
<1>1. Init => ReceiverInv /\ LagInv /\ SkipsEnd
  <2>1. Init => SkipsEnd
    BY ReceiverAssumption DEF Init, SkipsEnd, SkipLimit
  <2> QED BY <2>1, InitReceiver, InitLag
<1>2. (ReceiverInv /\ LagInv /\ SkipsEnd) /\ [Next]_vars => (ReceiverInv /\ LagInv /\ SkipsEnd)'
  BY NextReceiver, NextLag, NextSkips
<1>3. ReceiverInv /\ LagInv /\ SkipsEnd => SkipDoesNotStall
  <2>1. ASSUME ReceiverInv, LagInv, SkipsEnd PROVE skipRun <= SkipLimit
    <3>1. skipRun \in Int /\ SkipLimit \in Nat
      BY <2>1, ReceiverAssumption DEF ReceiverInv, PaceTyped, SkipLimit
    <3>2. CASE running
      BY <2>1, <3>1, <3>2, SkipsBounded
    <3>3. CASE ~running
      BY <2>1, <3>1, <3>3 DEF SkipsEnd
    <3> QED BY <3>2, <3>3
  <2> QED BY <2>1 DEF SkipDoesNotStall
<1> QED BY <1>1, <1>2, <1>3, PTL DEF Spec

=============================================================================
