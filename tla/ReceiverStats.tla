---------------------------- MODULE ReceiverStats ----------------------------
(***************************************************************************)
(* RTPReceiver::updateStats: how the receive thread counts lost and         *)
(* out-of-order packets from 16-bit sequence numbers.  The sender numbers    *)
(* its packets 0, 1, 2, ... here; the receiver sees that modulo NumberMod   *)
(* from an arbitrary start.  The network may lose, reorder and repeat       *)
(* packets; ordered tells whether it has kept their order so far.           *)
(***************************************************************************)
EXTENDS Integers, FiniteSets, FiniteSetsExt

CONSTANTS NumberMod,    \* 65536 in the code
          MaxSent,   \* bound: packets sent
          MaxReceived   \* bound: packets received, repeated ones included

ASSUME StatsAssumption ==
  /\ NumberMod \in Nat \ {0} /\ NumberMod % 2 = 0
  /\ MaxSent \in Nat /\ MaxReceived \in Nat

VARIABLES
  firstNumber,       \* sequence number of packet 0
  sent,        \* packets sent
  inFlight,    \* packets in the network
  arrived,     \* packets that reached updateStats at least once
  firstSeen,   \* packet updateStats saw first, -1 before it
  latest,      \* packet updateStats saw last, -1 before the first
  ordered,     \* has every packet so far come after the ones before it?
  lastSequenceNumber, packetsReceived, packetsLost, outOfOrderPackets

netVars == <<firstNumber, sent, inFlight>>
statsVars == <<netVars, arrived, firstSeen, latest, ordered, lastSequenceNumber, packetsReceived,
          packetsLost, outOfOrderPackets>>

HalfWindow == NumberMod \div 2
NumberOf(n) == (firstNumber + n) % NumberMod

StatsInit ==
  /\ firstNumber \in 0 .. NumberMod - 1
  /\ sent = 0 /\ inFlight = {} /\ arrived = {} /\ firstSeen = -1 /\ latest = -1
  /\ ordered = TRUE
  /\ lastSequenceNumber = 0 /\ packetsReceived = 0
  /\ packetsLost = 0 /\ outOfOrderPackets = 0

SendNumbered ==
  /\ sent < MaxSent
  /\ sent' = sent + 1
  /\ inFlight' = inFlight \cup {sent}
  /\ UNCHANGED <<firstNumber, arrived, firstSeen, latest, ordered, lastSequenceNumber,
                 packetsReceived, packetsLost, outOfOrderPackets>>

Lose(n) ==
  /\ n \in inFlight
  /\ inFlight' = inFlight \ {n}
  /\ UNCHANGED <<firstNumber, sent, arrived, firstSeen, latest, ordered, lastSequenceNumber,
                 packetsReceived, packetsLost, outOfOrderPackets>>

\* static_cast<int16_t>
Signed(d) == ((d + HalfWindow) % NumberMod) - HalfWindow

\* Fault: the first packet after an earlier one counts itself.
FaultyGap(seq) == Signed(seq - lastSequenceNumber)

Gap(seq) == Signed(seq - ((lastSequenceNumber + 1) % NumberMod))

\* Fault: a backward gap is added too.
SignedLoss(gap) == gap

\* Fault: a gap counts once, however wide.
SingleLoss(gap) == IF gap > 0 THEN 1 ELSE 0

\* A forward gap is that many packets lost, a backward one none.
LostBy(gap) == IF gap > 0 THEN gap ELSE 0

\* No jump reaches half the number space: a longer one reads as backwards.
InWindow(n) == latest < 0 \/ n - latest \in 1 - HalfWindow .. HalfWindow

\* updateStats(seq) for packet n; a repeated packet arrives again.
UpdateStats(n) ==
  LET seq == NumberOf(n)
      gap == IF packetsReceived > 0 THEN Gap(seq) ELSE 0
  IN /\ n \in inFlight \cup arrived
     /\ InWindow(n) /\ packetsReceived < MaxReceived
     /\ inFlight' = inFlight \ {n}
     /\ arrived' = arrived \cup {n}
     /\ firstSeen' = IF arrived = {} THEN n ELSE firstSeen
     /\ latest' = n /\ ordered' = (ordered /\ n > latest)
     /\ packetsLost' = packetsLost + LostBy(gap)
     /\ outOfOrderPackets' = IF gap < 0 THEN outOfOrderPackets + 1 ELSE outOfOrderPackets
     /\ lastSequenceNumber' = seq
     /\ packetsReceived' = packetsReceived + 1
     /\ UNCHANGED <<firstNumber, sent>>

StatsNext ==
  \/ SendNumbered
  \/ \E n \in 0 .. MaxSent - 1 : Lose(n) \/ UpdateStats(n)

StatsSpec == StatsInit /\ [][StatsNext]_statsVars

-----------------------------------------------------------------------------
(* Properties                                                               *)

\* Packets between the first that arrived and the highest that never came.
Missing == IF arrived = {} THEN {} ELSE (firstSeen .. Max(arrived)) \ arrived

StatsTypeOK ==
  /\ firstNumber \in 0 .. NumberMod - 1 /\ lastSequenceNumber \in 0 .. NumberMod - 1
  /\ sent \in 0 .. MaxSent /\ latest \in -1 .. MaxSent - 1 /\ ordered \in BOOLEAN
  /\ firstSeen \in -1 .. MaxSent - 1
  /\ inFlight \subseteq 0 .. MaxSent - 1 /\ arrived \subseteq 0 .. MaxSent - 1
  /\ packetsReceived \in Nat /\ packetsLost \in Nat /\ outOfOrderPackets \in Nat

\* As long as the network has kept the order the loss counter is exact, also
\* when the numbers wrap between two packets (597-608).
LostExact == ordered => packetsLost = Cardinality(Missing)

\* However packets are reordered or repeated, the counter never reports fewer
\* losses than there are holes: every hole was jumped over at least once.
NeverUndercounts == packetsLost >= Cardinality(Missing)

\* "Forward gap: packets between expected and sequenceNumber were lost" (604):
\* no packet counted as lost has arrived before.
CountsOnlyMissing ==
  [][packetsLost' > packetsLost =>
       arrived \cap (latest + 1 .. latest' - 1) = {}]_statsVars
=============================================================================
