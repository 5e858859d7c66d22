-------------------- MODULE LockFreeCircularJitterBuffer --------------------
(***************************************************************************)
(* NetworkEngine/RTP/LockFreeCircularJitterBuffer: slots indexed by RTP     *)
(* sequence number, each guarded by one atomic state, between the receive   *)
(* thread (addPacket) and the consume thread (getNextPacket).  A step is one *)
(* atomic access or one copy; the statistics nobody reads (total, dropped,   *)
(* arrival time, expectedSequenceNumber_ of the buffer) are left out.        *)
(* getPacketBySequence has the body of getNextPacket.                        *)
(***************************************************************************)
EXTENDS Integers, FiniteSets

CONSTANTS Depth,      \* bufferSize_, a power of two in the code
          SeqMod,     \* sequence numbers are 0 .. SeqMod - 1 (65536 in RTP)
          CountMod,   \* validPackets_ is a size_t: it wraps at CountMod
          NoData,     \* contents of a slot or buffer nothing was copied into
          ConcurrentReset   \* may reset() run while packets are handled?

ASSUME JitterAssumption ==
  /\ Depth \in Nat \ {0}
  /\ SeqMod \in Nat \ {0} /\ SeqMod % Depth = 0   \* both are powers of two
  /\ CountMod \in Nat /\ CountMod > Depth + 1
  /\ NoData \notin 0 .. SeqMod - 1
  /\ ConcurrentReset \in BOOLEAN

Seqs == 0 .. SeqMod - 1
Slots == 0 .. Depth - 1
States == {"EMPTY", "WRITING", "READY", "READING"}

getIndex(seq) == seq % Depth

VARIABLES
  state, sequenceNumber, data,   \* the slots; data is the seq of its packet
  validPackets,
  aPc, aSeq,                     \* addPacket in progress
  gPc, gSeq, output, gotPacket,  \* getNextPacket in progress, its result
  rNext                          \* reset(): next slot to clear, Depth when idle

slotVars == <<state, sequenceNumber, data>>
addVars == <<aPc, aSeq>>
getVars == <<gPc, gSeq, output, gotPacket>>
vars == <<state, sequenceNumber, data, validPackets, aPc, aSeq,
          gPc, gSeq, output, gotPacket, rNext>>

Init ==
  /\ state = [i \in Slots |-> "EMPTY"]
  /\ sequenceNumber = [i \in Slots |-> 0]
  /\ data = [i \in Slots |-> NoData]
  /\ validPackets = 0
  /\ aPc = "idle" /\ aSeq = 0
  /\ gPc = "idle" /\ gSeq = 0 /\ output = NoData /\ gotPacket = FALSE
  /\ rNext = Depth

Resetting == rNext < Depth
MayStart == ConcurrentReset \/ ~Resetting

-----------------------------------------------------------------------------
(* addPacket(seq), receive thread                                           *)

\* Fault: a slot still READY is overwritten.
FaultyAddClaim(seq) ==
  /\ MayStart /\ aPc = "idle"
  /\ state[getIndex(seq)] \in {"EMPTY", "READY"}
  /\ state' = [state EXCEPT ![getIndex(seq)] = "WRITING"]
  /\ aPc' = "copy" /\ aSeq' = seq
  /\ UNCHANGED <<sequenceNumber, data, validPackets, getVars, rNext>>

\* The slot was EMPTY and is now ours.
AddClaim(seq) ==
  /\ MayStart /\ aPc = "idle"
  /\ state[getIndex(seq)] = "EMPTY"
  /\ state' = [state EXCEPT ![getIndex(seq)] = "WRITING"]
  /\ aPc' = "copy" /\ aSeq' = seq
  /\ UNCHANGED <<sequenceNumber, data, validPackets, getVars, rNext>>

\* The slot is taken: the new packet is dropped.
AddDrop(seq) ==
  /\ MayStart /\ aPc = "idle"
  /\ state[getIndex(seq)] # "EMPTY"
  /\ aSeq' = seq
  /\ UNCHANGED <<slotVars, validPackets, aPc, getVars, rNext>>

AddCopy ==
  /\ aPc = "copy"
  /\ data' = [data EXCEPT ![getIndex(aSeq)] = aSeq]
  /\ aPc' = "header"
  /\ UNCHANGED <<state, sequenceNumber, validPackets, aSeq, getVars, rNext>>

AddHeader ==
  /\ aPc = "header"
  /\ sequenceNumber' = [sequenceNumber EXCEPT ![getIndex(aSeq)] = aSeq]
  /\ aPc' = "commit"
  /\ UNCHANGED <<state, data, validPackets, aSeq, getVars, rNext>>

AddCommit ==
  /\ aPc = "commit"
  /\ state' = [state EXCEPT ![getIndex(aSeq)] = "READY"]
  /\ aPc' = "count"
  /\ UNCHANGED <<sequenceNumber, data, validPackets, aSeq, getVars, rNext>>

\* The counter follows the READY store in a step of its own.
AddCount ==
  /\ aPc = "count"
  /\ validPackets' = (validPackets + 1) % CountMod
  /\ aPc' = "idle"
  /\ UNCHANGED <<slotVars, aSeq, getVars, rNext>>

AddStep == AddCopy \/ AddHeader \/ AddCommit \/ AddCount

-----------------------------------------------------------------------------
(* getNextPacket(seq), consume thread                                       *)

\* Fault: the consumer takes any slot that is not EMPTY.
FaultyGetClaim(seq) ==
  /\ MayStart /\ gPc = "idle"
  /\ state[getIndex(seq)] # "EMPTY"
  /\ state' = [state EXCEPT ![getIndex(seq)] = "READING"]
  /\ gPc' = "check" /\ gSeq' = seq
  /\ UNCHANGED <<sequenceNumber, data, validPackets, addVars, output, gotPacket, rNext>>

GetClaim(seq) ==
  /\ MayStart /\ gPc = "idle"
  /\ state[getIndex(seq)] = "READY"
  /\ state' = [state EXCEPT ![getIndex(seq)] = "READING"]
  /\ gPc' = "check" /\ gSeq' = seq
  /\ UNCHANGED <<sequenceNumber, data, validPackets, addVars, output, gotPacket, rNext>>

\* The slot is not READY: return false.
GetMiss(seq) ==
  /\ MayStart /\ gPc = "idle"
  /\ state[getIndex(seq)] # "READY"
  /\ gSeq' = seq /\ gotPacket' = FALSE
  /\ UNCHANGED <<slotVars, validPackets, addVars, gPc, output, rNext>>

\* Fault: the discarding path forgets its count.
FaultyGetDiscard ==
  /\ gPc = "check"
  /\ sequenceNumber[getIndex(gSeq)] # gSeq
  /\ state' = [state EXCEPT ![getIndex(gSeq)] = "EMPTY"]
  /\ gPc' = "idle" /\ gotPacket' = FALSE
  /\ UNCHANGED <<sequenceNumber, data, validPackets, addVars, gSeq, output, rNext>>

\* Another packet sits in the slot: release it, whatever its number.
GetDiscard ==
  /\ gPc = "check"
  /\ sequenceNumber[getIndex(gSeq)] # gSeq
  /\ state' = [state EXCEPT ![getIndex(gSeq)] = "EMPTY"]
  /\ gPc' = "count" /\ gotPacket' = FALSE
  /\ UNCHANGED <<sequenceNumber, data, validPackets, addVars, gSeq, output, rNext>>

\* Fault: the number of the packet is not compared.
FaultyGetCopy ==
  /\ gPc = "check"
  /\ output' = data[getIndex(gSeq)]
  /\ gPc' = "release"
  /\ UNCHANGED <<slotVars, validPackets, addVars, gSeq, gotPacket, rNext>>

GetCopy ==
  /\ gPc = "check"
  /\ sequenceNumber[getIndex(gSeq)] = gSeq
  /\ output' = data[getIndex(gSeq)]
  /\ gPc' = "release"
  /\ UNCHANGED <<slotVars, validPackets, addVars, gSeq, gotPacket, rNext>>

GetRelease ==
  /\ gPc = "release"
  /\ state' = [state EXCEPT ![getIndex(gSeq)] = "EMPTY"]
  /\ gPc' = "count" /\ gotPacket' = TRUE
  /\ UNCHANGED <<sequenceNumber, data, validPackets, addVars, gSeq, output, rNext>>

\* The fetch_sub, again after the slot was given up.
GetCount ==
  /\ gPc = "count"
  /\ validPackets' = (validPackets - 1) % CountMod
  /\ gPc' = "idle"
  /\ UNCHANGED <<slotVars, addVars, gSeq, output, gotPacket, rNext>>

GetStep == GetDiscard \/ GetCopy \/ GetRelease \/ GetCount

-----------------------------------------------------------------------------
(* reset(), control thread                                                  *)

ResetBegin ==
  /\ ~Resetting
  /\ ConcurrentReset \/ (aPc = "idle" /\ gPc = "idle")
  /\ rNext' = 0
  /\ UNCHANGED <<slotVars, validPackets, addVars, getVars>>

\* One store of EMPTY; the last one is followed by the counter's.
ResetSlot ==
  /\ Resetting
  /\ state' = [state EXCEPT ![rNext] = "EMPTY"]
  /\ rNext' = rNext + 1
  /\ validPackets' = IF rNext + 1 = Depth THEN 0 ELSE validPackets
  /\ UNCHANGED <<sequenceNumber, data, addVars, getVars>>

Next ==
  \/ \E seq \in Seqs : AddClaim(seq) \/ AddDrop(seq) \/ GetClaim(seq) \/ GetMiss(seq)
  \/ AddStep \/ GetStep
  \/ ResetBegin \/ ResetSlot

Spec == Init /\ [][Next]_vars

-----------------------------------------------------------------------------
(* Properties                                                               *)

TypeOK ==
  /\ state \in [Slots -> States]
  /\ sequenceNumber \in [Slots -> Seqs]
  /\ data \in [Slots -> Seqs \cup {NoData}]
  /\ validPackets \in 0 .. CountMod - 1
  /\ aPc \in {"idle", "copy", "header", "commit", "count"}
  /\ gPc \in {"idle", "check", "release", "count"}
  /\ aSeq \in Seqs /\ gSeq \in Seqs
  /\ output \in Seqs \cup {NoData}
  /\ gotPacket \in BOOLEAN
  /\ rNext \in 0 .. Depth

AddHolds(i) == aPc \in {"copy", "header", "commit"} /\ getIndex(aSeq) = i
GetHolds(i) == gPc \in {"check", "release"} /\ getIndex(gSeq) = i

\* "We now have exclusive write access (state is WRITING)" / "exclusive read
\* access (state is READING)" (64-65, 112-113): the two threads are never
\* inside the same slot.
ExclusiveSlot == \A i \in Slots : ~(AddHolds(i) /\ GetHolds(i))

\* What getNextPacket hands out is the packet of the requested number, whole:
\* data and header were not replaced between its check and its release.
PacketIntact == gPc = "release" => output = gSeq

\* validPackets_ is the number of READY slots once the operations in progress
\* have made their pending update (88-90, 123-124, 151-152): no path forgets
\* or repeats a count, the discarding one included.
CountMatchesSlots ==
  ~Resetting =>
  LET pendingAdd == IF aPc = "count" THEN 1 ELSE 0
      pendingGet == IF gPc # "idle" THEN 1 ELSE 0
      ready == Cardinality({i \in Slots : state[i] = "READY"})
  IN validPackets = (ready + pendingGet - pendingAdd) % CountMod

\* Slot by slot the lock-free protocol is atomic: a packet appears at the READY
\* store and leaves at the EMPTY store, in the order the two threads made them
\* (46-155), as in JitterSlots.
Atomic == INSTANCE JitterSlots WITH
            held <- [i \in Slots |-> IF state[i] \in {"READY", "READING"}
                                    THEN sequenceNumber[i] ELSE NoData],
            count <- validPackets,
            addPending <- aPc = "count",
            getPending <- gPc = "count"

AtomicSpec == Atomic!Spec

\* "The slot held a valid packet that was counted in validPackets_, so we must
\* decrement before releasing the slot" (121-122): a discarded packet has been
\* counted when its slot is released, so the decrement cannot wrap the size_t.
CountedBeforeRelease == gPc = "count" /\ ~gotPacket => validPackets > 0
=============================================================================
