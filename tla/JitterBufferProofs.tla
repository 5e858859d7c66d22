------------------------- MODULE JitterBufferProofs -------------------------
(***************************************************************************)
(* Theorems about LockFreeCircularJitterBuffer for every depth and sequence  *)
(* space, when reset() runs only between packets (as start() calls it).     *)
(* The argument: the state of a slot records which thread holds it           *)
(* (SlotOwner), so the two CASes cannot both succeed on one slot, and what a *)
(* READY slot contains is one packet (SlotContents).                         *)
(***************************************************************************)
EXTENDS LockFreeCircularJitterBuffer, FiniteSetTheorems, TLAPS

SlotOwner ==
  /\ aPc \in {"copy", "header", "commit"} => state[getIndex(aSeq)] = "WRITING"
  /\ gPc \in {"check", "release"} => state[getIndex(gSeq)] = "READING"

SlotContents ==
  /\ aPc \in {"header", "commit"} => data[getIndex(aSeq)] = aSeq
  /\ aPc = "commit" => sequenceNumber[getIndex(aSeq)] = aSeq
  /\ \A i \in Slots : state[i] \in {"READY", "READING"} => data[i] = sequenceNumber[i]
  /\ gPc = "release" => output = gSeq /\ sequenceNumber[getIndex(gSeq)] = gSeq

IdleReset == Resetting => aPc = "idle" /\ gPc = "idle"

\* A slot is WRITING or READING only while its thread is inside it.
OwnedStates ==
  \A i \in Slots : /\ state[i] = "WRITING" => AddHolds(i)
                   /\ state[i] = "READING" => GetHolds(i)

IInv == TypeOK /\ SlotOwner /\ SlotContents /\ IdleReset /\ OwnedStates

-----------------------------------------------------------------------------
LEMMA IndexInRange == \A seq \in Seqs : getIndex(seq) \in Slots
BY JitterAssumption DEF getIndex, Seqs, Slots

\* The size_t arithmetic stays in range, wrapping included.
LEMMA CountWraps ==
  \A n \in 0 .. CountMod - 1 :
    (n + 1) % CountMod \in 0 .. CountMod - 1 /\ (n - 1) % CountMod \in 0 .. CountMod - 1
BY JitterAssumption

LEMMA InitIInv == Init => IInv
<1> SUFFICES ASSUME Init PROVE IInv
  OBVIOUS
<1> USE JitterAssumption
<1>0. 0 \in Seqs /\ 0 \in 0 .. CountMod - 1 /\ Depth \in 0 .. Depth
  BY DEF Seqs
<1>1. TypeOK
  BY <1>0 DEF Init, TypeOK, States
<1>2. SlotOwner /\ SlotContents /\ IdleReset /\ OwnedStates
  BY DEF Init, SlotOwner, SlotContents, IdleReset, OwnedStates, Resetting
<1>3. QED
  BY <1>1, <1>2 DEF IInv

LEMMA NextIInv ==
  ASSUME ConcurrentReset = FALSE
  PROVE  IInv /\ [Next]_vars => IInv'
<1> SUFFICES ASSUME IInv, [Next]_vars PROVE IInv'
  OBVIOUS
<1> USE JitterAssumption, IndexInRange, CountWraps
     DEF IInv, SlotOwner, SlotContents, IdleReset, OwnedStates,
         AddHolds, GetHolds, Resetting, MayStart, addVars, getVars, slotVars
<1>1. ASSUME NEW seq \in Seqs, AddClaim(seq) PROVE IInv'
  BY <1>1 DEF TypeOK, AddClaim, States
<1>2. ASSUME NEW seq \in Seqs, AddDrop(seq) PROVE IInv'
  BY <1>2 DEF TypeOK, AddDrop
<1>3. ASSUME NEW seq \in Seqs, GetClaim(seq) PROVE IInv'
  BY <1>3 DEF TypeOK, GetClaim, States
<1>4. ASSUME NEW seq \in Seqs, GetMiss(seq) PROVE IInv'
  BY <1>4 DEF TypeOK, GetMiss
<1>5. CASE AddCopy
  BY <1>5 DEF TypeOK, AddCopy
<1>6. CASE AddHeader
  BY <1>6 DEF TypeOK, AddHeader
<1>7. CASE AddCommit
  BY <1>7 DEF TypeOK, AddCommit, States
<1>8. CASE AddCount
  BY <1>8 DEF TypeOK, AddCount
<1>9. CASE GetDiscard
  BY <1>9 DEF TypeOK, GetDiscard, States
<1>10. CASE GetCopy
  BY <1>10 DEF TypeOK, GetCopy
<1>11. CASE GetRelease
  BY <1>11 DEF TypeOK, GetRelease, States
<1>12. CASE GetCount
  BY <1>12 DEF TypeOK, GetCount
<1>13. CASE ResetBegin
  BY <1>13 DEF TypeOK, ResetBegin
<1>14. CASE ResetSlot
  <2>1. /\ rNext \in Slots /\ aPc = "idle" /\ gPc = "idle"
        /\ state' = [state EXCEPT ![rNext] = "EMPTY"] /\ rNext' = rNext + 1
        /\ validPackets' \in {validPackets, 0}
        /\ UNCHANGED <<sequenceNumber, data, addVars, getVars>>
    BY <1>14 DEF ResetSlot, TypeOK, Slots
  <2>2. state' \in [Slots -> States]
        /\ \A i \in Slots : state'[i] \in {state[i], "EMPTY"}
    BY <2>1 DEF TypeOK, States
  <2>3. TypeOK'
    <3>1. rNext' \in 0 .. Depth
      BY <2>1 DEF Slots
    <3>2. validPackets' \in 0 .. CountMod - 1
      BY <2>1 DEF TypeOK
    <3>3. QED
      BY <2>1, <2>2, <3>1, <3>2 DEF TypeOK
  <2>4. SlotOwner' /\ IdleReset'
    BY <2>1
  <2>5. SlotContents'
    BY <2>1, <2>2
  <2>6. OwnedStates'
    BY <2>1, <2>2
  <2>7. QED
    BY <2>3, <2>4, <2>5, <2>6
<1>15. CASE UNCHANGED vars
  BY <1>15 DEF TypeOK, vars
<1>16. QED
  BY <1>1, <1>2, <1>3, <1>4, <1>5, <1>6, <1>7, <1>8, <1>9, <1>10, <1>11,
     <1>12, <1>13, <1>14, <1>15 DEF Next, AddStep, GetStep

\* Every variable keeps its type; the counter stays a size_t when it wraps
\* (LockFreeCircularJitterBuffer.cpp 46-155).
THEOREM TypeCorrect ==
  ASSUME ConcurrentReset = FALSE
  PROVE  Spec => []TypeOK
<1>1. IInv => TypeOK
  BY DEF IInv
<1>2. QED
  BY <1>1, InitIInv, NextIInv, PTL DEF Spec

\* The receive and the consume thread are never inside the same slot, as the
\* comments at 64-65 and 112-113 promise, for every depth.
THEOREM SlotsExclusive ==
  ASSUME ConcurrentReset = FALSE
  PROVE  Spec => []ExclusiveSlot
<1>1. IInv => ExclusiveSlot
  BY DEF IInv, SlotOwner, ExclusiveSlot, AddHolds, GetHolds
<1>2. QED
  BY <1>1, InitIInv, NextIInv, PTL DEF Spec

\* What getNextPacket returns is the whole packet it was asked for (115-146).
THEOREM PacketsIntact ==
  ASSUME ConcurrentReset = FALSE
  PROVE  Spec => []PacketIntact
<1>1. IInv => PacketIntact
  BY DEF IInv, SlotContents, PacketIntact
<1>2. QED
  BY <1>1, InitIInv, NextIInv, PTL DEF Spec
-----------------------------------------------------------------------------
(* The counter of READY slots                                               *)

ReadySlots == {i \in Slots : state[i] = "READY"}
PendingAdd == IF aPc = "count" THEN 1 ELSE 0
PendingGet == IF gPc # "idle" THEN 1 ELSE 0

\* A reset() has emptied the slots below rNext, and no thread refills them.
ClearedSlots == Resetting => \A i \in 0 .. rNext - 1 : state[i] = "EMPTY"

CountInv ==
  ~Resetting => validPackets = (Cardinality(ReadySlots) + PendingGet - PendingAdd) % CountMod

LEMMA CountInvIsCountMatchesSlots == CountInv <=> CountMatchesSlots
BY DEF CountInv, CountMatchesSlots, ReadySlots, PendingAdd, PendingGet

LEMMA ReadyFinite ==
  /\ IsFiniteSet(ReadySlots) /\ IsFiniteSet(ReadySlots')
  /\ Cardinality(ReadySlots) \in 0 .. Depth
<1>1. IsFiniteSet(Slots) /\ Cardinality(Slots) = Depth
  BY JitterAssumption, FS_Interval DEF Slots
<1>2. ReadySlots \in SUBSET Slots /\ ReadySlots' \in SUBSET Slots
  BY DEF ReadySlots
<1>3. Cardinality(ReadySlots) <= Cardinality(Slots)
  BY <1>1, <1>2, FS_Subset
<1>4. IsFiniteSet(ReadySlots) /\ IsFiniteSet(ReadySlots')
  BY <1>1, <1>2, FS_Subset
<1>5. Cardinality(ReadySlots) \in Nat
  BY <1>4, FS_CardinalityType
<1>6. QED
  BY <1>1, <1>3, <1>4, <1>5, JitterAssumption

\* One slot becomes READY, or stops being READY.
LEMMA ReadyGains ==
  ASSUME NEW i \in Slots, state \in [Slots -> States], state[i] # "READY",
         state' = [state EXCEPT ![i] = "READY"]
  PROVE  Cardinality(ReadySlots') = Cardinality(ReadySlots) + 1
<1>1. ReadySlots' = ReadySlots \cup {i} /\ i \notin ReadySlots
  BY DEF ReadySlots
<1>2. QED
  BY <1>1, ReadyFinite, FS_AddElement

LEMMA ReadyLoses ==
  ASSUME NEW i \in Slots, NEW s \in {"EMPTY", "READING"},
         state \in [Slots -> States], state[i] = "READY",
         state' = [state EXCEPT ![i] = s]
  PROVE  Cardinality(ReadySlots') = Cardinality(ReadySlots) - 1
<1>1. ReadySlots' = ReadySlots \ {i} /\ i \in ReadySlots
  BY DEF ReadySlots
<1>2. QED
  BY <1>1, ReadyFinite, FS_RemoveElement

LEMMA ReadyKept ==
  ASSUME NEW i \in Slots, NEW s \in {"EMPTY", "WRITING", "READING"},
         state \in [Slots -> States], state[i] # "READY",
         state' = [state EXCEPT ![i] = s]
  PROVE  ReadySlots' = ReadySlots
BY DEF ReadySlots

\* The count is at most one below zero or above Depth, so one % is enough.
LEMMA CountMod1 ==
  \A n \in -1 .. Depth + 1 : n % CountMod = IF n = -1 THEN CountMod - 1 ELSE n
BY JitterAssumption

LEMMA InitCountInv == Init => CountInv /\ ClearedSlots
<1> SUFFICES ASSUME Init PROVE CountInv /\ ClearedSlots
  OBVIOUS
<1>1. ReadySlots = {}
  BY DEF Init, ReadySlots
<1>2. Cardinality(ReadySlots) = 0
  BY <1>1, FS_EmptySet
<1>3. QED
  BY <1>2, CountMod1, JitterAssumption
     DEF Init, CountInv, ClearedSlots, PendingAdd, PendingGet, Resetting

LEMMA NextCountInv ==
  ASSUME ConcurrentReset = FALSE
  PROVE  IInv /\ CountInv /\ ClearedSlots /\ [Next]_vars => CountInv' /\ ClearedSlots'
<1> SUFFICES ASSUME IInv, CountInv, ClearedSlots, [Next]_vars
             PROVE  CountInv' /\ ClearedSlots'
  OBVIOUS
<1> USE JitterAssumption, IndexInRange
<1>0. /\ state \in [Slots -> States] /\ aSeq \in Seqs /\ gSeq \in Seqs
      /\ getIndex(aSeq) \in Slots /\ getIndex(gSeq) \in Slots
      /\ rNext \in 0 .. Depth
  BY DEF IInv, TypeOK
<1>a. Cardinality(ReadySlots) \in 0 .. Depth
  BY ReadyFinite
<1> DEFINE Owned == SlotOwner /\ IdleReset
<1>b. Owned
  BY DEF IInv
<1> USE <1>a DEF CountInv, ClearedSlots, PendingAdd, PendingGet, Resetting
<1>1. ASSUME NEW seq \in Seqs, AddClaim(seq) PROVE CountInv' /\ ClearedSlots'
  <2>1. ReadySlots' = ReadySlots
    BY <1>0, <1>1, ReadyKept DEF AddClaim
  <2>2. QED
    BY <1>0, <1>1, <2>1 DEF AddClaim, MayStart, getVars
<1>2. ASSUME NEW seq \in Seqs, AddDrop(seq) PROVE CountInv' /\ ClearedSlots'
  BY <1>2 DEF AddDrop, ReadySlots, slotVars, getVars
<1>3. ASSUME NEW seq \in Seqs, GetClaim(seq) PROVE CountInv' /\ ClearedSlots'
  <2>1. Cardinality(ReadySlots') = Cardinality(ReadySlots) - 1
    BY <1>0, <1>3, ReadyLoses DEF GetClaim
  <2>2. QED
    BY <1>0, <1>3, <2>1 DEF GetClaim, MayStart, addVars
<1>4. ASSUME NEW seq \in Seqs, GetMiss(seq) PROVE CountInv' /\ ClearedSlots'
  BY <1>4 DEF GetMiss, ReadySlots, slotVars, addVars
<1>5. CASE AddCopy \/ AddHeader
  BY <1>5 DEF AddCopy, AddHeader, ReadySlots, getVars
<1>6. CASE AddCommit
  <2>1. ~Resetting /\ state[getIndex(aSeq)] = "WRITING"
    BY <1>6, <1>b DEF AddCommit, SlotOwner, IdleReset
  <2>2. Cardinality(ReadySlots') = Cardinality(ReadySlots) + 1
    BY <1>0, <1>6, <2>1, ReadyGains DEF AddCommit
  <2>3. QED
    BY <1>0, <1>6, <2>1, <2>2 DEF AddCommit, getVars
<1>7. CASE AddCount
  <2>1. ~Resetting
    BY <1>7, <1>b DEF AddCount, IdleReset
  <2>2. ReadySlots' = ReadySlots /\ rNext' = rNext /\ gPc' = gPc
        /\ validPackets' = (validPackets + 1) % CountMod /\ aPc = "count" /\ aPc' = "idle"
    BY <1>7 DEF AddCount, ReadySlots, slotVars, getVars
  <2>3. PendingGet \in 0 .. 1 /\ PendingGet' = PendingGet
    BY <2>2
  <2>4. validPackets = (Cardinality(ReadySlots) + PendingGet - 1) % CountMod
    BY <2>1, <2>2
  <2> HIDE DEF PendingGet
  <2>5. (validPackets + 1) % CountMod = (Cardinality(ReadySlots) + PendingGet) % CountMod
    BY <2>3, <2>4, CountMod1
  <2>6. QED
    BY <2>1, <2>2, <2>3, <2>5
<1>8. CASE GetDiscard \/ GetRelease
  <2>1. state[getIndex(gSeq)] = "READING" /\ ~Resetting
    BY <1>8, <1>b DEF GetDiscard, GetRelease, SlotOwner, IdleReset
  <2>2. ReadySlots' = ReadySlots
    BY <1>0, <1>8, <2>1, ReadyKept DEF GetDiscard, GetRelease
  <2>3. QED
    BY <1>8, <2>1, <2>2 DEF GetDiscard, GetRelease, addVars
<1>9. CASE GetCopy
  BY <1>9 DEF GetCopy, ReadySlots, slotVars, addVars
<1>10. CASE GetCount
  <2>1. ~Resetting
    BY <1>10, <1>b DEF GetCount, IdleReset
  <2>2. ReadySlots' = ReadySlots /\ rNext' = rNext /\ aPc' = aPc
        /\ validPackets' = (validPackets - 1) % CountMod /\ gPc = "count" /\ gPc' = "idle"
    BY <1>10 DEF GetCount, ReadySlots, slotVars, addVars
  <2>3. PendingAdd \in 0 .. 1 /\ PendingAdd' = PendingAdd
    BY <2>2
  <2>4. validPackets = (Cardinality(ReadySlots) + 1 - PendingAdd) % CountMod
    BY <2>1, <2>2
  <2> HIDE DEF PendingAdd
  <2>5. (validPackets - 1) % CountMod = (Cardinality(ReadySlots) - PendingAdd) % CountMod
    BY <2>3, <2>4, CountMod1
  <2>6. QED
    BY <2>1, <2>2, <2>3, <2>5
<1>11. CASE ResetBegin
  BY <1>11, <1>0 DEF ResetBegin, addVars, getVars, slotVars
<1>12. CASE ResetSlot
  <2>1. rNext \in Slots /\ rNext' = rNext + 1 /\ aPc' = "idle" /\ gPc' = "idle"
        /\ state' = [state EXCEPT ![rNext] = "EMPTY"]
    BY <1>12, <1>0, <1>b DEF ResetSlot, IdleReset, Slots, addVars, getVars
  <2>2. \A i \in 0 .. rNext' - 1 : state'[i] = "EMPTY"
    BY <1>12, <1>0, <2>1 DEF ResetSlot, Slots
  <2>3. ASSUME rNext' = Depth PROVE Cardinality(ReadySlots') = 0 /\ validPackets' = 0
    <3>1. ReadySlots' = {}
      BY <2>2, <2>3 DEF ReadySlots, Slots
    <3>2. Cardinality(ReadySlots') = 0
      BY <3>1, FS_EmptySet
    <3>3. QED
      BY <3>2, <1>12, <2>1, <2>3 DEF ResetSlot
  <2>4. ~Resetting' => rNext' = Depth
    BY <1>0, <1>12 DEF ResetSlot
  <2>5. CountInv'
    BY <2>1, <2>3, <2>4, CountMod1
  <2>6. QED
    BY <2>2, <2>5
<1>13. CASE UNCHANGED vars
  BY <1>13 DEF vars, ReadySlots
<1>14. QED
  BY <1>1, <1>2, <1>3, <1>4, <1>5, <1>6, <1>7, <1>8, <1>9, <1>10, <1>11, <1>12, <1>13
     DEF Next, AddStep, GetStep

\* validPackets_ is the number of READY slots once the updates in progress are
\* made, the discarding path included (88-90, 123-124, 151-152, 243-252).
THEOREM CounterMatches ==
  ASSUME ConcurrentReset = FALSE
  PROVE  Spec => []CountMatchesSlots
<1>1. CountInv => CountMatchesSlots
  BY CountInvIsCountMatchesSlots
<1>2. QED
  BY <1>1, InitIInv, NextIInv, InitCountInv, NextCountInv, PTL DEF Spec

-----------------------------------------------------------------------------
(* The slots as the two threads see them: the refinement of JitterSlots     *)

Held == [i \in Slots |-> IF state[i] \in {"READY", "READING"}
                         THEN sequenceNumber[i] ELSE NoData]

LEMMA InitRefines == Init => Atomic!Init
BY DEF Init, Atomic!Init, Atomic!Empty, Atomic!Slots, Slots

\* A step inside a slot its thread owns, and a claim, change nothing that the
\* other thread can tell.
LEMMA HeldKept ==
  ASSUME NEW i \in Slots, NEW s \in States, state \in [Slots -> States],
         sequenceNumber' = sequenceNumber,
         state' = [state EXCEPT ![i] = s],
         (s \in {"READY", "READING"}) <=> (state[i] \in {"READY", "READING"})
  PROVE  Held' = Held
BY DEF Held

LEMMA HeldEmptied ==
  ASSUME NEW i \in Slots, state \in [Slots -> States],
         sequenceNumber' = sequenceNumber,
         state' = [state EXCEPT ![i] = "EMPTY"]
  PROVE  Held' = [Held EXCEPT ![i] = NoData]
BY DEF Held

\* Every step is a step of JitterSlots or stutters: the packet appears at the
\* READY store and leaves at the EMPTY store (46-155).
LEMMA StepRefines ==
  ASSUME ConcurrentReset = FALSE
  PROVE  IInv /\ [Next]_vars => [Atomic!Next]_(Atomic!slotsVars)
<1> SUFFICES ASSUME IInv, [Next]_vars PROVE [Atomic!Next]_(Atomic!slotsVars)
  OBVIOUS
<1> USE JitterAssumption, IndexInRange
<1>0. /\ state \in [Slots -> States] /\ sequenceNumber \in [Slots -> Seqs]
      /\ aSeq \in Seqs /\ gSeq \in Seqs
      /\ getIndex(aSeq) \in Slots /\ getIndex(gSeq) \in Slots
      /\ NoData \notin Seqs
  BY DEF IInv, TypeOK, Seqs
<1>a. \A i \in Slots : Held[i] = NoData <=> state[i] \in {"EMPTY", "WRITING"}
  BY <1>0 DEF Held, States
<1>b. \A seq \in Seqs : Atomic!SlotOf(seq) = getIndex(seq) /\ seq \in Atomic!Seqs
  BY DEF Atomic!SlotOf, Atomic!Seqs, getIndex, Seqs
<1> DEFINE Stutter == /\ Held' = Held /\ validPackets' = validPackets
                      /\ (aPc' = "count") = (aPc = "count")
                      /\ (gPc' = "count") = (gPc = "count")
                      /\ gotPacket' = gotPacket
<1>c. Stutter => UNCHANGED Atomic!slotsVars
  BY DEF Held, Atomic!slotsVars
<1>1. ASSUME NEW seq \in Seqs, AddClaim(seq) PROVE Stutter
  BY <1>0, <1>1, HeldKept DEF AddClaim, getVars, States
<1>2. ASSUME NEW seq \in Seqs, AddDrop(seq) PROVE Stutter
  BY <1>2 DEF AddDrop, getVars, slotVars, Held
<1>3. ASSUME NEW seq \in Seqs, GetClaim(seq) PROVE Stutter
  BY <1>0, <1>3, HeldKept DEF GetClaim, addVars, States
<1>4. ASSUME NEW seq \in Seqs, GetMiss(seq) PROVE Atomic!Miss(seq)
  <2>1. state[getIndex(seq)] # "READING"
    BY <1>0, <1>4 DEF GetMiss, IInv, OwnedStates, GetHolds
  <2>2. Held[getIndex(seq)] = NoData
    BY <1>0, <1>4, <1>a, <2>1 DEF GetMiss, States
  <2>3. Held' = Held /\ gPc = "idle" /\ gPc' = gPc /\ gotPacket' = FALSE
        /\ validPackets' = validPackets /\ aPc' = aPc
    BY <1>4 DEF GetMiss, addVars, slotVars, Held
  <2>4. QED
    BY <1>b, <2>2, <2>3 DEF Atomic!Miss, Held
<1>5. ASSUME AddCopy PROVE Stutter
  BY <1>5 DEF AddCopy, getVars, Held
<1>6. ASSUME AddHeader PROVE Stutter
  <2>1. state[getIndex(aSeq)] = "WRITING"
    BY <1>6 DEF AddHeader, IInv, SlotOwner
  <2>2. Held' = Held
    BY <1>0, <1>6, <2>1 DEF AddHeader, Held
  <2>3. QED
    BY <1>6, <2>2 DEF AddHeader, getVars
<1>7. ASSUME AddCommit PROVE Atomic!Next
  <2>1. state[getIndex(aSeq)] = "WRITING" /\ sequenceNumber[getIndex(aSeq)] = aSeq
    BY <1>7 DEF AddCommit, IInv, SlotOwner, SlotContents
  <2>2. Held[getIndex(aSeq)] = NoData
    BY <1>0, <1>a, <2>1
  <2>3. Held' = [Held EXCEPT ![getIndex(aSeq)] = aSeq]
    BY <1>0, <1>7, <2>1 DEF AddCommit, Held
  <2>. PICK seq \in Seqs : seq = aSeq
    BY <1>0
  <2>4. Atomic!Put(seq)
    BY <1>b, <1>0, <1>7, <2>2, <2>3 DEF AddCommit, Atomic!Put, Held, getVars
  <2>5. QED
    BY <2>4, <1>0, <1>b DEF Atomic!Next
<1>8. ASSUME AddCount PROVE Atomic!Next
  <2>1. Held' = Held
    BY <1>8 DEF AddCount, slotVars, Held
  <2>2. Atomic!CountPut
    BY <1>8, <2>1 DEF AddCount, Atomic!CountPut, getVars, Held
  <2>3. QED
    BY <2>2 DEF Atomic!Next
<1>9. ASSUME GetDiscard \/ GetRelease PROVE Atomic!Next
  <2>1. state[getIndex(gSeq)] = "READING"
    BY <1>9 DEF GetDiscard, GetRelease, IInv, SlotOwner
  <2>2. Held[getIndex(gSeq)] = sequenceNumber[getIndex(gSeq)] /\ Held[getIndex(gSeq)] # NoData
    BY <1>0, <2>1, <1>a DEF Held
  <2>3. gotPacket' = (sequenceNumber[getIndex(gSeq)] = gSeq)
    BY <1>9 DEF GetDiscard, GetRelease, IInv, SlotContents
  <2>4. Held' = [Held EXCEPT ![getIndex(gSeq)] = NoData]
    BY <1>0, <1>9, HeldEmptied DEF GetDiscard, GetRelease
  <2>5. gPc # "count" /\ gPc' = "count" /\ validPackets' = validPackets /\ aPc' = aPc
    BY <1>9 DEF GetDiscard, GetRelease, addVars
  <2>. PICK seq \in Seqs : seq = gSeq
    BY <1>0
  <2>6. Atomic!Take(seq)
    BY <1>b, <1>0, <2>2, <2>3, <2>4, <2>5 DEF Atomic!Take, Held
  <2>7. QED
    BY <2>6, <1>0, <1>b DEF Atomic!Next
<1>10. ASSUME GetCopy PROVE Stutter
  BY <1>10 DEF GetCopy, addVars, slotVars, Held
<1>11. ASSUME GetCount PROVE Atomic!Next
  <2>1. Held' = Held
    BY <1>11 DEF GetCount, slotVars, Held
  <2>2. Atomic!CountTake
    BY <1>11, <2>1 DEF GetCount, Atomic!CountTake, addVars, Held
  <2>3. QED
    BY <2>2 DEF Atomic!Next
<1>12. ASSUME ResetBegin PROVE Stutter
  BY <1>12 DEF ResetBegin, addVars, getVars, slotVars, Held
<1>13. ASSUME ResetSlot PROVE Atomic!Next
  <2>1. rNext \in Slots /\ aPc = "idle" /\ gPc = "idle"
    BY <1>13 DEF ResetSlot, Resetting, Slots, IInv, TypeOK, IdleReset
  <2>2. Held' = [Held EXCEPT ![rNext] = NoData]
    BY <1>0, <1>13, <2>1, HeldEmptied DEF ResetSlot
  <2>3. validPackets' \in {validPackets, 0} /\ aPc' = aPc /\ gPc' = gPc
        /\ gotPacket' = gotPacket
    BY <1>13 DEF ResetSlot, addVars, getVars
  <2>. PICK i \in Slots : i = rNext
    BY <2>1
  <2>4. Atomic!ClearSlot(i)
    BY <2>1, <2>2, <2>3 DEF Atomic!ClearSlot, Held
  <2>5. QED
    BY <2>1, <2>4 DEF Atomic!Next, Atomic!Slots, Slots
<1>14. ASSUME UNCHANGED vars PROVE Stutter
  BY <1>14 DEF vars, Held
<1>15. \A seq \in Seqs : Atomic!Miss(seq) => Atomic!Next
  BY <1>b DEF Atomic!Next
<1>16. QED
  BY <1>c, <1>1, <1>2, <1>3, <1>4, <1>5, <1>6, <1>7, <1>8, <1>9, <1>10, <1>11, <1>12,
     <1>13, <1>14, <1>15 DEF Next, AddStep, GetStep

\* The lock-free protocol is atomic slot by slot (46-155): what RTPReceiver
\* assumes of its jitter buffer holds for every depth.
THEOREM SlotsAreAtomic ==
  ASSUME ConcurrentReset = FALSE
  PROVE  Spec => AtomicSpec
<1>1. QED
  BY InitIInv, NextIInv, InitRefines, StepRefines, PTL DEF Spec, AtomicSpec, Atomic!Spec
=============================================================================
