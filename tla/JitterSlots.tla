----------------------------- MODULE JitterSlots -----------------------------
(***************************************************************************)
(* What the lock-free jitter buffer amounts to for its two threads: a table  *)
(* of slots in which a packet appears and disappears at one instant, and a  *)
(* counter that follows each change in a step of its own.                   *)
(* LockFreeCircularJitterBuffer implements it; RTPReceiver is built on it.   *)
(***************************************************************************)
EXTENDS Integers

CONSTANTS Depth, SeqMod, CountMod, NoData

VARIABLES
  held,         \* packet number in each slot, NoData when the slot is empty
  count,        \* validPackets_
  addPending, getPending,    \* counter update still to come
  gotPacket     \* what the last getNextPacket returned

slotsVars == <<held, count, addPending, getPending, gotPacket>>

Slots == 0 .. Depth - 1
Seqs == 0 .. SeqMod - 1
SlotOf(seq) == seq % Depth
Empty == [i \in Slots |-> NoData]

Init == /\ held = Empty
        /\ count = 0
        /\ addPending = FALSE /\ getPending = FALSE /\ gotPacket = FALSE

\* addPacket: only an empty slot takes the packet.
Put(seq) == /\ ~addPending
            /\ held[SlotOf(seq)] = NoData
            /\ held' = [held EXCEPT ![SlotOf(seq)] = seq]
            /\ addPending' = TRUE
            /\ UNCHANGED <<count, getPending, gotPacket>>

Drop(seq) == /\ ~addPending
             /\ held[SlotOf(seq)] # NoData
             /\ UNCHANGED slotsVars

CountPut == /\ addPending
            /\ addPending' = FALSE
            /\ count' = (count + 1) % CountMod
            /\ UNCHANGED <<held, getPending, gotPacket>>

\* getNextPacket on an occupied slot: the packet leaves it, returned when it
\* is the one asked for and thrown away otherwise.
Take(seq) == /\ ~getPending
             /\ held[SlotOf(seq)] # NoData
             /\ gotPacket' = (held[SlotOf(seq)] = seq)
             /\ held' = [held EXCEPT ![SlotOf(seq)] = NoData]
             /\ getPending' = TRUE
             /\ UNCHANGED <<count, addPending>>

Miss(seq) == /\ ~getPending
             /\ held[SlotOf(seq)] = NoData
             /\ gotPacket' = FALSE
             /\ UNCHANGED <<held, count, addPending, getPending>>

CountTake == /\ getPending
             /\ getPending' = FALSE
             /\ count' = (count - 1) % CountMod
             /\ UNCHANGED <<held, addPending, gotPacket>>

\* reset() between two runs, slot by slot, the counter with the last one.
ClearSlot(i) == /\ ~addPending /\ ~getPending
                /\ held' = [held EXCEPT ![i] = NoData]
                /\ count' \in {count, 0}
                /\ UNCHANGED <<addPending, getPending, gotPacket>>

Next == \/ \E seq \in Seqs : Put(seq) \/ Drop(seq) \/ Take(seq) \/ Miss(seq)
        \/ CountPut \/ CountTake
        \/ \E i \in Slots : ClearSlot(i)

Spec == Init /\ [][Next]_slotsVars
=============================================================================
