-------------------------- MODULE LockFreePacketPool --------------------------
(***************************************************************************)
(* LockFreePacketPool: a fixed set of packets on a lock-free stack whose     *)
(* head is a pointer and a tag.  acquire() and release() are split at every  *)
(* access to shared memory; a compare-and-swap may fail for no reason, as    *)
(* compare_exchange_weak does.                                               *)
(***************************************************************************)
EXTENDS Integers, FiniteSets

CONSTANTS PoolThreads,   \* threads that use the pool
          PoolSize,      \* totalCount_
          MaxTag,        \* bound: pushes and pops
          DoubleFree     \* whether callers may release a packet twice

ASSUME PoolAssumption ==
  /\ PoolSize \in Nat \ {0} /\ MaxTag \in Nat /\ PoolSize <= MaxTag
  /\ IsFiniteSet(PoolThreads) /\ DoubleFree \in BOOLEAN

VARIABLES freeHead,       \* freeListHead_: [ptr, tag]; ptr 0 is nullptr
          poolNext,       \* nodePool_[i].next
          inUseFlags,     \* inUseFlags_
          availableCount, \* availableCount_; a size_t, so that below 0 is 2^64 - 1
          poolPc,         \* thread -> where it stands
          oldHead,        \* thread -> its copy of the head
          newNext,        \* thread -> the next it read
          poolNode,       \* thread -> the node it pops or pushes
          poolHeld        \* thread -> packets handed out to it

poolVars == <<freeHead, poolNext, inUseFlags, availableCount, poolPc, oldHead,
              newNext, poolNode, poolHeld>>

Nodes == 1 .. PoolSize
PoolPcs == {"idle", "next", "pop", "mark", "taken", "flag", "reset", "push", "pushed"}

-----------------------------------------------------------------------------
\* The constructor pushes the nodes one after the other.
PoolInit ==
  /\ freeHead = [ptr |-> PoolSize, tag |-> PoolSize]
  /\ poolNext = [i \in Nodes |-> i - 1]
  /\ inUseFlags = [i \in Nodes |-> FALSE] /\ availableCount = PoolSize
  /\ poolPc = [t \in PoolThreads |-> "idle"]
  /\ oldHead = [t \in PoolThreads |-> [ptr |-> 0, tag |-> 0]]
  /\ newNext = [t \in PoolThreads |-> 0] /\ poolNode = [t \in PoolThreads |-> 0]
  /\ poolHeld = [t \in PoolThreads |-> {}]

At(t, from, to) == poolPc[t] = from /\ poolPc' = [poolPc EXCEPT ![t] = to]

\* acquire(): read the head; an empty list returns nullptr.
AcquireLoad(t) ==
  /\ poolPc[t] = "idle" /\ freeHead.tag < MaxTag
  /\ oldHead' = [oldHead EXCEPT ![t] = freeHead]
  /\ poolPc' = [poolPc EXCEPT ![t] = IF freeHead.ptr = 0 THEN "idle" ELSE "next"]
  /\ UNCHANGED <<freeHead, poolNext, inUseFlags, availableCount, newNext, poolNode, poolHeld>>

\* oldHead.ptr->next, of a node another thread may have popped meanwhile.
AcquireNext(t) ==
  /\ At(t, "next", "pop")
  /\ newNext' = [newNext EXCEPT ![t] = poolNext[oldHead[t].ptr]]
  /\ UNCHANGED <<freeHead, poolNext, inUseFlags, availableCount, oldHead, poolNode, poolHeld>>

\* Fault: the tag does not change.
Untagged(ptr, tag) == [ptr |-> ptr, tag |-> tag]

\* The exchange compares pointer and tag; a failed one loads the head again.
Tagged(ptr, tag) == [ptr |-> ptr, tag |-> tag + 1]

AcquireCas(t) ==
  /\ poolPc[t] = "pop"
  /\ \/ /\ freeHead = oldHead[t]
        /\ freeHead' = Tagged(newNext[t], oldHead[t].tag)
        /\ poolNode' = [poolNode EXCEPT ![t] = oldHead[t].ptr]
        /\ poolPc' = [poolPc EXCEPT ![t] = "mark"]
        /\ UNCHANGED oldHead
     \/ /\ oldHead' = [oldHead EXCEPT ![t] = freeHead]
        /\ poolPc' = [poolPc EXCEPT ![t] = IF freeHead.ptr = 0 THEN "idle" ELSE "next"]
        /\ UNCHANGED <<freeHead, poolNode>>
  /\ UNCHANGED <<poolNext, inUseFlags, availableCount, newNext, poolHeld>>

AcquireMark(t) ==
  /\ At(t, "mark", "taken")
  /\ inUseFlags' = [inUseFlags EXCEPT ![poolNode[t]] = TRUE]
  /\ UNCHANGED <<freeHead, poolNext, availableCount, oldHead, newNext, poolNode, poolHeld>>

\* Fault: acquire() does not count.
UncountedReturn(t) ==
  /\ At(t, "taken", "idle")
  /\ poolHeld' = [poolHeld EXCEPT ![t] = @ \cup {poolNode[t]}]
  /\ UNCHANGED <<freeHead, poolNext, inUseFlags, availableCount, oldHead, newNext, poolNode>>

AcquireReturn(t) ==
  /\ At(t, "taken", "idle")
  /\ availableCount' = availableCount - 1
  /\ poolHeld' = [poolHeld EXCEPT ![t] = @ \cup {poolNode[t]}]
  /\ UNCHANGED <<freeHead, poolNext, inUseFlags, oldHead, newNext, poolNode>>

\* release(): any thread may be given a packet to release (the network thread
\* acquires, the audio thread releases).  With DoubleFree a second thread may
\* call it for the same packet before the first call has returned.
ReleaseCall(t, i) ==
  /\ At(t, "idle", "flag") /\ freeHead.tag < MaxTag
  /\ \/ \E u \in PoolThreads :
          i \in poolHeld[u] /\ poolHeld' = [poolHeld EXCEPT ![u] = @ \ {i}]
     \/ /\ DoubleFree /\ UNCHANGED poolHeld
        /\ \E u \in PoolThreads :
             poolNode[u] = i /\ poolPc[u] \in {"flag", "reset", "push", "pushed"}
  /\ poolNode' = [poolNode EXCEPT ![t] = i]
  /\ UNCHANGED <<freeHead, poolNext, inUseFlags, availableCount, oldHead, newNext>>

\* Check and clear the flag in one step; a packet that is free is left alone.
ReleaseFlag(t) ==
  /\ poolPc[t] = "flag"
  /\ inUseFlags' = [inUseFlags EXCEPT ![poolNode[t]] = FALSE]
  /\ poolPc' = [poolPc EXCEPT ![t] = IF inUseFlags[poolNode[t]] THEN "reset" ELSE "idle"]
  /\ UNCHANGED <<freeHead, poolNext, availableCount, oldHead, newNext, poolNode, poolHeld>>

\* The node is still the caller's own, so that loading the head and linking
\* to it is one step, the first time and after every failed exchange.
LoadAndLink(t) ==
  /\ oldHead' = [oldHead EXCEPT ![t] = freeHead]
  /\ poolNext' = [poolNext EXCEPT ![poolNode[t]] = freeHead.ptr]

ReleaseLink(t) ==
  /\ At(t, "reset", "push") /\ LoadAndLink(t)
  /\ UNCHANGED <<freeHead, inUseFlags, availableCount, newNext, poolNode, poolHeld>>

\* Fault: after a failed exchange the node still points to the old head.
ReleaseCasOnce(t) ==
  /\ poolPc[t] = "push"
  /\ \/ /\ freeHead = oldHead[t]
        /\ freeHead' = Tagged(poolNode[t], oldHead[t].tag)
        /\ poolPc' = [poolPc EXCEPT ![t] = "pushed"]
        /\ UNCHANGED oldHead
     \/ oldHead' = [oldHead EXCEPT ![t] = freeHead] /\ UNCHANGED <<freeHead, poolPc>>
  /\ UNCHANGED <<poolNext, inUseFlags, availableCount, newNext, poolNode, poolHeld>>

ReleaseCas(t) ==
  /\ poolPc[t] = "push"
  /\ \/ /\ freeHead = oldHead[t]
        /\ freeHead' = Tagged(poolNode[t], oldHead[t].tag)
        /\ poolPc' = [poolPc EXCEPT ![t] = "pushed"]
        /\ UNCHANGED <<oldHead, poolNext>>
     \/ LoadAndLink(t) /\ UNCHANGED <<freeHead, poolPc>>
  /\ UNCHANGED <<inUseFlags, availableCount, newNext, poolNode, poolHeld>>

ReleaseCount(t) ==
  /\ At(t, "pushed", "idle")
  /\ availableCount' = availableCount + 1
  /\ UNCHANGED <<freeHead, poolNext, inUseFlags, oldHead, newNext, poolNode, poolHeld>>

PoolNextStep ==
  \E t \in PoolThreads :
    \/ AcquireLoad(t) \/ AcquireNext(t) \/ AcquireCas(t)
    \/ AcquireMark(t) \/ AcquireReturn(t)
    \/ \E i \in Nodes : ReleaseCall(t, i)
    \/ ReleaseFlag(t) \/ ReleaseLink(t) \/ ReleaseCas(t) \/ ReleaseCount(t)

PoolSpec == PoolInit /\ [][PoolNextStep]_poolVars

-----------------------------------------------------------------------------
\* The free list: the smallest set of nodes that the head leads into and that
\* next does not lead out of.
Closed(S) ==
  /\ freeHead.ptr \in S \cup {0}
  /\ \A i \in S : poolNext[i] \in S \cup {0}
FreeNodes == {i \in Nodes : \A S \in SUBSET Nodes : Closed(S) => i \in S}

\* Between the list and a caller.
Owns(t) == IF poolPc[t] \in {"mark", "taken", "flag", "reset", "push"}
           THEN {poolNode[t]} ELSE {}

\* The pool's state keeps its types.
PoolTypeOK ==
  /\ freeHead \in [ptr : 0 .. PoolSize, tag : 0 .. MaxTag + Cardinality(PoolThreads)]
  /\ poolNext \in [Nodes -> 0 .. PoolSize] /\ inUseFlags \in [Nodes -> BOOLEAN]
  /\ poolPc \in [PoolThreads -> PoolPcs] /\ poolHeld \in [PoolThreads -> SUBSET Nodes]
  /\ availableCount \in -Cardinality(PoolThreads) .. PoolSize

\* A packet has one owner: it is on the free list, or handed to one thread, or
\* in one thread's hands between the two.  (The tag's purpose,
\* LockFreePacketPool.h: no ABA even though a node comes back to the head.)
OneOwner ==
  /\ \A t, u \in PoolThreads : t # u =>
       (poolHeld[t] \cup Owns(t)) \cap (poolHeld[u] \cup Owns(u)) = {}
  /\ \A t \in PoolThreads : FreeNodes \cap (poolHeld[t] \cup Owns(t)) = {}

\* No packet drops out of the pool, and the count is right when nobody is
\* inside a call.
NoneLeaks ==
  /\ Nodes = FreeNodes \cup UNION {poolHeld[t] \cup Owns(t) : t \in PoolThreads}
  /\ (\A t \in PoolThreads : poolPc[t] = "idle") => availableCount = Cardinality(FreeNodes)

\* A packet in a caller's hands is neither free nor another caller's.  Violated
\* with DoubleFree, although the flag is there so that two concurrent release()
\* calls cannot free a packet twice: the second one may come after the packet
\* has been handed out anew, and frees it under its new owner.
HandedOutOnce ==
  \A t, u \in PoolThreads :
    /\ poolHeld[t] \cap FreeNodes = {}
    /\ t # u => poolHeld[t] \cap poolHeld[u] = {}

\* getAvailableCount() never reports more packets than there are.  Violated:
\* a packet is on the list before it is counted, another thread takes it and
\* subtracts first, and 0 - 1 is 2^64 - 1.
AvailableIsPlausible == availableCount >= 0

\* Every packet has one owner or is free, between the operations of any threads.
PoolSafe == PoolTypeOK /\ OneOwner /\ NoneLeaks
=============================================================================
