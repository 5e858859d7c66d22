----------------------------- MODULE FifoChannel -----------------------------
(***************************************************************************)
(* What SPSCRingBuffer<T> promises its two callers, with the indices, the   *)
(* wrap-around and the two memcpys left out: a bounded first-in first-out   *)
(* queue between one producer and one consumer.  A write hands over a       *)
(* prefix of the data it was given, a read takes a prefix of what is        *)
(* queued, and nothing is lost, repeated, reordered or invented between.    *)
(***************************************************************************)
EXTENDS Naturals, Sequences

CONSTANTS Sample,      \* the element type T
          Capacity     \* usable elements

VARIABLES offered,     \* argument of the write in progress, <<>> when none
          queue,       \* elements published and not yet consumed
          received     \* data the last completed read returned

fifoVars == <<offered, queue, received>>

Init == /\ offered = <<>>
        /\ queue = <<>>
        /\ received = <<>>

\* A write begins with some data; an empty queue slot is not required yet.
Offer == /\ offered = <<>>
         /\ offered' # <<>>
         /\ UNCHANGED <<queue, received>>

\* The write ends: a non-empty prefix of its data, as long as it fits, joins
\* the queue in one atomic step.
Enqueue == /\ offered # <<>>
           /\ \E n \in 1 .. Len(offered) :
                /\ Len(queue) + n <= Capacity
                /\ queue' = queue \o SubSeq(offered, 1, n)
           /\ offered' = <<>>
           /\ UNCHANGED received

\* A read ends: it returns the n oldest elements and removes exactly those.
Dequeue == /\ \E n \in 1 .. Len(queue) :
                /\ received' = SubSeq(queue, 1, n)
                /\ queue' = SubSeq(queue, n + 1, Len(queue))
           /\ UNCHANGED offered

\* reset() on an idle channel.
Clear == /\ offered = <<>>
         /\ queue' = <<>>
         /\ UNCHANGED <<offered, received>>

Next == Offer \/ Enqueue \/ Dequeue \/ Clear

Spec == Init /\ [][Next]_fifoVars
=============================================================================
