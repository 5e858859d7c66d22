--------------------------- MODULE SPSCRingBuffer ---------------------------
(***************************************************************************)
(* Shared/RingBuffer.hpp: the lock-free single-producer single-consumer     *)
(* ring that carries every device channel between the network threads and  *)
(* the Core Audio IO thread.                                                *)
(*                                                                          *)
(* A call is three kinds of step: the load of the other side's index, the   *)
(* element copies (the memcpys, one element at a time), and the releasing   *)
(* store of the caller's own index.  The other thread may run between any   *)
(* two of them.  An acquire load that returns an older index is the same    *)
(* behaviour as the load done earlier, so interleaving these steps covers   *)
(* the acquire/release pairs of the code.                                   *)
(***************************************************************************)
EXTENDS Integers, Sequences

CONSTANTS Capacity,    \* constructor argument: usable elements
          Sample,      \* the element type T
          Silence,     \* T{}: what std::vector<T> starts with
          MaxBatch     \* largest count passed to write() and read()

ASSUME RingAssumption ==
  /\ Capacity \in Nat \ {0}
  /\ MaxBatch \in Nat \ {0}
  /\ Silence \in Sample

Cells == Capacity + 1           \* capacity_: one cell is never used
CellIds == 0 .. Cells - 1

Batch == UNION {[1 .. n -> Sample] : n \in 1 .. MaxBatch}
MaxCount == 0 .. MaxBatch

VARIABLES
  buffer,       \* buffer_
  writeIndex, readIndex,   \* writeIndex_, readIndex_
  wData,        \* write(): its argument, <<>> outside a call that copies
  toWrite,      \* write(): toWrite
  wDone,        \* write(): elements copied so far
  toRead,       \* read(): toRead, 0 outside a call that copies
  rDone,        \* read(): elements copied so far
  rData,        \* read(): destination buffer of the call in progress
  received      \* destination buffer of the last call that returned data

prodVars == <<wData, toWrite, wDone>>
consVars == <<toRead, rDone, rData, received>>
vars == <<buffer, writeIndex, readIndex, wData, toWrite, wDone,
          toRead, rDone, rData, received>>

Smaller(a, b) == IF a <= b THEN a ELSE b

getAvailableRead(r, w) == IF w >= r THEN w - r ELSE Cells - r + w

\* Fault: the reserved cell is forgotten.
FaultyAvailableWrite(w, r) == IF r > w THEN r - w ELSE Cells - w + r

getAvailableWrite(w, r) == IF r > w THEN r - w - 1 ELSE Cells - w + r - 1

\* Fault: the second chunk does not restart at cell 0.
FaultyChunkCell(i, n, k) == IF i + k < Cells THEN i + k ELSE k

\* The cell of the k-th element (from 0) of a transfer of n elements that
\* starts at cell i: the first chunk runs to the end of the array, the second
\* one starts again at cell 0.
ChunkCell(i, n, k) ==
  LET firstChunk == Smaller(n, Cells - i)
  IN IF k < firstChunk THEN i + k ELSE k - firstChunk

Init ==
  /\ buffer = [c \in CellIds |-> Silence]
  /\ writeIndex = 0
  /\ readIndex = 0
  /\ wData = <<>> /\ toWrite = 0 /\ wDone = 0
  /\ toRead = 0 /\ rDone = 0 /\ rData = <<>> /\ received = <<>>

-----------------------------------------------------------------------------
(* write(data, count), producer thread                                      *)

\* Loads both indices and sizes the transfer.  When it is 0 the call returns
\* at once and leaves no trace.
WriteBegin(data) ==
  /\ toWrite = 0
  /\ LET n == Smaller(Len(data), getAvailableWrite(writeIndex, readIndex))
     IN /\ n > 0
        /\ toWrite' = n
  /\ wData' = data
  /\ wDone' = 0
  /\ UNCHANGED <<buffer, writeIndex, readIndex, toRead, rDone, rData, received>>

\* One element of the two memcpys into buffer_.
WriteCopy ==
  /\ wDone < toWrite
  /\ buffer' = [buffer EXCEPT ![ChunkCell(writeIndex, toWrite, wDone)] = wData[wDone + 1]]
  /\ wDone' = wDone + 1
  /\ UNCHANGED <<writeIndex, readIndex, wData, toWrite, toRead, rDone, rData, received>>

\* The releasing store of writeIndex_; the call returns toWrite.
WritePublish ==
  /\ toWrite > 0
  /\ wDone = toWrite
  /\ writeIndex' = (writeIndex + toWrite) % Cells
  /\ wData' = <<>>
  /\ toWrite' = 0
  /\ wDone' = 0
  /\ UNCHANGED <<buffer, readIndex, toRead, rDone, rData, received>>

-----------------------------------------------------------------------------
(* read(data, count), consumer thread                                       *)

ReadBegin(count) ==
  /\ toRead = 0
  /\ LET n == Smaller(count, getAvailableRead(readIndex, writeIndex))
     IN /\ n > 0
        /\ toRead' = n
  /\ rDone' = 0
  /\ rData' = <<>>
  /\ UNCHANGED <<buffer, writeIndex, readIndex, wData, toWrite, wDone, received>>

ReadCopy ==
  /\ rDone < toRead
  /\ rData' = Append(rData, buffer[ChunkCell(readIndex, toRead, rDone)])
  /\ rDone' = rDone + 1
  /\ UNCHANGED <<buffer, writeIndex, readIndex, wData, toWrite, wDone, toRead, received>>

ReadPublish ==
  /\ toRead > 0
  /\ rDone = toRead
  /\ readIndex' = (readIndex + toRead) % Cells
  /\ received' = rData
  /\ toRead' = 0
  /\ rDone' = 0
  /\ rData' = <<>>
  /\ UNCHANGED <<buffer, writeIndex, wData, toWrite, wDone>>

-----------------------------------------------------------------------------
\* reset(): legal only while neither side is inside a call.
Reset ==
  /\ toWrite = 0
  /\ toRead = 0
  /\ writeIndex' = 0
  /\ readIndex' = 0
  /\ UNCHANGED <<buffer, wData, toWrite, wDone, toRead, rDone, rData, received>>

Producer == (\E data \in Batch : WriteBegin(data)) \/ WriteCopy \/ WritePublish
Consumer == (\E count \in MaxCount : ReadBegin(count)) \/ ReadCopy \/ ReadPublish

Next == Producer \/ Consumer \/ Reset

Spec == Init /\ [][Next]_vars

-----------------------------------------------------------------------------
(* Properties                                                               *)

Fill == getAvailableRead(readIndex, writeIndex)

\* The k-th cell (from 0) after cell i, going round.
CellAfter(i, k) == IF i + k < Cells THEN i + k ELSE i + k - Cells

TypeOK ==
  /\ buffer \in [CellIds -> Sample]
  /\ writeIndex \in CellIds
  /\ readIndex \in CellIds
  /\ wData \in Seq(Sample)
  /\ toWrite \in 0 .. Capacity
  /\ wDone \in 0 .. toWrite
  /\ toRead \in 0 .. Capacity
  /\ rDone \in 0 .. toRead
  /\ rData \in Seq(Sample)
  /\ received \in Seq(Sample)

\* Cells write() may still store into, cells read() may still load from, and
\* cells holding published elements.
WritingCells == {ChunkCell(writeIndex, toWrite, k) : k \in wDone .. toWrite - 1}
ReadingCells == {ChunkCell(readIndex, toRead, k) : k \in rDone .. toRead - 1}
UnreadCells == {CellAfter(readIndex, k) : k \in 0 .. Fill - 1}

\* write() never stores over an element published and not yet consumed, and
\* read() copies only published elements (57-65 against 92-100): so the two
\* memcpys touch different cells, although each side sized its transfer from
\* an index the other has since moved.
NoDataRace ==
  /\ WritingCells \cap UnreadCells = {}
  /\ ReadingCells \subseteq UnreadCells

\* What the ring holds, oldest first: the refinement mapping to FifoChannel.
Queue == [k \in 1 .. Fill |-> buffer[CellAfter(readIndex, k - 1)]]

\* The ring is a bounded first-in first-out queue: publishing the write index
\* appends a prefix of the data, publishing the read index returns and removes
\* the oldest elements, wrap-around and overlapped calls included (44-108).
Fifo == INSTANCE FifoChannel WITH offered <- wData, queue <- Queue

FifoSpec == Fifo!Spec
=============================================================================
