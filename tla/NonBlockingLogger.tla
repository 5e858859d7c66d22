--------------------------- MODULE NonBlockingLogger ---------------------------
(***************************************************************************)
(* NonBlockingLogger: log() puts an entry on a queue under a mutex, a        *)
(* writer thread swaps the queue for an empty one and writes what it got,    *)
(* and flush(), which any thread may call, does the same into the same file. *)
(* An entry is a number, counted in the order of the queue.                  *)
(***************************************************************************)
EXTENDS Integers, Sequences

CONSTANTS Levels,       \* numbers of the LogLevel enumeration
          MaxEntries    \* bound: log() calls that put an entry on the queue

ASSUME LoggerAssumption == Levels \subseteq Nat /\ MaxEntries \in Nat

VARIABLES logQueue,      \* logQueue_
          minLogLevel,   \* minLogLevel_
          shouldStop,    \* shouldStop_
          writerPc,      \* the writer thread
          writerBatch,   \* its localQueue
          flushPc,       \* the thread in flush(): "none", "write"; "closed" at the end
          flushBatch,    \* its localQueue
          logFile,       \* entries in the file, in its order
          entryCount,    \* entries made so far
          foreignFlush   \* history: flush() called by a thread other than the writer

logVars == <<logQueue, minLogLevel, shouldStop, writerPc, writerBatch, flushPc, flushBatch,
             logFile, entryCount, foreignFlush>>

\* The constructor opens the file and starts the writer.
LogInit ==
  /\ logQueue = <<>> /\ minLogLevel \in Levels /\ shouldStop = FALSE
  /\ writerPc = "loop" /\ writerBatch = <<>> /\ flushPc = "none" /\ flushBatch = <<>>
  /\ logFile = <<>> /\ entryCount = 0 /\ foreignFlush = FALSE

-----------------------------------------------------------------------------
\* Fault: an entry is put in front of the queue.
LogFirst(level) ==
  /\ ~shouldStop /\ entryCount < MaxEntries
  /\ level >= minLogLevel
  /\ logQueue' = <<entryCount + 1>> \o logQueue /\ entryCount' = entryCount + 1
  /\ UNCHANGED <<minLogLevel, shouldStop, writerPc, writerBatch, flushPc, flushBatch, logFile, foreignFlush>>

\* log(): an entry below the minimum level is dropped.
Log(level) ==
  /\ ~shouldStop /\ entryCount < MaxEntries
  /\ level >= minLogLevel
  /\ logQueue' = Append(logQueue, entryCount + 1) /\ entryCount' = entryCount + 1
  /\ UNCHANGED <<minLogLevel, shouldStop, writerPc, writerBatch, flushPc, flushBatch, logFile, foreignFlush>>

\* Fault: the level is taken one too high.
SetAnyLevel(level) ==
  /\ ~shouldStop /\ minLogLevel' = level + 1
  /\ UNCHANGED <<logQueue, shouldStop, writerPc, writerBatch, flushPc, flushBatch, logFile, entryCount, foreignFlush>>

SetLogLevel(level) ==
  /\ ~shouldStop /\ minLogLevel' = level
  /\ UNCHANGED <<logQueue, shouldStop, writerPc, writerBatch, flushPc, flushBatch, logFile, entryCount, foreignFlush>>

\* The writer's round: leave the loop on shouldStop_, or swap the queue.
WriterRound ==
  /\ writerPc = "loop"
  /\ IF shouldStop
     THEN writerPc' = "flush" /\ UNCHANGED <<logQueue, writerBatch>>
     ELSE /\ writerBatch' = logQueue /\ logQueue' = <<>>
          /\ writerPc' = "write"
  /\ UNCHANGED <<minLogLevel, shouldStop, flushPc, flushBatch, logFile, entryCount, foreignFlush>>

\* The writer's last flush(), after the loop.
WriterFlush ==
  /\ writerPc = "flush"
  /\ writerBatch' = logQueue /\ logQueue' = <<>> /\ writerPc' = "last"
  /\ UNCHANGED <<minLogLevel, shouldStop, flushPc, flushBatch, logFile, entryCount, foreignFlush>>

\* Fault: the writer goes back to its loop after the last flush.
WriterNeverEnds ==
  /\ writerPc \in {"write", "last"}
  /\ IF writerBatch = <<>> THEN writerPc' = "loop" /\ UNCHANGED <<writerBatch, logFile>>
     ELSE /\ logFile' = Append(logFile, Head(writerBatch))
          /\ writerBatch' = Tail(writerBatch) /\ UNCHANGED writerPc
  /\ UNCHANGED <<logQueue, minLogLevel, shouldStop, flushPc, flushBatch, entryCount, foreignFlush>>

\* One entry to the file, or the end of the batch.
WriterWrite ==
  /\ writerPc \in {"write", "last"}
  /\ IF writerBatch = <<>>
     THEN /\ writerPc' = IF writerPc = "write" THEN "loop" ELSE "ended"
          /\ UNCHANGED <<writerBatch, logFile>>
     ELSE /\ logFile' = Append(logFile, Head(writerBatch))
          /\ writerBatch' = Tail(writerBatch) /\ UNCHANGED writerPc
  /\ UNCHANGED <<logQueue, minLogLevel, shouldStop, flushPc, flushBatch, entryCount, foreignFlush>>

\* Fault: flush() copies the queue and leaves it.
FlushCopies ==
  /\ flushPc = "none" /\ (shouldStop => writerPc = "ended")
  /\ flushPc' = "write" /\ flushBatch' = logQueue
  /\ foreignFlush' = (foreignFlush \/ ~shouldStop)
  /\ UNCHANGED <<logQueue, minLogLevel, shouldStop, writerPc, writerBatch, logFile, entryCount>>

\* flush() of another thread, and of the destructor once it has joined.
FlushSwap ==
  /\ flushPc = "none" /\ (shouldStop => writerPc = "ended")
  /\ flushPc' = "write" /\ flushBatch' = logQueue /\ logQueue' = <<>>
  /\ foreignFlush' = (foreignFlush \/ ~shouldStop)
  /\ UNCHANGED <<minLogLevel, shouldStop, writerPc, writerBatch, logFile, entryCount>>

FlushWrite ==
  /\ flushPc = "write"
  /\ IF flushBatch = <<>>
     THEN /\ flushPc' = IF shouldStop THEN "closed" ELSE "none"
          /\ UNCHANGED <<logFile, flushBatch>>
     ELSE /\ logFile' = Append(logFile, Head(flushBatch))
          /\ flushBatch' = Tail(flushBatch) /\ UNCHANGED flushPc
  /\ UNCHANGED <<logQueue, minLogLevel, shouldStop, writerPc, writerBatch, entryCount, foreignFlush>>

\* The destructor, called once nobody is inside a call any more.
Destroy ==
  /\ ~shouldStop /\ flushPc = "none" /\ shouldStop' = TRUE
  /\ UNCHANGED <<logQueue, minLogLevel, writerPc, writerBatch, flushPc, flushBatch, logFile, entryCount, foreignFlush>>

WriterStep == WriterRound \/ WriterFlush \/ WriterWrite

LogNext ==
  \/ \E level \in Levels : Log(level) \/ SetLogLevel(level)
  \/ WriterStep \/ FlushSwap \/ FlushWrite \/ Destroy

\* The writer thread is scheduled; it sleeps 10 ms between two rounds.
LogSpec == LogInit /\ [][LogNext]_logVars /\ WF_logVars(WriterStep)

-----------------------------------------------------------------------------
Everything == logFile \o writerBatch \o flushBatch \o logQueue

\* The logger's state keeps its types.
LogTypeOK ==
  /\ minLogLevel \in Levels /\ shouldStop \in BOOLEAN /\ foreignFlush \in BOOLEAN
  /\ writerPc \in {"loop", "write", "flush", "last", "ended"}
  /\ Everything \in Seq(1 .. MaxEntries)

\* Every entry that was accepted is somewhere, once: neither the swaps nor the
\* writers running at the same time lose or double one, and the file holds all
\* of them when the destructor has closed it.
EveryEntryOnce ==
  /\ Len(Everything) = entryCount
  /\ \A n \in 1 .. entryCount : \E i \in DOMAIN Everything : Everything[i] = n
  /\ flushPc = "closed" => Len(logFile) = entryCount

InOrder == \A i, j \in DOMAIN logFile : i < j => logFile[i] < logFile[j]

\* While only the writer and the destructor write, the file has the order of
\* the queue.
OrderOfOneWriter == ~foreignFlush => InOrder

\* The file has the order of the queue, whoever flushes.  Violated: flush()
\* takes later entries while the writer still holds earlier ones.
OrderOfAll == InOrder

\* The destructor gets past its join: the writer sees shouldStop_ and ends.
WriterEnds == shouldStop ~> writerPc = "ended"

\* Nothing is lost or doubled between log(), flush(), the writer thread and the
\* file, and without flush() nothing changes places.
LogSafe == LogTypeOK /\ EveryEntryOnce /\ OrderOfOneWriter
=============================================================================
