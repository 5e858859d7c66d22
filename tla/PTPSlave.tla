------------------------------ MODULE PTPSlave -------------------------------
(***************************************************************************)
(* NetworkEngine/PTP/PTPSlave: the IEEE 1588 slave.  A receive thread runs   *)
(* the message handlers, a second thread sends Delay_Req, and the owner      *)
(* starts, stops and replaces the object (PTPDInterface).  syncMutex_ and    *)
(* delayMutex_ are std::mutex: a thread that locks one it holds never        *)
(* returns.  masterMutex_ is only ever held for the length of one action.    *)
(*                                                                          *)
(* A timestamp is named by the number of the message it was taken from (the  *)
(* handlers do not look at the sender of a Sync or Follow_Up).  The network  *)
(* may lose, repeat and reorder: any message a master may send can arrive    *)
(* at any time.  calculateOffsetAndDelay's arithmetic is module PTPServo.    *)
(***************************************************************************)
EXTENDS Integers

CONSTANTS Masters,     \* grandmaster identities
          Qualities,   \* <<priority1, clockClass, priority2>> they announce
          SeqMod,      \* width of a sequenceId
          MaxRequests, \* bound on the Delay_Reqs one object sends
          None         \* nothing received yet

ASSUME PTPSlaveAssumption ==
  /\ Qualities \subseteq [1 .. 3 -> 0 .. 255]
  /\ SeqMod \in Nat \ {0, 1} /\ MaxRequests \in 0 .. SeqMod - 1
  /\ None \notin Nat /\ None \notin [id : Masters, quality : Qualities]
  /\ None \notin [own : BOOLEAN, seq : Nat]

VARIABLES
  running, socketsOpen,
  rx, dr, ctl,           \* receive thread, Delay_Req thread, owner
  syncMutex, delayMutex, \* "free" or "rx": who holds it between actions
  hasMaster, master, overdue,   \* overdue: elapsed > the announce timeout
  syncSeen, waitingForFollowUp, lastSync, t1, t2,
  delayReqSeq, waitingForDelayResp, t3, t4,
  sent, stale,   \* requests of this object, answers to an earlier one's
  best           \* quality of the best master announced since the choice

threadVars == <<running, socketsOpen, rx, dr, ctl>>
masterVars == <<hasMaster, master, overdue, best>>
syncVars == <<syncSeen, waitingForFollowUp, lastSync, t1, t2>>
delayVars == <<delayReqSeq, waitingForDelayResp, t3, t4, sent, stale>>
slaveVars == <<threadVars, syncMutex, delayMutex, masterVars, syncVars, delayVars>>

Seqs == 0 .. SeqMod - 1
NoQuality == [i \in 1 .. 3 |-> 256]
Stamps == Seqs \cup {None}

\* A new object.  Answers to the requests of one that ran before, in this
\* process or an earlier one, may still be on their way.
SlaveInit ==
  /\ running = FALSE /\ socketsOpen = FALSE
  /\ rx = "off" /\ dr = "off" /\ ctl = "idle"
  /\ syncMutex = "free" /\ delayMutex = "free"
  /\ hasMaster = FALSE /\ master = None /\ overdue = FALSE /\ best = NoQuality
  /\ syncSeen = FALSE /\ waitingForFollowUp = FALSE
  /\ lastSync = 0 /\ t1 = None /\ t2 = None
  /\ delayReqSeq = 0 /\ waitingForDelayResp = FALSE /\ t3 = None /\ t4 = None
  /\ sent = {} /\ stale \in {{}, {1}}

-----------------------------------------------------------------------------
(* Owner: PTPDInterface::start, stop and init                               *)

\* createSockets(): both sockets, or none; every error path closes the first.
CreateSockets(ok) == socketsOpen' = ok

\* start() clears what it clears: the timestamps, the request number and the
\* path delay of an earlier run stay.
Start ==
  /\ ctl = "idle" /\ ~running
  /\ running' = TRUE /\ CreateSockets(TRUE)
  /\ rx' = "select" /\ dr' = "check"
  /\ hasMaster' = FALSE /\ syncSeen' = FALSE
  /\ waitingForFollowUp' = FALSE /\ waitingForDelayResp' = FALSE
  /\ best' = NoQuality
  /\ UNCHANGED <<ctl, syncMutex, delayMutex, master, overdue, lastSync, t1, t2,
                 delayReqSeq, t3, t4, sent, stale>>

StartFails ==
  /\ ctl = "idle" /\ ~running
  /\ CreateSockets(FALSE)
  /\ UNCHANGED <<running, rx, dr, ctl, syncMutex, delayMutex, masterVars,
                 syncVars, delayVars>>

\* stop(): clears running_, closes the sockets, then joins the two threads.
Stop ==
  /\ ctl = "idle" /\ running
  /\ running' = FALSE /\ socketsOpen' = FALSE /\ ctl' = "joinRx"
  /\ UNCHANGED <<rx, dr, syncMutex, delayMutex, masterVars, syncVars, delayVars>>

JoinRx ==
  /\ ctl = "joinRx" /\ rx = "off" /\ ctl' = "joinDr"
  /\ UNCHANGED <<running, socketsOpen, rx, dr, syncMutex, delayMutex,
                 masterVars, syncVars, delayVars>>

JoinDr ==
  /\ ctl = "joinDr" /\ dr = "off" /\ ctl' = "idle"
  /\ UNCHANGED <<running, socketsOpen, rx, dr, syncMutex, delayMutex,
                 masterVars, syncVars, delayVars>>

\* PTPDInterface::init on another interface replaces the stopped object.
Replace ==
  /\ ctl = "idle" /\ ~running /\ rx = "off"
  /\ syncMutex' = "free" /\ delayMutex' = "free"
  /\ hasMaster' = FALSE /\ master' = None /\ overdue' = FALSE /\ best' = NoQuality
  /\ syncSeen' = FALSE /\ waitingForFollowUp' = FALSE
  /\ lastSync' = 0 /\ t1' = None /\ t2' = None
  /\ delayReqSeq' = 0 /\ waitingForDelayResp' = FALSE /\ t3' = None /\ t4' = None
  /\ sent' = {} /\ stale' = sent
  /\ UNCHANGED threadVars

-----------------------------------------------------------------------------
(* Receive thread                                                           *)

rest == <<running, socketsOpen, dr, ctl>>

\* Fault: the loop ends only while a socket is open.
RxExitWhileOpen ==
  /\ rx = "select" /\ ~running /\ socketsOpen
  /\ rx' = "off"
  /\ UNCHANGED <<rest, syncMutex, delayMutex, masterVars, syncVars, delayVars>>

\* The loop ends when running_ is cleared or both sockets are gone; select()
\* wakes up at least every 250 ms, so the test is always reached again.
RxExit ==
  /\ rx = "select" /\ (~running \/ ~socketsOpen)
  /\ rx' = "off"
  /\ UNCHANGED <<rest, syncMutex, delayMutex, masterVars, syncVars, delayVars>>

\* A message no handler takes: malformed, of another domain, of another type.
OtherMessage ==
  /\ rx = "select" /\ running /\ rx' = "timeout"
  /\ UNCHANGED <<rest, syncMutex, delayMutex, masterVars, syncVars, delayVars>>

\* handleSync counts the message before it takes the lock.  A one-step Sync
\* carries t1 and calls calculateOffsetAndDelay with syncMutex_ still held.
HandleSync(s, twoStep) ==
  /\ rx = "select" /\ running
  /\ syncMutex = "free"
  /\ syncSeen' = TRUE
  /\ t2' = s /\ lastSync' = s
  /\ waitingForFollowUp' = twoStep
  /\ IF twoStep THEN rx' = "timeout" /\ UNCHANGED <<t1, syncMutex>>
     ELSE rx' = "relock" /\ t1' = s /\ syncMutex' = "rx"
  /\ UNCHANGED <<rest, delayMutex, masterVars, delayVars>>

\* Fault: any Follow_Up is taken for the last Sync's.
AnyFollowUp(s) == waitingForFollowUp

\* handleFollowUp drops all but the Follow_Up of the last Sync, by number.
FollowUpMatches(s) == waitingForFollowUp /\ s = lastSync

HandleFollowUp(s) ==
  /\ rx = "select" /\ running
  /\ syncMutex = "free"
  /\ IF FollowUpMatches(s)
     THEN /\ t1' = s
          /\ waitingForFollowUp' = FALSE
          /\ rx' = "relock" /\ syncMutex' = "rx"
     ELSE rx' = "timeout" /\ UNCHANGED <<t1, waitingForFollowUp, syncMutex>>
  /\ UNCHANGED <<rest, delayMutex, masterVars, syncSeen, lastSync, t2, delayVars>>

\* Fault, were it one: the answer is compared with the request that was sent.
OwnDelayRespMatches(s) == waitingForDelayResp /\ s = (delayReqSeq - 1) % SeqMod

\* handleDelayResp compares with the number of the next request.  A match
\* calls calculateOffsetAndDelay, which comes back to delayMutex_.
DelayRespMatches(s) == waitingForDelayResp /\ s = delayReqSeq

HandleDelayResp(s, own) ==
  /\ rx = "select" /\ running
  /\ delayMutex = "free"
  /\ IF DelayRespMatches(s)
     THEN /\ t4' = [own |-> own, seq |-> s]
          /\ waitingForDelayResp' = FALSE
          /\ rx' = "relock" /\ delayMutex' = "rx"
     ELSE rx' = "timeout" /\ UNCHANGED <<t4, waitingForDelayResp, delayMutex>>
  /\ UNCHANGED <<rest, syncMutex, masterVars, syncVars, delayReqSeq, t3, sent, stale>>

\* Fault: the class is not compared.
BetterPriority(q, r) == q[1] < r[1] \/ (q[1] = r[1] /\ q[3] < r[3])

\* Lower priority1, then lower class, then lower priority2.
Better(q, r) ==
  \/ q[1] < r[1]
  \/ q[1] = r[1] /\ q[2] < r[2]
  \/ q[1] = r[1] /\ q[2] = r[2] /\ q[3] < r[3]

\* Reference for Better: the triple read as one number.
Rank(q) == (q[1] * 257 + q[2]) * 257 + q[3]

HandleAnnounce(m, q) ==
  /\ rx = "select" /\ running
  /\ rx' = "timeout"
  /\ IF ~hasMaster \/ Better(q, master.quality)
     THEN hasMaster' = TRUE /\ master' = [id |-> m, quality |-> q] /\ overdue' = FALSE
     ELSE /\ overdue' = (overdue /\ m # master.id)
          /\ UNCHANGED <<hasMaster, master>>
  /\ best' = IF hasMaster /\ Rank(best) <= Rank(q) THEN best ELSE q
  /\ UNCHANGED <<rest, syncMutex, delayMutex, syncVars, delayVars>>

\* The check at the end of the loop body, reached only after a message.
AnnounceTimeout ==
  /\ rx = "timeout" /\ rx' = "select"
  /\ hasMaster' = (hasMaster /\ ~overdue)
  /\ best' = IF hasMaster' THEN best ELSE NoQuality
  /\ UNCHANGED <<rest, syncMutex, delayMutex, master, overdue, syncVars, delayVars>>

RxStep ==
  \/ RxExit \/ OtherMessage \/ AnnounceTimeout
  \/ \E s \in Seqs : HandleFollowUp(s) \/ \E two \in BOOLEAN : HandleSync(s, two)
  \/ \E m \in Masters, q \in Qualities : HandleAnnounce(m, q)
  \/ \E s \in sent : HandleDelayResp(s, TRUE)
  \/ \E s \in stale : HandleDelayResp(s, FALSE)

\* Time passes: the last Announce of the master is too old.
Elapse ==
  /\ hasMaster /\ ~overdue /\ overdue' = TRUE
  /\ UNCHANGED <<threadVars, syncMutex, delayMutex, hasMaster, master, best,
                 syncVars, delayVars>>

-----------------------------------------------------------------------------
(* Delay_Req thread                                                         *)

others == <<running, socketsOpen, rx, ctl>>

DrGoto(pc) == dr' = pc /\ UNCHANGED others

DrExit ==
  /\ dr \in {"check", "sleep"} /\ ~running /\ DrGoto("off")
  /\ UNCHANGED <<syncMutex, delayMutex, masterVars, syncVars, delayVars>>

\* hasMaster_ is read under one lock, the Sync count under another, and both
\* may have changed when the request goes out.
DrCheckMaster ==
  /\ dr = "check" /\ running
  /\ DrGoto(IF hasMaster THEN "checkSync" ELSE "checkSyncOnly")
  /\ UNCHANGED <<syncMutex, delayMutex, masterVars, syncVars, delayVars>>

DrCheckSync ==
  /\ dr \in {"checkSync", "checkSyncOnly"} /\ syncMutex = "free"
  /\ DrGoto(IF dr = "checkSync" /\ syncSeen THEN "number" ELSE "sleep")
  /\ UNCHANGED <<syncMutex, delayMutex, masterVars, syncVars, delayVars>>

\* sendDelayReq: takes a number, reads the clock, sends, then says it waits.
DrNumber ==
  /\ dr = "number"
  /\ IF ~socketsOpen \/ delayReqSeq = MaxRequests
     THEN DrGoto("sleep") /\ UNCHANGED delayReqSeq
     ELSE /\ delayMutex = "free"
          /\ delayReqSeq' = (delayReqSeq + 1) % SeqMod
          /\ DrGoto("send")
  /\ UNCHANGED <<syncMutex, delayMutex, masterVars, syncVars, waitingForDelayResp,
                 t3, t4, sent, stale>>

DrSend ==
  /\ dr = "send"
  /\ \/ /\ socketsOpen
        /\ sent' = sent \cup {(delayReqSeq - 1) % SeqMod}
        /\ DrGoto("record")
     \/ DrGoto("sleep") /\ UNCHANGED sent    \* sendto failed
  /\ UNCHANGED <<syncMutex, delayMutex, masterVars, syncVars, delayReqSeq,
                 waitingForDelayResp, t3, t4, stale>>

DrRecord ==
  /\ dr = "record" /\ delayMutex = "free"
  /\ t3' = (delayReqSeq - 1) % SeqMod /\ waitingForDelayResp' = TRUE
  /\ DrGoto("sleep")
  /\ UNCHANGED <<syncMutex, delayMutex, masterVars, syncVars, delayReqSeq, t4, sent, stale>>

DrWake ==
  /\ dr = "sleep" /\ running /\ DrGoto("check")
  /\ UNCHANGED <<syncMutex, delayMutex, masterVars, syncVars, delayVars>>

DrStep ==
  \/ DrExit \/ DrCheckMaster \/ DrCheckSync \/ DrNumber
  \/ DrSend \/ DrRecord \/ DrWake

SlaveNext ==
  \/ Start \/ StartFails \/ Stop \/ JoinRx \/ JoinDr \/ Replace
  \/ RxStep \/ Elapse \/ DrStep

\* The two threads run (the receive thread's select() times out every 250 ms)
\* and a join returns once its thread has ended.  Nothing is assumed of the
\* network.
SlaveFairness ==
  /\ WF_slaveVars(RxExit) /\ WF_slaveVars(AnnounceTimeout)
  /\ WF_slaveVars(DrStep) /\ WF_slaveVars(JoinRx \/ JoinDr)

SlaveSpec == SlaveInit /\ [][SlaveNext]_slaveVars
SlaveFairSpec == SlaveSpec /\ SlaveFairness

-----------------------------------------------------------------------------
(* Properties                                                               *)

\* The state of PTPSlave keeps its types.
SlaveTypeOK ==
  /\ running \in BOOLEAN /\ socketsOpen \in BOOLEAN
  /\ rx \in {"off", "select", "timeout", "relock"}
  /\ dr \in {"off", "check", "checkSync", "checkSyncOnly", "number", "send",
             "record", "sleep"}
  /\ ctl \in {"idle", "joinRx", "joinDr"}
  /\ syncMutex \in {"free", "rx"} /\ delayMutex \in {"free", "rx"}
  /\ hasMaster \in BOOLEAN /\ overdue \in BOOLEAN
  /\ master \in [id : Masters, quality : Qualities] \cup {None}
  /\ best \in Qualities \cup {NoQuality}
  /\ hasMaster => master # None
  /\ syncSeen \in BOOLEAN /\ waitingForFollowUp \in BOOLEAN
  /\ lastSync \in Seqs /\ t1 \in Stamps /\ t2 \in Stamps
  /\ delayReqSeq \in Seqs /\ waitingForDelayResp \in BOOLEAN
  /\ t3 \in Seqs \cup {None}
  /\ t4 \in [own : BOOLEAN, seq : Seqs] \cup {None}
  /\ sent \subseteq Seqs /\ stale \subseteq Seqs

\* handleAnnounce keeps the best master announced since it last had none:
\* its nested comparison orders the triples lexicographically, and neither a
\* refresh nor a worse master displaces the choice.
MasterIsBest == hasMaster => Rank(master.quality) = Rank(best)

\* When calculateOffsetAndDelay is entered with a t1, t1 and t2 were taken
\* from a Sync and a Follow_Up of one number: a late, lost or repeated
\* Follow_Up never pairs the send time of one Sync with the arrival of another.
TimestampsPaired ==
  rx = "relock" /\ syncMutex = "rx" => t1 # None /\ t2 # None /\ t1 = t2

\* sendDelayReq increments delayReqSequenceId_ before handleDelayResp compares
\* with it: the only answers ever taken for t4 are those to an earlier object,
\* so path delay is never measured against this object's own requests.
OwnAnswerNeverTaken == t4 # None => ~t4.own

\* The only wait that is not resolved by another thread is the receive
\* thread's for a mutex it holds itself; every mutex held between two actions
\* is held for that reason.
HeldOnlyByRelock == rx # "relock" => syncMutex = "free" /\ delayMutex = "free"

\* stop() returns, unless the receive thread waits for its own mutex.
StopReturns == ctl = "joinRx" ~> (ctl = "idle" \/ rx = "relock")

\* "the calculation function acquires its own locks, so we release delay
\* first" (PTPSlave.cpp:727): no handler calls calculateOffsetAndDelay while
\* it holds a mutex the calculation locks.
NeverRelocks == rx # "relock"
=============================================================================
