----------------------------- MODULE EngineProofs -----------------------------
(***************************************************************************)
(* Theorems about the threads of the network engine that an owner starts and  *)
(* stops: the PTP slave, the transmitter with the rings it shares with the    *)
(* Core Audio IO thread, the rings of the input direction, the SAP listener    *)
(* and the logger; and about the ring all of them use, SPSCRingBuffer.  (Those *)
(* of the receiver are in ReceiverProofs.)                                    *)
(***************************************************************************)
EXTENDS SPSCRingBuffer, PTPSlave, RTPTransmitter, DeviceInput, SAPListener,
        NonBlockingLogger, SequenceTheorems, FiniteSetTheorems, TLAPS

(***************************************************************************)
(* PTPSlave, for any set of masters and qualities, any width of the numbers  *)
(* and any number of requests.  The argument: the owner only starts or       *)
(* replaces an object whose two threads have ended (Joined), so that what a   *)
(* thread holds between two of its actions is never taken away; a Follow_Up   *)
(* is only waited for with the t2 of its Sync; and the number of the next     *)
(* request is above those of all that were sent.                             *)
(***************************************************************************)

\* A stopped slave that may be started again has no thread left.
Joined ==
  /\ ctl # "idle" => ~running
  /\ ~running /\ ctl # "joinRx" => rx = "off"
  /\ ~running /\ ctl = "idle" => dr = "off"

\* The t2 at hand is that of the Sync whose Follow_Up is waited for.
SyncAtHand == waitingForFollowUp => t2 = lastSync

\* Requests are numbered upwards.
NumbersAhead ==
  /\ delayReqSeq <= MaxRequests
  /\ dr \in {"send", "record"} => delayReqSeq > 0
  /\ \A n \in sent : n < delayReqSeq

\* The best announced quality exists once there is a master.
BestKnown == hasMaster => best \in Qualities

\* The type invariant and the facts above, by the part of the state they are
\* about: threads, mutexes, choice of the master, Sync side, Delay_Req side.
ThreadsInv ==
  /\ running \in BOOLEAN /\ socketsOpen \in BOOLEAN
  /\ rx \in {"off", "select", "timeout", "relock"}
  /\ dr \in {"off", "check", "checkSync", "checkSyncOnly", "number", "send",
             "record", "sleep"}
  /\ ctl \in {"idle", "joinRx", "joinDr"}
  /\ Joined

MutexInv ==
  /\ syncMutex \in {"free", "rx"} /\ delayMutex \in {"free", "rx"}
  /\ HeldOnlyByRelock

MasterInv ==
  /\ hasMaster \in BOOLEAN /\ overdue \in BOOLEAN
  /\ master \in [id : Masters, quality : Qualities] \cup {None}
  /\ best \in Qualities \cup {NoQuality}
  /\ hasMaster => master # None
  /\ BestKnown /\ MasterIsBest

SyncInv ==
  /\ syncSeen \in BOOLEAN /\ waitingForFollowUp \in BOOLEAN
  /\ lastSync \in Seqs /\ t1 \in Stamps /\ t2 \in Stamps
  /\ SyncAtHand /\ TimestampsPaired

DelayInv ==
  /\ delayReqSeq \in Seqs /\ waitingForDelayResp \in BOOLEAN
  /\ t3 \in Seqs \cup {None}
  /\ t4 \in [own : BOOLEAN, seq : Seqs] \cup {None}
  /\ sent \subseteq Seqs /\ stale \subseteq Seqs
  /\ NumbersAhead /\ OwnAnswerNeverTaken

SlaveInv == ThreadsInv /\ MutexInv /\ MasterInv /\ SyncInv /\ DelayInv

LEMMA SlaveInvMeans ==
  SlaveInv => /\ SlaveTypeOK /\ HeldOnlyByRelock /\ TimestampsPaired
              /\ OwnAnswerNeverTaken /\ MasterIsBest
  BY DEF SlaveInv, ThreadsInv, MutexInv, MasterInv, SyncInv, DelayInv, SlaveTypeOK

-----------------------------------------------------------------------------
\* The nested comparison of handleAnnounce is that of one number.
LEMMA BetterIsRank ==
  ASSUME NEW q \in Qualities, NEW r \in Qualities
  PROVE  /\ Better(q, r) <=> Rank(q) < Rank(r)
         /\ Rank(q) \in Int
<1>1. /\ q[1] \in 0 .. 255 /\ q[2] \in 0 .. 255 /\ q[3] \in 0 .. 255
      /\ r[1] \in 0 .. 255 /\ r[2] \in 0 .. 255 /\ r[3] \in 0 .. 255
  BY PTPSlaveAssumption
<1>2. PICK a, b, c, x, y, z \in 0 .. 255 :
        q[1] = a /\ q[2] = b /\ q[3] = c /\ r[1] = x /\ r[2] = y /\ r[3] = z
  BY <1>1
<1>3. /\ Rank(q) = (a * 257 + b) * 257 + c
      /\ Rank(r) = (x * 257 + y) * 257 + z
  BY <1>2 DEF Rank
<1>4. Better(q, r) <=> a < x \/ (a = x /\ b < y) \/ (a = x /\ b = y /\ c < z)
  BY <1>2 DEF Better
<1>5. (a < x \/ (a = x /\ b < y) \/ (a = x /\ b = y /\ c < z))
           <=> (a * 257 + b) * 257 + c < (x * 257 + y) * 257 + z
  <2>1. CASE a < x
    <3>1. (a * 257 + b) * 257 + c < (x * 257 + y) * 257 + z
      BY <2>1
    <3> QED BY <2>1, <3>1
  <2>2. CASE x < a
    <3>1. (x * 257 + y) * 257 + z < (a * 257 + b) * 257 + c
      BY <2>2
    <3> QED BY <2>2, <3>1
  <2>3. CASE a = x /\ b < y
    <3>1. (a * 257 + b) * 257 + c < (a * 257 + y) * 257 + z
      BY <2>3
    <3> QED BY <2>3, <3>1
  <2>4. CASE a = x /\ y < b
    <3>1. (a * 257 + y) * 257 + z < (a * 257 + b) * 257 + c
      BY <2>4
    <3> QED BY <2>4, <3>1
  <2>5. CASE a = x /\ b = y
    BY <2>5
  <2> QED
    BY <2>1, <2>2, <2>3, <2>4, <2>5
<1>6. (a * 257 + b) * 257 + c \in Int
  OBVIOUS
<1> QED
  BY <1>3, <1>4, <1>5, <1>6

\* Below the modulus, the remainder is the number itself.
LEMMA SmallRemainder == \A m \in Nat \ {0} : \A n \in 0 .. m - 1 : n % m = n
  OBVIOUS

LEMMA InitHolds == SlaveInit => SlaveInv
<1> SUFFICES ASSUME SlaveInit PROVE SlaveInv
  OBVIOUS
<1> USE DEF SlaveInit
<1>1. ThreadsInv
  BY DEF ThreadsInv, Joined
<1>2. MutexInv
  BY DEF MutexInv, HeldOnlyByRelock
<1>3. MasterInv
  BY DEF MasterInv, BestKnown, MasterIsBest
<1>4. SyncInv
  <2>1. 0 \in Seqs /\ None \in Stamps
    BY PTPSlaveAssumption DEF Seqs, Stamps
  <2> QED BY <2>1 DEF SyncInv, SyncAtHand, TimestampsPaired
<1>5. DelayInv
  <2>1. 0 \in Seqs /\ 1 \in Seqs /\ 0 <= MaxRequests
    BY PTPSlaveAssumption DEF Seqs
  <2>2. sent = {} /\ stale \subseteq Seqs
    BY <2>1
  <2> QED BY <2>1, <2>2 DEF DelayInv, NumbersAhead, OwnAnswerNeverTaken
<1> QED
  BY <1>1, <1>2, <1>3, <1>4, <1>5 DEF SlaveInv

-----------------------------------------------------------------------------
(* Every step keeps each part                                               *)

\* The owner waits for both threads before it may start or replace anything.
LEMMA ThreadsKept ==
  ASSUME ThreadsInv, [SlaveNext]_slaveVars
  PROVE  ThreadsInv'
<1> USE DEF ThreadsInv, Joined
<1>1. CASE Start BY <1>1 DEF Start, CreateSockets
<1>2. CASE StartFails BY <1>2 DEF StartFails, CreateSockets
<1>3. CASE Stop BY <1>3 DEF Stop
<1>4. CASE JoinRx BY <1>4 DEF JoinRx
<1>5. CASE JoinDr BY <1>5 DEF JoinDr
<1>6. CASE Replace \/ Elapse BY <1>6 DEF Replace, Elapse, threadVars
<1>7. CASE RxStep
  <2> USE DEF rest
  <2>1. CASE RxExit BY <2>1 DEF RxExit
  <2>2. CASE OtherMessage \/ AnnounceTimeout BY <2>2 DEF OtherMessage, AnnounceTimeout
  <2>3. ASSUME NEW s \in Seqs, HandleFollowUp(s) PROVE ThreadsInv'
    BY <2>3 DEF HandleFollowUp
  <2>4. ASSUME NEW s \in Seqs, NEW two \in BOOLEAN, HandleSync(s, two) PROVE ThreadsInv'
    BY <2>4 DEF HandleSync
  <2>5. ASSUME NEW m \in Masters, NEW q \in Qualities, HandleAnnounce(m, q) PROVE ThreadsInv'
    BY <2>5 DEF HandleAnnounce
  <2>6. ASSUME NEW s, NEW own \in BOOLEAN, HandleDelayResp(s, own) PROVE ThreadsInv'
    BY <2>6 DEF HandleDelayResp
  <2> QED BY <1>7, <2>1, <2>2, <2>3, <2>4, <2>5, <2>6 DEF RxStep
<1>8. CASE DrStep
  <2> USE DEF DrGoto, others
  <2>1. CASE DrExit BY <2>1 DEF DrExit
  <2>2. CASE DrCheckMaster \/ DrCheckSync \/ DrWake
    BY <2>2 DEF DrCheckMaster, DrCheckSync, DrWake
  <2>3. CASE DrNumber BY <2>3 DEF DrNumber
  <2>4. CASE DrSend BY <2>4 DEF DrSend
  <2>5. CASE DrRecord BY <2>5 DEF DrRecord
  <2> QED BY <1>8, <2>1, <2>2, <2>3, <2>4, <2>5 DEF DrStep
<1>9. CASE UNCHANGED slaveVars BY <1>9 DEF slaveVars, threadVars
<1> QED
  BY <1>1, <1>2, <1>3, <1>4, <1>5, <1>6, <1>7, <1>8, <1>9 DEF SlaveNext

\* No thread is started, and no object made, while a mutex is held: only a
\* receive thread that waits for its own holds one, and it is never joined.
LEMMA MutexesKept ==
  ASSUME ThreadsInv, MutexInv, [SlaveNext]_slaveVars
  PROVE  MutexInv'
<1> USE DEF MutexInv, HeldOnlyByRelock
<1>1. CASE Start BY <1>1 DEF Start, ThreadsInv, Joined
<1>2. CASE StartFails \/ Stop \/ JoinRx \/ JoinDr BY <1>2 DEF StartFails, Stop, JoinRx, JoinDr
<1>3. CASE Replace \/ Elapse BY <1>3 DEF Replace, Elapse, threadVars
<1>4. CASE RxStep
  <2>1. CASE RxExit \/ OtherMessage \/ AnnounceTimeout
    BY <2>1 DEF RxExit, OtherMessage, AnnounceTimeout
  <2>2. ASSUME NEW s \in Seqs, HandleFollowUp(s) PROVE MutexInv'
    BY <2>2 DEF HandleFollowUp
  <2>3. ASSUME NEW s \in Seqs, NEW two \in BOOLEAN, HandleSync(s, two) PROVE MutexInv'
    BY <2>3 DEF HandleSync
  <2>4. ASSUME NEW m \in Masters, NEW q \in Qualities, HandleAnnounce(m, q) PROVE MutexInv'
    BY <2>4 DEF HandleAnnounce
  <2>5. ASSUME NEW s, NEW own \in BOOLEAN, HandleDelayResp(s, own) PROVE MutexInv'
    BY <2>5 DEF HandleDelayResp
  <2> QED BY <1>4, <2>1, <2>2, <2>3, <2>4, <2>5 DEF RxStep
<1>5. CASE DrStep
  <2> USE DEF DrGoto, others
  <2>1. CASE DrExit \/ DrCheckMaster \/ DrCheckSync \/ DrWake
    BY <2>1 DEF DrExit, DrCheckMaster, DrCheckSync, DrWake
  <2>2. CASE DrNumber \/ DrSend \/ DrRecord BY <2>2 DEF DrNumber, DrSend, DrRecord
  <2> QED BY <1>5, <2>1, <2>2 DEF DrStep
<1>6. CASE UNCHANGED slaveVars BY <1>6 DEF slaveVars, threadVars
<1> QED
  BY <1>1, <1>2, <1>3, <1>4, <1>5, <1>6 DEF SlaveNext

\* A master just taken is the best known.
LEMMA TakenMaster ==
  ASSUME NEW m \in Masters, NEW q \in Qualities,
         hasMaster' = TRUE, master' = [id |-> m, quality |-> q],
         overdue' = FALSE, best' = q
  PROVE  MasterInv'
<1>1. master' \in [id : Masters, quality : Qualities] /\ master'.quality = q
  OBVIOUS
<1>2. master' # None
  BY <1>1, PTPSlaveAssumption
<1> QED
  BY <1>1, <1>2 DEF MasterInv, BestKnown, MasterIsBest

\* handleAnnounce takes a master exactly when it ranks before all that were
\* announced since there was none; the timeout drops both.
LEMMA MastersKept ==
  ASSUME MasterInv, [SlaveNext]_slaveVars
  PROVE  MasterInv'
<1> USE DEF MasterInv, BestKnown, MasterIsBest
<1>1. CASE Start BY <1>1 DEF Start
<1>2. CASE StartFails \/ Stop \/ JoinRx \/ JoinDr
  <2>1. UNCHANGED masterVars
    BY <1>2 DEF StartFails, Stop, JoinRx, JoinDr
  <2> QED BY <2>1 DEF masterVars
<1>3. CASE Replace BY <1>3 DEF Replace
<1>4. CASE Elapse BY <1>4 DEF Elapse
<1>5. CASE RxStep
  <2>1. CASE RxExit \/ OtherMessage BY <2>1 DEF RxExit, OtherMessage, masterVars
  <2>2. CASE AnnounceTimeout BY <2>2 DEF AnnounceTimeout
  <2>3. ASSUME NEW s \in Seqs, HandleFollowUp(s) PROVE MasterInv'
    BY <2>3 DEF HandleFollowUp, masterVars
  <2>4. ASSUME NEW s \in Seqs, NEW two \in BOOLEAN, HandleSync(s, two) PROVE MasterInv'
    BY <2>4 DEF HandleSync, masterVars
  <2>5. ASSUME NEW m \in Masters, NEW q \in Qualities, HandleAnnounce(m, q) PROVE MasterInv'
    <3>1. Rank(q) \in Int BY BetterIsRank
    <3>2. CASE ~hasMaster
      <4>1. /\ hasMaster' = TRUE /\ master' = [id |-> m, quality |-> q]
            /\ overdue' = FALSE /\ best' = q
        BY <2>5, <3>2 DEF HandleAnnounce
      <4> QED BY <4>1, TakenMaster
    <3>3. CASE hasMaster
      <4>1. master.quality \in Qualities /\ best \in Qualities BY <3>3
      <4>2. /\ Rank(master.quality) = Rank(best) /\ Rank(best) \in Int
            /\ Better(q, master.quality) <=> Rank(q) < Rank(best)
        BY <3>3, <4>1, BetterIsRank
      <4>3. CASE Rank(q) < Rank(best)
        <5>1. hasMaster' = TRUE /\ master' = [id |-> m, quality |-> q]
              /\ overdue' = FALSE /\ best' = q
          <6>1. Better(q, master.quality) /\ ~(Rank(best) <= Rank(q))
            BY <3>1, <4>2, <4>3
          <6> QED BY <2>5, <3>3, <6>1 DEF HandleAnnounce
        <5> QED BY <5>1, TakenMaster
      <4>4. CASE ~(Rank(q) < Rank(best))
        <5>1. UNCHANGED <<hasMaster, master, best>> /\ overdue' \in BOOLEAN
          <6>1. ~Better(q, master.quality) /\ Rank(best) <= Rank(q)
            BY <3>1, <4>2, <4>4
          <6>2. /\ overdue' = (overdue /\ m # master.id) /\ UNCHANGED <<hasMaster, master>>
                /\ best' = best
            BY <2>5, <3>3, <6>1 DEF HandleAnnounce
          <6> QED BY <6>2
        <5> QED BY <5>1, <3>3
      <4> QED BY <4>3, <4>4
    <3> QED BY <3>2, <3>3
  <2>6. ASSUME NEW s, NEW own \in BOOLEAN, HandleDelayResp(s, own) PROVE MasterInv'
    BY <2>6 DEF HandleDelayResp, masterVars
  <2> QED BY <1>5, <2>1, <2>2, <2>3, <2>4, <2>5, <2>6 DEF RxStep
<1>6. CASE DrStep
  BY <1>6 DEF DrStep, DrExit, DrCheckMaster, DrCheckSync, DrWake, DrNumber, DrSend,
              DrRecord, masterVars
<1>7. CASE UNCHANGED slaveVars BY <1>7 DEF slaveVars, masterVars
<1> QED
  BY <1>1, <1>2, <1>3, <1>4, <1>5, <1>6, <1>7 DEF SlaveNext

\* A Follow_Up that is taken bears the number of the last Sync, whose t2 is at
\* hand; t1 is written with it, under the same lock.
LEMMA SyncKept ==
  ASSUME ThreadsInv, SyncInv, MutexInv, [SlaveNext]_slaveVars
  PROVE  SyncInv'
<1> USE PTPSlaveAssumption DEF SyncInv, SyncAtHand, TimestampsPaired, Seqs, Stamps
<1>1. CASE Start
  BY <1>1 DEF Start
<1>2. CASE StartFails \/ Stop \/ JoinRx \/ JoinDr
  <2>1. UNCHANGED <<syncVars, rx, syncMutex>>
    BY <1>2 DEF StartFails, Stop, JoinRx, JoinDr
  <2> QED BY <2>1 DEF syncVars
<1>3. CASE Replace
  <2>1. 0 \in Seqs /\ None \in Stamps
    OBVIOUS
  <2>2. /\ syncSeen' = FALSE /\ waitingForFollowUp' = FALSE /\ lastSync' = 0
        /\ t1' = None /\ t2' = None /\ syncMutex' = "free"
    BY <1>3 DEF Replace
  <2> HIDE DEF Seqs, Stamps
  <2> QED BY <2>1, <2>2
<1>4. CASE Elapse BY <1>4 DEF Elapse, syncVars, threadVars
<1>5. CASE RxStep
  <2>1. CASE RxExit \/ OtherMessage \/ AnnounceTimeout
    BY <2>1 DEF RxExit, OtherMessage, AnnounceTimeout, syncVars
  <2>2. ASSUME NEW s \in Seqs, HandleFollowUp(s) PROVE SyncInv'
    <3>1. CASE FollowUpMatches(s)
      <4>1. /\ t1' = lastSync /\ t2' = lastSync /\ lastSync' = lastSync
            /\ waitingForFollowUp' = FALSE /\ syncSeen' = syncSeen
        BY <2>2, <3>1 DEF HandleFollowUp, FollowUpMatches
      <4>2. lastSync \in Nat
        OBVIOUS
      <4> QED BY <4>1, <4>2
    <3>2. CASE ~FollowUpMatches(s)
      BY <2>2, <3>2 DEF HandleFollowUp
    <3> QED BY <3>1, <3>2
  <2>3. ASSUME NEW s \in Seqs, NEW two \in BOOLEAN, HandleSync(s, two) PROVE SyncInv'
    BY <2>3 DEF HandleSync
  <2>4. ASSUME NEW m \in Masters, NEW q \in Qualities, HandleAnnounce(m, q) PROVE SyncInv'
    BY <2>4 DEF HandleAnnounce, syncVars
  <2>5. ASSUME NEW s, NEW own \in BOOLEAN, HandleDelayResp(s, own) PROVE SyncInv'
    BY <2>5 DEF HandleDelayResp, syncVars, MutexInv, HeldOnlyByRelock
  <2> QED BY <1>5, <2>1, <2>2, <2>3, <2>4, <2>5 DEF RxStep
<1>6. CASE DrStep
  BY <1>6 DEF DrStep, DrExit, DrCheckMaster, DrCheckSync, DrWake, DrNumber, DrSend,
              DrRecord, syncVars, DrGoto, others
<1>7. CASE UNCHANGED slaveVars BY <1>7 DEF slaveVars, syncVars, threadVars
<1> QED
  BY <1>1, <1>2, <1>3, <1>4, <1>5, <1>6, <1>7 DEF SlaveNext

\* Most steps leave the delay exchange alone.
LEMMA DelaysUntouched ==
  ASSUME DelayInv, UNCHANGED delayVars,
         dr' \in {"send", "record"} => dr \in {"send", "record"}
  PROVE  DelayInv'
BY DEF DelayInv, NumbersAhead, OwnAnswerNeverTaken, delayVars

\* The number awaited is that of the next request: no answer to a request of
\* this object bears it, so what is taken answers an earlier object's.
LEMMA DelaysKept ==
  ASSUME ThreadsInv, DelayInv, [SlaveNext]_slaveVars
  PROVE  DelayInv'
<1> USE PTPSlaveAssumption DEF DelayInv, NumbersAhead, OwnAnswerNeverTaken, Seqs
<1>1. CASE Start
  BY <1>1 DEF Start
<1>2. CASE StartFails \/ Stop \/ JoinRx \/ JoinDr
  <2>1. UNCHANGED <<delayVars, dr>>
    BY <1>2 DEF StartFails, Stop, JoinRx, JoinDr
  <2> QED BY <2>1, DelaysUntouched
<1>3. CASE Replace
  <2>1. dr' = dr /\ dr = "off"
    BY <1>3 DEF Replace, threadVars, ThreadsInv, Joined
  <2>2. 0 \in Seqs /\ 0 <= MaxRequests
    OBVIOUS
  <2>3. /\ delayReqSeq' = 0 /\ waitingForDelayResp' = FALSE
        /\ t3' = None /\ t4' = None /\ sent' = {} /\ stale' = sent
    BY <1>3 DEF Replace
  <2> HIDE DEF Seqs
  <2> QED BY <2>1, <2>2, <2>3
<1>4. CASE Elapse BY <1>4 DEF Elapse, delayVars, threadVars
<1>5. CASE RxStep
  <2>1. CASE RxExit \/ OtherMessage \/ AnnounceTimeout
    <3>1. UNCHANGED <<delayVars, dr>>
      BY <2>1 DEF RxExit, OtherMessage, AnnounceTimeout, rest
    <3> QED BY <3>1, DelaysUntouched
  <2>2. ASSUME NEW s \in Seqs, HandleFollowUp(s) PROVE DelayInv'
    <3>1. UNCHANGED <<delayVars, dr>>
      BY <2>2 DEF HandleFollowUp, rest
    <3> QED BY <3>1, DelaysUntouched
  <2>3. ASSUME NEW s \in Seqs, NEW two \in BOOLEAN, HandleSync(s, two) PROVE DelayInv'
    <3>1. UNCHANGED <<delayVars, dr>>
      BY <2>3 DEF HandleSync, rest
    <3> QED BY <3>1, DelaysUntouched
  <2>4. ASSUME NEW m \in Masters, NEW q \in Qualities, HandleAnnounce(m, q) PROVE DelayInv'
    <3>1. UNCHANGED <<delayVars, dr>>
      BY <2>4 DEF HandleAnnounce, rest
    <3> QED BY <3>1, DelaysUntouched
  <2>5. ASSUME NEW s \in Seqs, NEW own \in BOOLEAN, own => s < delayReqSeq,
               HandleDelayResp(s, own)
        PROVE DelayInv'
    <3>1. CASE DelayRespMatches(s)
      <4>1. ~own /\ t4' = [own |-> own, seq |-> s] /\ waitingForDelayResp' = FALSE
        BY <2>5, <3>1 DEF HandleDelayResp, DelayRespMatches
      <4>2. t4' \in [own : BOOLEAN, seq : 0 .. SeqMod - 1] /\ ~t4'.own
        BY <4>1
      <4>3. UNCHANGED <<delayReqSeq, t3, sent, stale, dr>>
        BY <2>5 DEF HandleDelayResp, rest
      <4> QED BY <4>1, <4>2, <4>3
    <3>2. CASE ~DelayRespMatches(s)
      BY <2>5, <3>2 DEF HandleDelayResp, rest
    <3> QED BY <3>1, <3>2
  <2> QED BY <1>5, <2>1, <2>2, <2>3, <2>4, <2>5 DEF RxStep
<1>6. CASE DrStep
  <2> USE DEF DrGoto, others
  <2>1. CASE DrExit \/ DrCheckMaster \/ DrCheckSync \/ DrWake
    <3>1. UNCHANGED delayVars /\ dr' \notin {"send", "record"}
      BY <2>1 DEF DrExit, DrCheckMaster, DrCheckSync, DrWake
    <3> QED BY <3>1, DelaysUntouched
  <2>2. CASE DrNumber
    <3>1. CASE ~socketsOpen \/ delayReqSeq = MaxRequests
      BY <2>2, <3>1 DEF DrNumber
    <3>2. CASE ~(~socketsOpen \/ delayReqSeq = MaxRequests)
      <4>1. delayReqSeq + 1 \in 0 .. SeqMod - 1 /\ delayReqSeq + 1 <= MaxRequests
        BY <3>2
      <4>2. delayReqSeq' = delayReqSeq + 1
        BY <2>2, <3>2, <4>1, SmallRemainder DEF DrNumber
      <4> QED BY <2>2, <3>2, <4>1, <4>2 DEF DrNumber
    <3> QED BY <3>1, <3>2
  <2>3. ASSUME dr \in {"send", "record"}
        PROVE  /\ (delayReqSeq - 1) % SeqMod = delayReqSeq - 1
               /\ delayReqSeq - 1 \in 0 .. SeqMod - 1
    <3>1. delayReqSeq - 1 \in 0 .. SeqMod - 1 /\ SeqMod \in Nat \ {0}
      BY <2>3
    <3> QED BY <3>1, SmallRemainder
  <2>4. CASE DrSend
    <3>1. UNCHANGED <<delayReqSeq, waitingForDelayResp, t3, t4, stale>>
          /\ dr' \in {"record", "sleep"}
      BY <2>4 DEF DrSend
    <3>2. sent' = sent \/ sent' = sent \cup {delayReqSeq - 1}
      BY <2>3, <2>4 DEF DrSend
    <3>3. delayReqSeq > 0 /\ delayReqSeq - 1 \in Seqs /\ delayReqSeq - 1 < delayReqSeq
      BY <2>3, <2>4 DEF DrSend
    <3>4. sent' \subseteq Seqs /\ \A n \in sent' : n < delayReqSeq
      BY <3>2, <3>3
    <3> HIDE DEF Seqs
    <3> QED BY <3>1, <3>3, <3>4
  <2>5. CASE DrRecord
    BY <2>3, <2>5 DEF DrRecord
  <2> QED BY <1>6, <2>1, <2>2, <2>4, <2>5 DEF DrStep
<1>7. CASE UNCHANGED slaveVars BY <1>7 DEF slaveVars, delayVars, threadVars
<1> QED
  BY <1>1, <1>2, <1>3, <1>4, <1>5, <1>6, <1>7 DEF SlaveNext

LEMMA SlaveInvIsInvariant == SlaveSpec => []SlaveInv
<1>1. SlaveInv /\ [SlaveNext]_slaveVars => SlaveInv'
  BY ThreadsKept, MutexesKept, MastersKept, SyncKept, DelaysKept DEF SlaveInv
<1> QED
  BY <1>1, InitHolds, PTL DEF SlaveSpec

-----------------------------------------------------------------------------
\* The state of PTPSlave keeps its types, whatever the network delivers.
THEOREM SlaveTypes == SlaveSpec => []SlaveTypeOK
  BY SlaveInvIsInvariant, SlaveInvMeans, PTL

\* handleAnnounce has the best master announced since it last had none, for
\* every set of qualities.
THEOREM BestMaster == SlaveSpec => []MasterIsBest
  BY SlaveInvIsInvariant, SlaveInvMeans, PTL

\* calculateOffsetAndDelay never pairs the timestamps of two Syncs, for every
\* width of the sequence numbers.
THEOREM PairedTimestamps == SlaveSpec => []TimestampsPaired
  BY SlaveInvIsInvariant, SlaveInvMeans, PTL

\* handleDelayResp never takes the answer to a request of its own object, as
\* long as fewer requests are sent than there are numbers.
THEOREM OwnAnswersAreLost == SlaveSpec => []OwnAnswerNeverTaken
  BY SlaveInvIsInvariant, SlaveInvMeans, PTL

\* No mutex is held between two actions but by a thread that relocks it.
THEOREM MutexesAreReleased == SlaveSpec => []HeldOnlyByRelock
  BY SlaveInvIsInvariant, SlaveInvMeans, PTL

(***************************************************************************)
(* SAPListener                                                              *)
(***************************************************************************)

\* The announcement in hand is one, and is in the list's history before the
\* callbacks get it.
PacketInHand ==
  /\ lPc \in {"store", "notify"} => packet \in Announcements
  /\ lPc = "notify" => packet \in heard

SapInv == SapTypeOK /\ ListedOnceAsHeard /\ MissingOnlyWhenFull /\ PacketInHand

LEMMA ListUnchanged ==
  ASSUME SapInv, UNCHANGED <<discovered, heard>>, notified' \in {notified, packet},
         notified' = packet /\ notified' # notified => packet \in heard
  PROVE  ListedOnceAsHeard' /\ MissingOnlyWhenFull'
BY DEF SapInv, ListedOnceAsHeard, MissingOnlyWhenFull, Known, SameSession

\* A new session at the end of the list.
LEMMA StoreAppends ==
  ASSUME NEW a \in Announcements, discovered \in Seq(Announcements),
         ListedOnceAsHeard, MissingOnlyWhenFull, ~Known(a),
         Len(discovered) # MaxDiscovered, Len(discovered) <= MaxDiscovered,
         discovered' = Append(discovered, a), heard' = heard \cup {a}, notified' = notified
  PROVE  /\ discovered' \in Seq(Announcements) /\ Len(discovered') <= MaxDiscovered
         /\ ListedOnceAsHeard' /\ MissingOnlyWhenFull'
<1>0. Len(discovered) \in Nat /\ DOMAIN discovered = 1 .. Len(discovered)
  BY LenProperties
<1>1. /\ discovered' \in Seq(Announcements) /\ Len(discovered') = Len(discovered) + 1
      /\ \A i \in 1 .. Len(discovered) : discovered'[i] = discovered[i]
      /\ discovered'[Len(discovered) + 1] = a
  BY AppendProperties
<1>2. DOMAIN discovered' = 1 .. Len(discovered) + 1
  BY <1>1, LenProperties
<1>3. \A i \in 1 .. Len(discovered) : discovered[i].session # a.session
  BY <1>0 DEF Known, SameSession
<1>4. ListedOnceAsHeard'
  <2>1. \A i, j \in DOMAIN discovered' : SameSession(discovered'[i], discovered'[j]) => i = j
    BY <1>0, <1>1, <1>2, <1>3 DEF ListedOnceAsHeard, SameSession
  <2>2. \A i \in DOMAIN discovered' : discovered'[i] \in heard'
    BY <1>0, <1>1, <1>2 DEF ListedOnceAsHeard
  <2> QED BY <2>1, <2>2 DEF ListedOnceAsHeard, SameSession
<1>5. MissingOnlyWhenFull'
  <2> SUFFICES ASSUME NEW b \in heard'
               PROVE  \E i \in DOMAIN discovered' : discovered'[i].session = b.session
    BY DEF MissingOnlyWhenFull, Known, SameSession
  <2>1. CASE b = a
    BY <1>0, <1>1, <1>2, <2>1
  <2>2. CASE b \in heard
    <3>1. PICK i \in DOMAIN discovered : discovered[i].session = b.session
      BY <2>2 DEF MissingOnlyWhenFull, Known, SameSession
    <3> QED BY <1>0, <1>1, <1>2, <3>1
  <2> QED BY <2>1, <2>2
<1>6. Len(discovered') <= MaxDiscovered
  BY <1>0, <1>1, SAPAssumption
<1> QED BY <1>1, <1>4, <1>5, <1>6

\* A full list makes room for a new session at its front.
LEMMA StoreReplaces ==
  ASSUME NEW a \in Announcements, discovered \in Seq(Announcements),
         ListedOnceAsHeard, ~Known(a), Len(discovered) = MaxDiscovered,
         discovered' = Append(Tail(discovered), a), heard' = heard \cup {a}, notified' = notified
  PROVE  /\ discovered' \in Seq(Announcements) /\ Len(discovered') = MaxDiscovered
         /\ ListedOnceAsHeard' /\ MissingOnlyWhenFull'
<1>0. Len(discovered) \in Nat \ {0} /\ DOMAIN discovered = 1 .. Len(discovered)
  BY LenProperties, SAPAssumption
<1>1. discovered # <<>>
  BY <1>0, EmptySeq
<1>2. /\ Tail(discovered) \in Seq(Announcements) /\ Len(Tail(discovered)) = Len(discovered) - 1
      /\ \A i \in 1 .. Len(discovered) - 1 : Tail(discovered)[i] = discovered[i + 1]
  BY <1>1, HeadTailProperties
<1>3. /\ discovered' \in Seq(Announcements) /\ Len(discovered') = Len(discovered)
      /\ \A i \in 1 .. Len(discovered) - 1 : discovered'[i] = Tail(discovered)[i]
      /\ discovered'[Len(discovered)] = a
  <2>1. Len(Tail(discovered)) + 1 = Len(discovered)
    BY <1>0, <1>2
  <2> QED BY <1>2, <2>1, AppendProperties
<1>4. DOMAIN discovered' = 1 .. Len(discovered)
  BY <1>3, LenProperties
<1>5. \A i \in 1 .. Len(discovered) : discovered[i].session # a.session
  BY <1>0 DEF Known, SameSession
<1>6. \A i \in 1 .. Len(discovered) - 1 : discovered'[i] = discovered[i + 1]
  BY <1>2, <1>3
<1>7. ListedOnceAsHeard'
  <2>1. \A i, j \in DOMAIN discovered' : SameSession(discovered'[i], discovered'[j]) => i = j
    <3> SUFFICES ASSUME NEW i \in 1 .. Len(discovered), NEW j \in 1 .. Len(discovered),
                        discovered'[i].session = discovered'[j].session
                 PROVE  i = j
      BY <1>4 DEF SameSession
    <3>1. CASE i = Len(discovered) \/ j = Len(discovered)
      <4>1. \A k \in 1 .. Len(discovered) - 1 : discovered'[k].session # a.session
        BY <1>0, <1>5, <1>6
      <4> QED BY <1>0, <1>3, <3>1, <4>1
    <3>2. CASE i # Len(discovered) /\ j # Len(discovered)
      BY <1>0, <1>6, <3>2 DEF ListedOnceAsHeard, SameSession
    <3> QED BY <3>1, <3>2
  <2>2. \A i \in DOMAIN discovered' : discovered'[i] \in heard'
    BY <1>0, <1>3, <1>4, <1>6 DEF ListedOnceAsHeard
  <2> QED BY <2>1, <2>2 DEF ListedOnceAsHeard, SameSession
<1>8. MissingOnlyWhenFull'
  BY <1>3 DEF MissingOnlyWhenFull
<1> QED BY <1>3, <1>7, <1>8

LEMMA StoreKeeps ==
  ASSUME SapInv, Store
  PROVE  SapInv'
<1>1. packet \in Announcements /\ discovered \in Seq(Announcements)
      /\ Len(discovered) <= MaxDiscovered
  BY DEF SapInv, PacketInHand, SapTypeOK, Store
<1>2. heard' = heard \cup {packet} /\ notified' = notified /\ packet' = packet
  BY DEF Store
<1> DEFINE List == /\ discovered' \in Seq(Announcements) /\ Len(discovered') <= MaxDiscovered
                   /\ ListedOnceAsHeard' /\ MissingOnlyWhenFull'
<1>3. CASE Known(packet)
  <2>1. discovered' = discovered
    BY <1>3 DEF Store
  <2> QED BY <1>1, <1>2, <1>3, <2>1
          DEF SapInv, ListedOnceAsHeard, MissingOnlyWhenFull, Known, SameSession, Store,
              SapTypeOK, PacketInHand
<1>4. CASE ~Known(packet)
  <2>1. ASSUME Len(discovered) = MaxDiscovered PROVE List
    <3>1. discovered' = Append(Tail(discovered), packet)
      BY <1>4, <2>1 DEF Store
    <3> QED BY <1>1, <1>2, <1>4, <2>1, <3>1, StoreReplaces, SAPAssumption DEF SapInv
  <2>2. ASSUME Len(discovered) # MaxDiscovered PROVE List
    <3>1. discovered' = Append(discovered, packet)
      BY <1>4, <2>2 DEF Store
    <3> QED BY <1>1, <1>2, <1>4, <2>2, <3>1, StoreAppends DEF SapInv
  <2>3. List
    BY <2>1, <2>2
  <2> QED BY <1>1, <1>2, <2>3 DEF SapInv, SapTypeOK, PacketInHand, Store
<1> QED BY <1>3, <1>4

LEMMA InitSap == SapInit => SapInv
<1> SUFFICES ASSUME SapInit PROVE SapInv
  OBVIOUS
<1>1. discovered \in Seq(Announcements) /\ Len(discovered) = 0
  BY EmptySeq DEF SapInit
<1>2. DOMAIN discovered = {}
  BY <1>1, LenProperties
<1>3. ListedOnceAsHeard /\ MissingOnlyWhenFull /\ PacketInHand
  BY <1>2 DEF SapInit, ListedOnceAsHeard, MissingOnlyWhenFull, PacketInHand
<1>4. SapTypeOK
  <2>1. Len(discovered) <= MaxDiscovered
    BY <1>1, SAPAssumption
  <2>2. packet = Nothing /\ sock = "none" /\ sapRunning = FALSE /\ lPc = "off" /\ sapCtl = "idle"
    BY DEF SapInit
  <2> QED BY <1>1, <2>1, <2>2 DEF SapTypeOK
<1> QED BY <1>3, <1>4 DEF SapInv

LEMMA NextSap == SapInv /\ [SapNext]_sapVars => SapInv'
<1> SUFFICES ASSUME SapInv, [SapNext]_sapVars PROVE SapInv'
  OBVIOUS
<1>1. ASSUME UNCHANGED <<discovered, heard, notified, packet>>,
             sapRunning' \in BOOLEAN, sock' \in {"none", "open", "stale"},
             lPc' \in {lPc, "off", "recv"}, sapCtl' \in {"idle", "join"}
      PROVE  SapInv'
  BY <1>1, ListUnchanged DEF SapInv, SapTypeOK, PacketInHand
<1>2. CASE Initialize \/ StartListening \/ StopListening \/ JoinListener
  BY <1>1, <1>2 DEF Initialize, StartListening, StopListening, JoinListener, SapInv, SapTypeOK
<1>3. ASSUME NEW h \in SapHeaders, NEW t \in SapTexts, NEW s \in SapSources,
             ReceiveAnnouncement(h, t, s)
      PROVE  SapInv'
  <2>1. packet' \in Announcements
    BY <1>3 DEF ReceiveAnnouncement, Announcements
  <2>2. ListedOnceAsHeard' /\ MissingOnlyWhenFull'
    BY <1>3, ListUnchanged DEF ReceiveAnnouncement
  <2> QED BY <1>3, <2>1, <2>2 DEF ReceiveAnnouncement, SapInv, SapTypeOK, PacketInHand
<1>4. CASE ReceiveNothing
  BY <1>1, <1>4 DEF ReceiveNothing, Loop, SapInv, SapTypeOK
<1>5. CASE Store
  BY <1>5, StoreKeeps
<1>6. CASE Notify
  <2>1. ListedOnceAsHeard' /\ MissingOnlyWhenFull'
    BY <1>6, ListUnchanged DEF Notify, SapInv, PacketInHand
  <2> QED BY <1>6, <2>1 DEF Notify, Loop, SapInv, SapTypeOK, PacketInHand
<1>7. CASE UNCHANGED sapVars
  BY <1>1, <1>7 DEF sapVars, SapInv, SapTypeOK
<1> QED BY <1>2, <1>3, <1>4, <1>5, <1>6, <1>7 DEF SapNext, ListenerStep

\* The listener's list has each session it heard of once, in words that were
\* announced, loses none while it has room, and callbacks hear of a session
\* after the list does: for any headers, texts, senders and limit
\* (SAPListener.cpp 107-160).
THEOREM DiscoverySafe == SapSpec => []SapSafe
<1>1. SapInv => SapSafe
  BY DEF SapInv, SapSafe
<1> QED BY InitSap, NextSap, <1>1, PTL DEF SapSpec

(***************************************************************************)
(* NonBlockingLogger                                                        *)
(***************************************************************************)

Members(s) == {s[i] : i \in 1 .. Len(s)}
EntriesMade == 1 .. entryCount

LEMMA MembersEmpty == Members(<<>>) = {} /\ Len(<<>>) = 0
BY DEF Members

LEMMA MembersAppend ==
  ASSUME NEW S, NEW s \in Seq(S), NEW e \in S
  PROVE  Members(Append(s, e)) = Members(s) \cup {e}
<1>1. /\ Len(s) \in Nat /\ Len(Append(s, e)) = Len(s) + 1
      /\ \A i \in 1 .. Len(s) : Append(s, e)[i] = s[i]
      /\ Append(s, e)[Len(s) + 1] = e
  BY AppendProperties, LenProperties
<1>2. Members(s) \cup {e} \subseteq Members(Append(s, e))
  BY <1>1 DEF Members
<1>3. ASSUME NEW i \in 1 .. Len(s) + 1 PROVE Append(s, e)[i] \in Members(s) \cup {e}
  BY <1>1 DEF Members
<1>4. Members(Append(s, e)) \subseteq Members(s) \cup {e}
  BY <1>1, <1>3 DEF Members
<1> QED BY <1>2, <1>4

LEMMA MembersTail ==
  ASSUME NEW S, NEW s \in Seq(S), s # <<>>
  PROVE  Members(s) = {Head(s)} \cup Members(Tail(s))
<1>1. /\ Len(s) \in Nat \ {0} /\ Len(Tail(s)) = Len(s) - 1 /\ Head(s) = s[1]
      /\ \A i \in 1 .. Len(s) - 1 : Tail(s)[i] = s[i + 1]
  BY HeadTailProperties, EmptySeq
<1>2. {Head(s)} \cup Members(Tail(s)) \subseteq Members(s)
  BY <1>1 DEF Members
<1>3. ASSUME NEW i \in 1 .. Len(s) PROVE s[i] \in {Head(s)} \cup Members(Tail(s))
  <2>1. CASE i = 1
    BY <1>1, <2>1
  <2>2. CASE i # 1
    <3>1. i - 1 \in 1 .. Len(Tail(s)) /\ Tail(s)[i - 1] = s[i]
      BY <1>1, <2>2
    <3> QED BY <3>1 DEF Members
  <2> QED BY <2>1, <2>2
<1> QED BY <1>2, <1>3 DEF Members

LEMMA MembersConcat ==
  ASSUME NEW S, NEW s \in Seq(S), NEW t \in Seq(S)
  PROVE  Members(s) \cup Members(t) \subseteq Members(s \o t)
<1>1. /\ Len(s) \in Nat /\ Len(t) \in Nat /\ Len(s \o t) = Len(s) + Len(t)
      /\ \A i \in 1 .. Len(s) + Len(t) :
           (s \o t)[i] = IF i <= Len(s) THEN s[i] ELSE t[i - Len(s)]
  BY ConcatProperties, LenProperties
<1>2. ASSUME NEW i \in 1 .. Len(s) PROVE s[i] \in Members(s \o t)
  <2>1. i \in 1 .. Len(s \o t) /\ (s \o t)[i] = s[i]
    BY <1>1
  <2> QED BY <2>1 DEF Members
<1>3. ASSUME NEW i \in 1 .. Len(t) PROVE t[i] \in Members(s \o t)
  <2>1. Len(s) + i \in 1 .. Len(s \o t) /\ (s \o t)[Len(s) + i] = t[i]
    BY <1>1
  <2> QED BY <2>1 DEF Members
<1> QED BY <1>2, <1>3 DEF Members

\* The four places an entry can be in, together, hold each entry once: as many
\* entries as were made, and each of them.
PartsTyped ==
  /\ logFile \in Seq(EntriesMade) /\ writerBatch \in Seq(EntriesMade)
  /\ flushBatch \in Seq(EntriesMade) /\ logQueue \in Seq(EntriesMade)
  /\ entryCount \in 0 .. MaxEntries

PartsComplete ==
  /\ Len(logFile) + Len(writerBatch) + Len(flushBatch) + Len(logQueue) = entryCount
  /\ EntriesMade \subseteq
       Members(logFile) \cup Members(writerBatch) \cup Members(flushBatch) \cup Members(logQueue)

\* Who may hold entries when.
BatchesMatch ==
  /\ writerPc \in {"loop", "flush", "ended"} => writerBatch = <<>>
  /\ flushPc \in {"none", "closed"} => flushBatch = <<>>
  /\ shouldStop /\ flushPc # "none" => writerPc = "ended" /\ logQueue = <<>>
  /\ flushPc = "closed" => shouldStop
  /\ ~foreignFlush /\ flushPc # "none" => shouldStop

LogFlags ==
  /\ minLogLevel \in Levels /\ shouldStop \in BOOLEAN /\ foreignFlush \in BOOLEAN
  /\ writerPc \in {"loop", "write", "flush", "last", "ended"}
  /\ flushPc \in {"none", "write", "closed"}

\* Without a flush() from outside the four parts in a row are 1, 2, 3 ...
PartsInOrder ==
  ~foreignFlush =>
    /\ \A i \in 1 .. Len(logFile) : logFile[i] = i
    /\ \A i \in 1 .. Len(writerBatch) : writerBatch[i] = Len(logFile) + i
    /\ \A i \in 1 .. Len(flushBatch) : flushBatch[i] = Len(logFile) + Len(writerBatch) + i
    /\ \A i \in 1 .. Len(logQueue) :
         logQueue[i] = Len(logFile) + Len(writerBatch) + Len(flushBatch) + i

LogInv == LogFlags /\ PartsTyped /\ PartsComplete /\ BatchesMatch /\ PartsInOrder

LEMMA PartLengths ==
  PartsTyped => /\ Len(logFile) \in Nat /\ Len(writerBatch) \in Nat
                /\ Len(flushBatch) \in Nat /\ Len(logQueue) \in Nat
BY LenProperties DEF PartsTyped

\* log() puts the next number at the end of the queue.
LEMMA LogKeeps ==
  ASSUME LogInv, NEW level \in Levels, Log(level)
  PROVE  LogInv'
<1>1. PartsTyped /\ PartsComplete /\ entryCount \in Nat /\ entryCount' = entryCount + 1
      /\ entryCount' \in 0 .. MaxEntries /\ logQueue' = Append(logQueue, entryCount + 1)
      /\ UNCHANGED <<logFile, writerBatch, flushBatch>>
  BY LoggerAssumption DEF LogInv, PartsTyped, Log
<1>2. EntriesMade' = EntriesMade \cup {entryCount + 1} /\ EntriesMade \subseteq EntriesMade'
  BY <1>1 DEF EntriesMade
<1>3. logQueue \in Seq(EntriesMade') /\ logFile \in Seq(EntriesMade')
      /\ writerBatch \in Seq(EntriesMade') /\ flushBatch \in Seq(EntriesMade')
  BY <1>1, <1>2, SeqMonotonic DEF PartsTyped
<1>4. /\ logQueue' \in Seq(EntriesMade') /\ Len(logQueue') = Len(logQueue) + 1
      /\ \A i \in 1 .. Len(logQueue) : logQueue'[i] = logQueue[i]
      /\ logQueue'[Len(logQueue) + 1] = entryCount + 1
  <2>1. logQueue \in Seq(EntriesMade') /\ entryCount + 1 \in EntriesMade'
    BY <1>2, <1>3
  <2>2. logQueue' = Append(logQueue, entryCount + 1)
    BY <1>1
  <2> QED BY <2>1, <2>2, AppendProperties
<1>5. Members(logQueue') = Members(logQueue) \cup {entryCount + 1}
  <2>1. logQueue \in Seq(EntriesMade') /\ entryCount + 1 \in EntriesMade'
    BY <1>2, <1>3
  <2>2. logQueue' = Append(logQueue, entryCount + 1)
    BY <1>1
  <2> QED BY <2>1, <2>2, MembersAppend
<1>6. PartsTyped'
  <2>1. logFile' = logFile /\ writerBatch' = writerBatch /\ flushBatch' = flushBatch
    BY <1>1
  <2>2. logQueue' \in Seq(EntriesMade')
    BY <1>4
  <2>3. entryCount' \in 0 .. MaxEntries
    BY <1>1
  <2> HIDE <1>1, <1>4
  <2> QED BY <1>3, <2>1, <2>2, <2>3 DEF PartsTyped
<1>7. PartsComplete'
  <2>1. /\ Len(logFile') = Len(logFile) /\ Len(writerBatch') = Len(writerBatch)
        /\ Len(flushBatch') = Len(flushBatch) /\ Len(logQueue') = Len(logQueue) + 1
    BY <1>1, <1>4
  <2>2. Len(logFile') + Len(writerBatch') + Len(flushBatch') + Len(logQueue') = entryCount'
    BY <1>1, <2>1, PartLengths DEF PartsComplete
  <2>3. EntriesMade' \subseteq Members(logFile') \cup Members(writerBatch')
                                \cup Members(flushBatch') \cup Members(logQueue')
    BY <1>1, <1>2, <1>5 DEF PartsComplete
  <2> QED BY <2>2, <2>3 DEF PartsComplete
<1>8. PartsInOrder'
  <2> SUFFICES ASSUME ~foreignFlush PROVE PartsInOrder'
    BY DEF PartsInOrder, Log
  <2>1. PartsInOrder /\ foreignFlush' = foreignFlush
    BY DEF LogInv, Log
  <2>2. ASSUME NEW i \in 1 .. Len(logQueue')
        PROVE  logQueue'[i] = Len(logFile) + Len(writerBatch) + Len(flushBatch) + i
    <3>1. CASE i \in 1 .. Len(logQueue)
      BY <1>4, <2>1, <3>1 DEF PartsInOrder
    <3>2. CASE i = Len(logQueue) + 1
      BY <1>1, <1>4, <3>2, PartLengths DEF PartsComplete
    <3> QED BY <1>1, <1>4, <2>2, <3>1, <3>2, PartLengths
  <2> QED BY <1>1, <2>1, <2>2 DEF PartsInOrder
<1>9. LogFlags' /\ BatchesMatch'
  BY DEF LogInv, LogFlags, BatchesMatch, Log
<1> QED BY <1>6, <1>7, <1>8, <1>9 DEF LogInv

\* A swap moves the queue as a whole into an empty batch.
LEMMA SwapToWriter ==
  ASSUME LogInv, writerBatch = <<>>, writerPc # "ended",
         writerBatch' = logQueue, logQueue' = <<>>,
         UNCHANGED <<logFile, flushBatch, entryCount, foreignFlush, flushPc>>
  PROVE  PartsTyped' /\ PartsComplete' /\ PartsInOrder'
<1>1. PartsTyped /\ EntriesMade' = EntriesMade /\ <<>> \in Seq(EntriesMade)
  BY EmptySeq DEF LogInv, EntriesMade
<1>2. PartsTyped'
  BY <1>1 DEF PartsTyped
<1>3. PartsComplete'
  BY <1>1, PartLengths, MembersEmpty DEF LogInv, PartsComplete
<1>4. PartsInOrder'
  <2> SUFFICES ASSUME ~foreignFlush PROVE PartsInOrder'
    BY DEF PartsInOrder
  <2>1. flushBatch = <<>>
    BY DEF LogInv, BatchesMatch, LogFlags
  <2> QED BY <1>1, <2>1, PartLengths, MembersEmpty DEF LogInv, PartsInOrder
<1> QED BY <1>2, <1>3, <1>4

LEMMA SwapToFlush ==
  ASSUME LogInv, FlushSwap
  PROVE  LogInv'
<1>1. PartsTyped /\ EntriesMade' = EntriesMade /\ <<>> \in Seq(EntriesMade)
  BY EmptySeq DEF LogInv, EntriesMade, FlushSwap
<1>2. flushBatch = <<>> /\ flushBatch' = logQueue /\ logQueue' = <<>>
      /\ UNCHANGED <<logFile, writerBatch, entryCount>>
  BY DEF LogInv, BatchesMatch, FlushSwap
<1>3. PartsTyped'
  BY <1>1, <1>2 DEF PartsTyped
<1>4. PartsComplete'
  BY <1>1, <1>2, PartLengths, MembersEmpty DEF LogInv, PartsComplete
<1>5. PartsInOrder'
  <2> SUFFICES ASSUME ~foreignFlush' PROVE PartsInOrder'
    BY DEF PartsInOrder
  <2>1. ~foreignFlush
    BY DEF FlushSwap
  <2> QED BY <1>1, <1>2, <2>1, PartLengths, MembersEmpty DEF LogInv, PartsInOrder
<1>6. LogFlags' /\ BatchesMatch'
  BY <1>2 DEF LogInv, LogFlags, BatchesMatch, FlushSwap
<1> QED BY <1>3, <1>4, <1>5, <1>6 DEF LogInv

\* Writing the head of a batch moves one entry into the file.
LEMMA HeadMoves ==
  ASSUME PartsTyped, NEW batch \in Seq(EntriesMade), batch # <<>>,
         logFile' = Append(logFile, Head(batch)), entryCount' = entryCount
  PROVE  /\ logFile' \in Seq(EntriesMade') /\ Len(logFile') = Len(logFile) + 1
         /\ Members(logFile') = Members(logFile) \cup {Head(batch)}
         /\ \A i \in 1 .. Len(logFile) : logFile'[i] = logFile[i]
         /\ logFile'[Len(logFile) + 1] = batch[1]
         /\ Tail(batch) \in Seq(EntriesMade') /\ Len(Tail(batch)) = Len(batch) - 1
         /\ \A i \in 1 .. Len(batch) - 1 : Tail(batch)[i] = batch[i + 1]
         /\ Members(batch) = {Head(batch)} \cup Members(Tail(batch))
         /\ Len(batch) \in Nat \ {0} /\ EntriesMade' = EntriesMade
<1>1. EntriesMade' = EntriesMade
  BY DEF EntriesMade
<1>2. /\ Head(batch) \in EntriesMade /\ Tail(batch) \in Seq(EntriesMade)
      /\ Len(Tail(batch)) = Len(batch) - 1
      /\ \A i \in 1 .. Len(batch) - 1 : Tail(batch)[i] = batch[i + 1]
      /\ Len(batch) \in Nat \ {0} /\ Head(batch) = batch[1]
  BY HeadTailProperties, EmptySeq
<1>3. logFile \in Seq(EntriesMade)
  BY DEF PartsTyped
<1>4. /\ logFile' \in Seq(EntriesMade) /\ Len(logFile') = Len(logFile) + 1
      /\ \A i \in 1 .. Len(logFile) : logFile'[i] = logFile[i]
      /\ logFile'[Len(logFile) + 1] = batch[1]
  BY <1>2, <1>3, AppendProperties
<1>5. /\ Members(logFile') = Members(logFile) \cup {Head(batch)}
      /\ Members(batch) = {Head(batch)} \cup Members(Tail(batch))
  BY <1>2, <1>3, MembersAppend, MembersTail
<1> QED BY <1>1, <1>2, <1>4, <1>5

LEMMA WriterWriteKeeps ==
  ASSUME LogInv, WriterWrite
  PROVE  LogInv'
<1>1. PartsTyped /\ PartsComplete
  BY DEF LogInv
<1>2. CASE writerBatch = <<>>
  BY <1>1, <1>2 DEF WriterWrite, LogInv, LogFlags, PartsTyped, PartsComplete, BatchesMatch, PartsInOrder,
     EntriesMade
<1>3. CASE writerBatch # <<>>
  <2>1. /\ logFile' = Append(logFile, Head(writerBatch)) /\ writerBatch' = Tail(writerBatch)
        /\ UNCHANGED <<writerPc, logQueue, minLogLevel, shouldStop, flushPc, flushBatch,
                       entryCount, foreignFlush>>
        /\ writerPc \in {"write", "last"}
    BY <1>3 DEF WriterWrite
  <2>2. writerBatch \in Seq(EntriesMade)
    BY <1>1 DEF PartsTyped
  <2>3. /\ logFile' \in Seq(EntriesMade') /\ Len(logFile') = Len(logFile) + 1
        /\ Members(logFile') = Members(logFile) \cup {Head(writerBatch)}
        /\ \A i \in 1 .. Len(logFile) : logFile'[i] = logFile[i]
        /\ logFile'[Len(logFile) + 1] = writerBatch[1]
        /\ writerBatch' \in Seq(EntriesMade') /\ Len(writerBatch') = Len(writerBatch) - 1
        /\ \A i \in 1 .. Len(writerBatch) - 1 : writerBatch'[i] = writerBatch[i + 1]
        /\ Members(writerBatch) = {Head(writerBatch)} \cup Members(writerBatch')
        /\ Len(writerBatch) \in Nat \ {0} /\ EntriesMade' = EntriesMade
    BY <1>1, <1>3, <2>1, <2>2, HeadMoves
  <2>4. PartsTyped'
    BY <1>1, <2>1, <2>3 DEF PartsTyped
  <2>5. PartsComplete'
    <3>1. Len(logFile') + Len(writerBatch') = Len(logFile) + Len(writerBatch)
      BY <1>1, <2>3, PartLengths
    <3>2. Members(logFile') \cup Members(writerBatch') = Members(logFile) \cup Members(writerBatch)
      BY <2>3
    <3>3. Len(logFile') + Len(writerBatch') + Len(flushBatch') + Len(logQueue') = entryCount'
      BY <1>1, <2>1, <3>1, PartLengths DEF PartsComplete
    <3> QED BY <1>1, <2>1, <2>3, <3>2, <3>3 DEF PartsComplete
  <2>6. PartsInOrder'
    <3> SUFFICES ASSUME ~foreignFlush PROVE PartsInOrder'
      BY <2>1 DEF PartsInOrder
    <3>1. Len(logFile') + Len(writerBatch') = Len(logFile) + Len(writerBatch)
      BY <1>1, <2>3, PartLengths
    <3>2. writerBatch[1] = Len(logFile) + 1
      BY <2>3 DEF LogInv, PartsInOrder
    <3>3. ASSUME NEW i \in 1 .. Len(logFile') PROVE logFile'[i] = i
      <4>1. CASE i \in 1 .. Len(logFile)
        BY <2>3, <4>1 DEF LogInv, PartsInOrder
      <4>2. CASE i = Len(logFile) + 1
        BY <2>3, <3>2, <4>2
      <4> QED BY <1>1, <2>3, <3>3, <4>1, <4>2, PartLengths
    <3>4. \A i \in 1 .. Len(writerBatch') : writerBatch'[i] = Len(logFile') + i
      BY <1>1, <2>3, PartLengths DEF LogInv, PartsInOrder
    <3> QED BY <2>1, <3>1, <3>3, <3>4 DEF LogInv, PartsInOrder
  <2>7. LogFlags' /\ BatchesMatch'
    BY <2>1 DEF LogInv, LogFlags, BatchesMatch
  <2> QED BY <2>4, <2>5, <2>6, <2>7 DEF LogInv
<1> QED BY <1>2, <1>3

LEMMA FlushWriteKeeps ==
  ASSUME LogInv, FlushWrite
  PROVE  LogInv'
<1>1. PartsTyped /\ PartsComplete
  BY DEF LogInv
<1>2. CASE flushBatch = <<>>
  BY <1>1, <1>2 DEF FlushWrite, LogInv, LogFlags, PartsTyped, PartsComplete, BatchesMatch, PartsInOrder,
     EntriesMade
<1>3. CASE flushBatch # <<>>
  <2>1. /\ logFile' = Append(logFile, Head(flushBatch)) /\ flushBatch' = Tail(flushBatch)
        /\ UNCHANGED <<writerPc, logQueue, minLogLevel, shouldStop, flushPc, writerBatch,
                       entryCount, foreignFlush>>
        /\ flushPc = "write"
    BY <1>3 DEF FlushWrite
  <2>2. flushBatch \in Seq(EntriesMade)
    BY <1>1 DEF PartsTyped
  <2>3. /\ logFile' \in Seq(EntriesMade') /\ Len(logFile') = Len(logFile) + 1
        /\ Members(logFile') = Members(logFile) \cup {Head(flushBatch)}
        /\ \A i \in 1 .. Len(logFile) : logFile'[i] = logFile[i]
        /\ logFile'[Len(logFile) + 1] = flushBatch[1]
        /\ flushBatch' \in Seq(EntriesMade') /\ Len(flushBatch') = Len(flushBatch) - 1
        /\ \A i \in 1 .. Len(flushBatch) - 1 : flushBatch'[i] = flushBatch[i + 1]
        /\ Members(flushBatch) = {Head(flushBatch)} \cup Members(flushBatch')
        /\ Len(flushBatch) \in Nat \ {0} /\ EntriesMade' = EntriesMade
    BY <1>1, <1>3, <2>1, <2>2, HeadMoves
  <2>4. PartsTyped'
    BY <1>1, <2>1, <2>3 DEF PartsTyped
  <2>5. PartsComplete'
    <3>1. Len(logFile') + Len(flushBatch') = Len(logFile) + Len(flushBatch)
      BY <1>1, <2>3, PartLengths
    <3>2. Members(logFile') \cup Members(flushBatch') = Members(logFile) \cup Members(flushBatch)
      BY <2>3
    <3>3. Len(logFile') + Len(writerBatch') + Len(flushBatch') + Len(logQueue') = entryCount'
      BY <1>1, <2>1, <2>3, <3>1, PartLengths DEF PartsComplete
    <3> QED BY <1>1, <2>1, <2>3, <3>2, <3>3 DEF PartsComplete
  <2>6. PartsInOrder'
    <3> SUFFICES ASSUME ~foreignFlush PROVE PartsInOrder'
      BY <2>1 DEF PartsInOrder
    <3>0. writerBatch = <<>> /\ Len(writerBatch) = 0
      BY <2>1, MembersEmpty DEF LogInv, BatchesMatch
    <3>1. Len(logFile') + Len(flushBatch') = Len(logFile) + Len(flushBatch)
      BY <1>1, <2>3, PartLengths
    <3>2. flushBatch[1] = Len(logFile) + 1
      BY <1>1, <2>3, <3>0, PartLengths DEF LogInv, PartsInOrder
    <3>3. ASSUME NEW i \in 1 .. Len(logFile') PROVE logFile'[i] = i
      <4>1. CASE i \in 1 .. Len(logFile)
        BY <2>3, <4>1 DEF LogInv, PartsInOrder
      <4>2. CASE i = Len(logFile) + 1
        BY <2>3, <3>2, <4>2
      <4> QED BY <1>1, <2>3, <3>3, <4>1, <4>2, PartLengths
    <3>4. \A i \in 1 .. Len(flushBatch') : flushBatch'[i] = Len(logFile') + i
      BY <1>1, <2>3, <3>0, PartLengths DEF LogInv, PartsInOrder
    <3>5. \A i \in 1 .. Len(logQueue') : logQueue'[i] = Len(logFile') + Len(flushBatch') + i
      <4>1. \A i \in 1 .. Len(logQueue) : logQueue[i] = Len(logFile) + Len(flushBatch) + i
        BY <1>1, <3>0, PartLengths DEF LogInv, PartsInOrder
      <4> QED BY <2>1, <3>1, <4>1
    <3> QED BY <1>1, <2>1, <2>3, <3>0, <3>3, <3>4, <3>5, PartLengths DEF PartsInOrder
  <2>7. LogFlags' /\ BatchesMatch'
    BY <2>1 DEF LogInv, LogFlags, BatchesMatch
  <2> QED BY <2>4, <2>5, <2>6, <2>7 DEF LogInv
<1> QED BY <1>2, <1>3

LEMMA InitLog == LogInit => LogInv
<1> SUFFICES ASSUME LogInit PROVE LogInv
  OBVIOUS
<1>1. EntriesMade = {} /\ <<>> \in Seq(EntriesMade)
  BY EmptySeq DEF LogInit, EntriesMade
<1>2. PartsTyped
  BY <1>1, LoggerAssumption DEF LogInit, PartsTyped
<1>3. PartsComplete /\ PartsInOrder
  BY <1>1, MembersEmpty DEF LogInit, PartsComplete, PartsInOrder
<1>4. LogFlags /\ BatchesMatch
  BY DEF LogInit, LogFlags, BatchesMatch
<1> QED BY <1>2, <1>3, <1>4 DEF LogInv

LEMMA NextLog == LogInv /\ [LogNext]_logVars => LogInv'
<1> SUFFICES ASSUME LogInv, [LogNext]_logVars PROVE LogInv'
  OBVIOUS
<1>0. ASSUME UNCHANGED <<logFile, writerBatch, flushBatch, logQueue, entryCount, foreignFlush>>
      PROVE  PartsTyped' /\ PartsComplete' /\ PartsInOrder'
  BY <1>0 DEF LogInv, PartsTyped, PartsComplete, PartsInOrder, EntriesMade
<1>1. ASSUME NEW level \in Levels, SetLogLevel(level) PROVE LogInv'
  <2>1. LogFlags' /\ BatchesMatch'
    BY <1>1 DEF SetLogLevel, LogInv, LogFlags, BatchesMatch
  <2> QED BY <1>0, <1>1, <2>1 DEF SetLogLevel, LogInv
<1>2. CASE WriterRound
  <2>1. CASE shouldStop
    <3>1. LogFlags' /\ BatchesMatch'
      BY <1>2, <2>1 DEF WriterRound, LogInv, LogFlags, BatchesMatch
    <3> QED BY <1>0, <1>2, <2>1, <3>1 DEF WriterRound, LogInv
  <2>2. CASE ~shouldStop
    <3>1. LogFlags' /\ BatchesMatch' /\ writerBatch = <<>>
      BY <1>2, <2>2 DEF WriterRound, LogInv, LogFlags, BatchesMatch
    <3> QED BY <1>2, <2>2, <3>1, SwapToWriter DEF WriterRound, LogInv
  <2> QED BY <2>1, <2>2
<1>3. CASE WriterFlush
  <2>1. LogFlags' /\ BatchesMatch' /\ writerBatch = <<>>
    BY <1>3 DEF WriterFlush, LogInv, LogFlags, BatchesMatch
  <2> QED BY <1>3, <2>1, SwapToWriter DEF WriterFlush, LogInv
<1>4. CASE Destroy
  <2>1. LogFlags' /\ BatchesMatch'
    BY <1>4 DEF Destroy, LogInv, LogFlags, BatchesMatch
  <2> QED BY <1>0, <1>4, <2>1 DEF Destroy, LogInv
<1>5. CASE UNCHANGED logVars
  <2>1. LogFlags' /\ BatchesMatch'
    BY <1>5 DEF logVars, LogInv, LogFlags, BatchesMatch
  <2> QED BY <1>0, <1>5, <2>1 DEF logVars, LogInv
<1> QED BY <1>1, <1>2, <1>3, <1>4, <1>5, LogKeeps, WriterWriteKeeps, SwapToFlush, FlushWriteKeeps
        DEF LogNext, WriterStep

\* Between log(), flush(), the writer thread and the file no entry is lost or
\* doubled, the closed file holds all of them, and without a flush() from
\* outside they keep their order: for any number of entries
\* (NonBlockingLogger.cpp 25-143).
THEOREM LoggerSafe == LogSpec => []LogSafe
<1>1. LogInv => LogSafe
  <2> SUFFICES ASSUME LogInv PROVE LogSafe
    OBVIOUS
  <2>1. PartsTyped /\ PartsComplete /\ LogFlags
    BY DEF LogInv
  <2> DEFINE first == logFile \o writerBatch
             second == first \o flushBatch
  <2>2. /\ first \in Seq(EntriesMade) /\ Len(first) = Len(logFile) + Len(writerBatch)
        /\ Members(logFile) \cup Members(writerBatch) \subseteq Members(first)
    BY <2>1, ConcatProperties, MembersConcat DEF PartsTyped
  <2>3. /\ second \in Seq(EntriesMade) /\ Len(second) = Len(first) + Len(flushBatch)
        /\ Members(first) \cup Members(flushBatch) \subseteq Members(second)
    <3> HIDE DEF first
    <3> QED BY <2>1, <2>2, ConcatProperties, MembersConcat DEF PartsTyped
  <2>4. Everything = second \o logQueue
    BY DEF Everything
  <2>5. /\ Everything \in Seq(EntriesMade) /\ Len(Everything) = Len(second) + Len(logQueue)
        /\ Members(second) \cup Members(logQueue) \subseteq Members(Everything)
    <3> HIDE DEF second
    <3> QED BY <2>1, <2>3, <2>4, ConcatProperties, MembersConcat DEF PartsTyped
  <2> HIDE DEF first, second
  <2>6. Everything \in Seq(1 .. MaxEntries)
    <3>1. EntriesMade \subseteq 1 .. MaxEntries
      BY <2>1, LoggerAssumption DEF PartsTyped, EntriesMade
    <3> QED BY <2>5, <3>1, SeqMonotonic
  <2>7. Len(Everything) = entryCount
    BY <2>1, <2>2, <2>3, <2>5, PartLengths DEF PartsComplete
  <2>8. EntriesMade \subseteq Members(Everything)
    BY <2>1, <2>2, <2>3, <2>5 DEF PartsComplete
  <2>9. DOMAIN Everything = 1 .. Len(Everything)
    BY <2>5, LenProperties
  <2>10. flushPc = "closed" => Len(logFile) = entryCount
    BY <2>1, PartLengths, MembersEmpty DEF LogInv, BatchesMatch, PartsComplete
  <2>11. EveryEntryOnce
    BY <2>7, <2>8, <2>9, <2>10 DEF EveryEntryOnce, EntriesMade, Members
  <2>12. OrderOfOneWriter
    <3>1. DOMAIN logFile = 1 .. Len(logFile)
      BY <2>1, LenProperties DEF PartsTyped
    <3> QED BY <3>1 DEF LogInv, PartsInOrder, OrderOfOneWriter, InOrder
  <2>13. LogTypeOK
    BY <2>1, <2>6 DEF LogTypeOK, LogFlags
  <2> QED BY <2>11, <2>12, <2>13 DEF LogSafe
<1> QED BY InitLog, NextLog, <1>1, PTL DEF LogSpec

(***************************************************************************)
(* ChannelPath: the rings between a network thread and the IO thread.  A      *)
(* producer writes the channels first .. first + n - 1.                       *)
(***************************************************************************)

\* Queue q holds increasing frames below top; an exact one holds the last ones
\* before top, every one of them.
HoldsFrames(q, top, exact) ==
  /\ \A i \in 1 .. Len(q) : q[i] < top
  /\ \A i \in 1 .. Len(q) - 1 : q[i] < q[i + 1]
  /\ exact => \A i \in 1 .. Len(q) : q[i] = top - Len(q) + i - 1

\* A batch, or the beginning of one, after what was produced before it.
LEMMA BatchJoins ==
  ASSUME NEW q \in Seq(0 .. MaxFrame), NEW f \in Nat, f + WriteFrames <= MaxFrame,
         NEW n \in 0 .. WriteFrames, NEW exact \in BOOLEAN, NEW still \in BOOLEAN,
         still => exact /\ n = WriteFrames, HoldsFrames(q, f, exact)
  PROVE  LET r == q \o [i \in 1 .. n |-> f + i - 1]
         IN  /\ r \in Seq(0 .. MaxFrame) /\ Len(r) = Len(q) + n
             /\ HoldsFrames(r, f + WriteFrames, still)
<1> DEFINE b == [i \in 1 .. n |-> f + i - 1]
           r == q \o b
<1>1. b \in Seq(0 .. MaxFrame) /\ Len(b) = n
  BY ChannelPathAssumption
<1>2. \A i \in 1 .. n : b[i] = f + i - 1
  OBVIOUS
<1> HIDE DEF b
<1>3. /\ r \in Seq(0 .. MaxFrame) /\ Len(r) = Len(q) + n
      /\ \A i \in 1 .. Len(q) + n : r[i] = IF i <= Len(q) THEN q[i] ELSE b[i - Len(q)]
  BY <1>1, ConcatProperties
<1>4. Len(q) \in Nat /\ \A i \in 1 .. Len(q) : q[i] \in Int
  <2>1. \A i \in 1 .. Len(q) : q[i] \in 0 .. MaxFrame
    BY ElementOfSeq
  <2> QED BY <2>1, LenProperties, ChannelPathAssumption
<1> HIDE DEF r
<1>5. \A i \in 1 .. Len(q) : r[i] = q[i]
  BY <1>3, <1>4
<1>6. \A i \in Len(q) + 1 .. Len(q) + n : r[i] = f + (i - Len(q)) - 1
  <2> SUFFICES ASSUME NEW i \in Len(q) + 1 .. Len(q) + n PROVE r[i] = f + (i - Len(q)) - 1
    OBVIOUS
  <2>1. i - Len(q) \in 1 .. n /\ i \in 1 .. Len(q) + n /\ ~(i <= Len(q))
    BY <1>4
  <2> QED BY <1>2, <1>3, <2>1
<1>7. ASSUME NEW i \in 1 .. Len(r) PROVE r[i] < f + WriteFrames
  <2>1. CASE i \in 1 .. Len(q)
    BY <1>4, <1>5, <2>1, ChannelPathAssumption DEF HoldsFrames
  <2>2. CASE i \in Len(q) + 1 .. Len(q) + n
    BY <1>4, <1>6, <2>2, ChannelPathAssumption
  <2> QED BY <1>3, <1>4, <2>1, <2>2
<1>8. ASSUME NEW i \in 1 .. Len(r) - 1 PROVE r[i] < r[i + 1]
  <2>1. CASE i + 1 \in 1 .. Len(q)
    BY <1>4, <1>5, <2>1 DEF HoldsFrames
  <2>2. CASE i = Len(q) /\ n > 0
    <3>1. r[i] = q[i] /\ q[i] < f
      BY <1>4, <1>5, <1>8, <2>2 DEF HoldsFrames
    <3>2. i + 1 \in Len(q) + 1 .. Len(q) + n
      BY <1>4, <1>8, <2>2
    <3>3. r[i + 1] = f
      BY <1>4, <1>6, <2>2, <3>2
    <3> QED BY <3>1, <3>3
  <2>3. CASE i \in Len(q) + 1 .. Len(q) + n /\ i + 1 \in Len(q) + 1 .. Len(q) + n
    BY <1>4, <1>6, <2>3
  <2> QED BY <1>3, <1>4, <2>1, <2>2, <2>3
<1>9. ASSUME still, NEW i \in 1 .. Len(r) PROVE r[i] = f + WriteFrames - Len(r) + i - 1
  <2>1. n = WriteFrames /\ Len(r) = Len(q) + WriteFrames
    BY <1>3, <1>9
  <2>2. CASE i \in 1 .. Len(q)
    BY <1>4, <1>5, <1>9, <2>1, <2>2, ChannelPathAssumption DEF HoldsFrames
  <2>3. CASE i \in Len(q) + 1 .. Len(q) + n
    BY <1>4, <1>6, <2>1, <2>3, ChannelPathAssumption
  <2> QED BY <1>4, <1>9, <2>1, <2>2, <2>3
<1>10. HoldsFrames(r, f + WriteFrames, still)
  BY <1>7, <1>8, <1>9 DEF HoldsFrames
<1> QED BY <1>3, <1>10 DEF r, b

\* What stays when the oldest frames are taken.
LEMMA RestStays ==
  ASSUME NEW q \in Seq(0 .. MaxFrame), NEW top \in Int, NEW n \in 0 .. Len(q),
         NEW exact \in BOOLEAN, NEW still \in BOOLEAN, still => exact, HoldsFrames(q, top, exact)
  PROVE  LET r == SubSeq(q, n + 1, Len(q))
         IN  /\ r \in Seq(0 .. MaxFrame) /\ Len(r) = Len(q) - n
             /\ HoldsFrames(r, top, still)
<1> DEFINE r == SubSeq(q, n + 1, Len(q))
<1>1. Len(q) \in Nat /\ \A i \in 1 .. Len(q) : q[i] \in 0 .. MaxFrame
  BY LenProperties, ElementOfSeq
<1>2. /\ r \in Seq(0 .. MaxFrame)
      /\ Len(r) = IF n + 1 <= Len(q) THEN Len(q) - (n + 1) + 1 ELSE 0
      /\ \A i \in 1 .. Len(q) - (n + 1) + 1 : r[i] = q[(n + 1) + i - 1]
  BY <1>1, SubSeqProperties
<1> HIDE DEF r
<1>3. Len(r) = Len(q) - n
  BY <1>1, <1>2
<1>4. ASSUME NEW i \in 1 .. Len(r) PROVE i + n \in 1 .. Len(q) /\ r[i] = q[i + n]
  <2>1. i + n \in 1 .. Len(q) /\ i \in 1 .. Len(q) - (n + 1) + 1 /\ (n + 1) + i - 1 = i + n
    BY <1>1, <1>3
  <2> QED BY <1>2, <2>1
<1>5. \A i \in 1 .. Len(r) : r[i] < top
  BY <1>4 DEF HoldsFrames
<1>6. ASSUME NEW i \in 1 .. Len(r) - 1 PROVE r[i] < r[i + 1]
  <2>1. i + n \in 1 .. Len(q) - 1 /\ r[i] = q[i + n] /\ r[i + 1] = q[i + 1 + n]
    BY <1>1, <1>3, <1>4
  <2> QED BY <2>1 DEF HoldsFrames
<1>7. ASSUME still, NEW i \in 1 .. Len(r) PROVE r[i] = top - Len(r) + i - 1
  <2>1. q[i + n] = top - Len(q) + (i + n) - 1
    BY <1>4, <1>7 DEF HoldsFrames
  <2> QED BY <1>1, <1>3, <1>4, <2>1
<1>8. HoldsFrames(r, top, still)
  BY <1>5, <1>6, <1>7 DEF HoldsFrames
<1> QED BY <1>2, <1>3, <1>8 DEF r

\* How far the producer of channels first .. first + n - 1 has got in channel c.
Produced(first, n, c) ==
  IF c \in first .. first + n - 1
  THEN frame + (IF wChan > c - first THEN WriteFrames ELSE 0)
  ELSE 0

PathExtras(n) ==
  /\ wShort \in BOOLEAN /\ rShort \in BOOLEAN
  /\ audio \in Seq([1 .. ReadFrames -> Int])
  /\ wChan <= n
  /\ wChan >= 0 => frame + WriteFrames <= MaxFrame

RingsHold(first, n) ==
  \A c \in Device : HoldsFrames(ring[c], Produced(first, n, c), clean[c])

PathInv(first, n) == PathTypeOK /\ PathExtras(n) /\ RingsHold(first, n)

\* The next frame of channel c when the consumer's call under way began, for a
\* consumer that begins with channel rfirst.
Position(first, n, rfirst, c) ==
  Produced(first, n, c) - Len(ring[c]) - (IF rChan > c - rfirst THEN ReadFrames ELSE 0)

BatchFrom(position) == [k \in 1 .. ReadFrames |-> position + k - 1]

\* The channels a consumer reads stand at the same frame while they are clean,
\* and what the call has read so far begins there.
ReadInStep(first, n, rfirst, rn) ==
  /\ rChan <= rn
  /\ rChan >= 0 => Len(audio) = rChan
  /\ \A c, d \in rfirst .. rfirst + rn - 1 :
       clean[c] /\ clean[d] => Position(first, n, rfirst, c) = Position(first, n, rfirst, d)
  /\ \A i \in 1 .. rChan :
       clean[rfirst + i - 1] =>
         audio[i] = BatchFrom(Position(first, n, rfirst, rfirst + i - 1))

LEMMA ProducedIsInt ==
  ASSUME NEW first \in Nat, NEW n \in Nat, frame \in 0 .. MaxFrame, wChan \in -1 .. DeviceChannels,
         NEW c \in Device
  PROVE  Produced(first, n, c) \in Int
BY ChannelPathAssumption DEF Produced, Device

LEMMA PathStarts ==
  ASSUME PathInit, NEW first \in Nat, NEW n \in Nat
  PROVE  /\ PathInv(first, n)
         /\ \A rfirst, rn \in Nat :
              rfirst + rn <= DeviceChannels => ReadInStep(first, n, rfirst, rn)
<1>1. \A c \in Device : Produced(first, n, c) = 0 /\ ring[c] = <<>> /\ Len(ring[c]) = 0
  BY ChannelPathAssumption DEF PathInit, Produced, Device
<1>2. <<>> \in Seq(0 .. MaxFrame) /\ <<>> \in Seq([1 .. ReadFrames -> Int])
  BY EmptySeq
<1>3. PathTypeOK
  BY <1>1, <1>2, ChannelPathAssumption DEF PathInit, PathTypeOK
<1>4. PathExtras(n)
  <2>1. wShort \in BOOLEAN /\ rShort \in BOOLEAN
    BY DEF PathInit
  <2> QED BY <1>2, <2>1 DEF PathInit, PathExtras
<1>5. RingsHold(first, n)
  BY <1>1 DEF RingsHold, HoldsFrames
<1>6. ASSUME NEW rfirst \in Nat, NEW rn \in Nat, rfirst + rn <= DeviceChannels
      PROVE  ReadInStep(first, n, rfirst, rn)
  <2>1. rChan = -1
    BY DEF PathInit
  <2>2. ASSUME NEW c \in rfirst .. rfirst + rn - 1 PROVE Position(first, n, rfirst, c) = 0
    <3>1. c \in Device /\ c - rfirst >= 0
      BY <1>6, ChannelPathAssumption DEF Device
    <3> QED BY <1>1, <2>1, <3>1 DEF Position
  <2> QED BY <2>1, <2>2 DEF ReadInStep
<1> QED BY <1>3, <1>4, <1>5, <1>6 DEF PathInv

LEMMA FewerOfBoth ==
  \A a, b \in Nat : Fewer(a, b) \in 0 .. a /\ Fewer(a, b) <= b
BY DEF Fewer

\* A producer's step keeps what the rings hold, and where clean channels stand.
LEMMA WriteKeeps ==
  ASSUME NEW first \in Nat, NEW n \in Nat, first + n <= DeviceChannels, PathInv(first, n),
         BeginWrite \/ WriteNext(first, n) \/ EndWrite(n)
  PROVE  /\ PathInv(first, n)' /\ UNCHANGED <<rChan, audio>>
         /\ \A c \in Device : clean'[c] =>
              /\ clean[c]
              /\ Produced(first, n, c)' - Len(ring'[c]) = Produced(first, n, c) - Len(ring[c])
<1> USE ChannelPathAssumption
<1>1. PathTypeOK /\ PathExtras(n) /\ RingsHold(first, n)
  BY DEF PathInv
<1>2. /\ UNCHANGED <<rChan, audio, rShort, underruns>>
      /\ rShort' \in BOOLEAN /\ audio' \in Seq([1 .. ReadFrames -> Int])
  BY <1>1 DEF BeginWrite, WriteNext, EndWrite, consumerVars, PathExtras
<1>3. ASSUME UNCHANGED <<ring, clean>>, \A c \in Device : Produced(first, n, c)' = Produced(first, n, c)
      PROVE  RingsHold(first, n)'
  BY <1>1, <1>3 DEF RingsHold
<1>4. CASE BeginWrite
  <2>1. \A c \in Device : Produced(first, n, c)' = Produced(first, n, c)
    BY <1>1, <1>4 DEF Produced, BeginWrite, PathTypeOK, Device
  <2>2. PathTypeOK' /\ PathExtras(n)'
    <3>1. wShort' \in BOOLEAN
      BY <1>4 DEF BeginWrite
    <3>2. PathTypeOK'
      BY <1>1, <1>2, <1>4 DEF BeginWrite, PathTypeOK
    <3> QED BY <1>1, <1>2, <1>4, <3>1, <3>2 DEF BeginWrite, PathExtras
  <2>3. UNCHANGED <<ring, clean>>
    BY <1>4 DEF BeginWrite
  <2> QED BY <1>2, <1>3, <2>1, <2>2, <2>3 DEF PathInv
<1>5. CASE EndWrite(n)
  <2>1. \A c \in Device : Produced(first, n, c)' = Produced(first, n, c)
    BY <1>1, <1>5 DEF Produced, EndWrite, PathTypeOK, Device
  <2>2. PathTypeOK' /\ PathExtras(n)'
    BY <1>1, <1>2, <1>5 DEF EndWrite, PathTypeOK, PathExtras
  <2>3. UNCHANGED <<ring, clean>>
    BY <1>5 DEF EndWrite
  <2> QED BY <1>2, <1>3, <2>1, <2>2, <2>3 DEF PathInv
<1>6. CASE WriteNext(first, n)
  <2> DEFINE c0 == first + wChan
             w  == Fewer(WriteFrames, RingCapacity - Len(ring[c0]))
             q  == ring[c0] \o [i \in 1 .. w |-> frame + i - 1]
             ok == clean[c0] /\ ~(w < WriteFrames)
  <2>1. /\ wChan \in Nat /\ wChan < n /\ wChan' = wChan + 1 /\ frame' = frame
        /\ ring' = [ring EXCEPT ![c0] = q] /\ clean' = [clean EXCEPT ![c0] = ok]
        /\ wShort' = (wShort \/ w < WriteFrames) /\ overruns' \in {1, overruns}
        /\ c0 \in Device /\ frame \in Nat /\ frame + WriteFrames <= MaxFrame
    BY <1>1, <1>6 DEF WriteNext, WriteChannel, PathTypeOK, PathExtras, Device
  <2>2. /\ ring[c0] \in Seq(0 .. MaxFrame) /\ Len(ring[c0]) \in 0 .. RingCapacity
        /\ clean[c0] \in BOOLEAN /\ ring \in [Device -> Seq(0 .. MaxFrame)]
        /\ clean \in [Device -> BOOLEAN]
    BY <1>1, <2>1, LenProperties DEF PathTypeOK
  <2>3. ASSUME NEW c \in Device
        PROVE  /\ c = c0 => Produced(first, n, c) = frame
               /\ Produced(first, n, c)' = IF c = c0 THEN frame + WriteFrames ELSE Produced(first, n, c)
    BY <2>1 DEF Produced, Device
  <2>4. w \in 0 .. WriteFrames /\ w <= RingCapacity - Len(ring[c0])
    <3>1. RingCapacity - Len(ring[c0]) \in Nat
      BY <2>2
    <3> QED BY <3>1, FewerOfBoth
  <2> HIDE DEF w
  <2>5. ok \in BOOLEAN /\ (ok => clean[c0] /\ w = WriteFrames)
    BY <2>2, <2>4
  <2> HIDE DEF ok
  <2>6. HoldsFrames(ring[c0], frame, clean[c0])
    BY <1>1, <2>1, <2>3 DEF RingsHold
  <2>7. q \in Seq(0 .. MaxFrame) /\ Len(q) = Len(ring[c0]) + w
        /\ HoldsFrames(q, frame + WriteFrames, ok)
    BY <2>1, <2>2, <2>4, <2>5, <2>6, BatchJoins
  <2> HIDE DEF q, c0
  <2>8. /\ ring'[c0] = q /\ clean'[c0] = ok
        /\ \A c \in Device : c # c0 => ring'[c] = ring[c] /\ clean'[c] = clean[c]
    BY <2>1, <2>2
  <2>9. RingsHold(first, n)'
    <3> SUFFICES ASSUME NEW c \in Device PROVE HoldsFrames(ring'[c], Produced(first, n, c)', clean'[c])
      BY DEF RingsHold
    <3>1. CASE c = c0
      BY <2>3, <2>7, <2>8, <3>1
    <3>2. CASE c # c0
      BY <1>1, <2>3, <2>8, <3>2 DEF RingsHold
    <3> QED BY <3>1, <3>2
  <2>10. PathTypeOK'
    <3>1. ring' \in [Device -> Seq(0 .. MaxFrame)] /\ clean' \in [Device -> BOOLEAN]
      BY <2>1, <2>2, <2>5, <2>7
    <3>2. \A c \in Device : Len(ring'[c]) <= RingCapacity
      <4>1. Len(q) <= RingCapacity
        BY <2>2, <2>4, <2>7
      <4> QED BY <1>1, <2>8, <4>1 DEF PathTypeOK
    <3> QED BY <1>1, <1>2, <2>1, <3>1, <3>2 DEF PathTypeOK
  <2>11. PathExtras(n)'
    BY <1>1, <1>2, <2>1 DEF PathExtras
  <2>12. ASSUME NEW c \in Device, clean'[c]
         PROVE  /\ clean[c]
                /\ Produced(first, n, c)' - Len(ring'[c]) = Produced(first, n, c) - Len(ring[c])
    <3>1. CASE c = c0
      <4>1. ok
        BY <2>8, <2>12, <3>1
      <4>2. clean[c0] /\ w = WriteFrames
        BY <2>5, <4>1
      <4>3. Produced(first, n, c)' = frame + WriteFrames /\ Produced(first, n, c) = frame
            /\ Len(ring'[c]) = Len(ring[c]) + WriteFrames /\ Len(ring[c]) \in Int
        <5>1. ring'[c] = q /\ ring[c] = ring[c0]
          BY <2>8, <3>1
        <5>2. Len(q) = Len(ring[c0]) + WriteFrames /\ Len(ring[c0]) \in Int
          BY <2>2, <2>7, <4>2
        <5> QED BY <2>3, <3>1, <5>1, <5>2
      <4>4. frame \in Int /\ WriteFrames \in Int
        BY <2>1
      <4> QED BY <3>1, <4>2, <4>3, <4>4
    <3>2. CASE c # c0
      BY <2>3, <2>8, <2>12, <3>2
    <3> QED BY <3>1, <3>2
  <2> QED BY <1>2, <2>9, <2>10, <2>11, <2>12 DEF PathInv
<1> QED BY <1>4, <1>5, <1>6

\* So the producer does not disturb a call of the consumer.
LEMMA WriteKeepsStep ==
  ASSUME NEW first \in Nat, NEW n \in Nat, NEW rfirst \in Nat, NEW rn \in Nat,
         rfirst + rn <= DeviceChannels, rChan \in Int, UNCHANGED <<rChan, audio>>,
         \A c \in Device : clean'[c] =>
              /\ clean[c]
              /\ Produced(first, n, c)' - Len(ring'[c]) = Produced(first, n, c) - Len(ring[c]),
         ReadInStep(first, n, rfirst, rn)
  PROVE  ReadInStep(first, n, rfirst, rn)'
<1>1. ASSUME NEW c \in rfirst .. rfirst + rn - 1, clean'[c]
      PROVE  clean[c] /\ Position(first, n, rfirst, c)' = Position(first, n, rfirst, c)
  <2>1. c \in Device
    BY ChannelPathAssumption DEF Device
  <2> QED BY <1>1, <2>1 DEF Position
<1>2. \A i \in 1 .. rChan : rChan <= rn => rfirst + i - 1 \in rfirst .. rfirst + rn - 1
  OBVIOUS
<1> QED BY <1>1, <1>2 DEF ReadInStep

\* A consumer's step keeps what the rings hold, and takes from each clean
\* channel the frames the call began with.
LEMMA ReadKeeps ==
  ASSUME NEW first \in Nat, NEW n \in Nat, NEW rfirst \in Nat, NEW rn \in Nat,
         rfirst + rn <= DeviceChannels, PathInv(first, n), ReadNext(rfirst, rn)
  PROVE  /\ PathInv(first, n)'
         /\ ReadInStep(first, n, rfirst, rn) => ReadInStep(first, n, rfirst, rn)'
<1> USE ChannelPathAssumption
<1>1. PathTypeOK /\ PathExtras(n) /\ RingsHold(first, n)
  BY DEF PathInv
<1> DEFINE c0    == rfirst + rChan
           w     == Fewer(ReadFrames, Len(ring[c0]))
           q     == SubSeq(ring[c0], w + 1, Len(ring[c0]))
           batch == [i \in 1 .. ReadFrames |-> IF i <= w THEN ring[c0][i] ELSE NoSample]
           ok    == clean[c0] /\ ~(w < ReadFrames)
<1>2. /\ rChan \in Nat /\ rChan < rn /\ rChan' = rChan + 1 /\ c0 \in Device
      /\ ring' = [ring EXCEPT ![c0] = q] /\ clean' = [clean EXCEPT ![c0] = ok]
      /\ audio' = Append(audio, batch)
      /\ rShort' = (rShort \/ w < ReadFrames) /\ underruns' \in {1, underruns}
      /\ UNCHANGED <<frame, wChan, wShort, overruns>>
  BY <1>1 DEF ReadNext, PathTypeOK, Device, producerVars
<1>3. /\ ring[c0] \in Seq(0 .. MaxFrame) /\ Len(ring[c0]) \in 0 .. RingCapacity
      /\ clean[c0] \in BOOLEAN /\ ring \in [Device -> Seq(0 .. MaxFrame)]
      /\ clean \in [Device -> BOOLEAN]
  BY <1>1, <1>2, LenProperties DEF PathTypeOK
<1>4. \A c \in Device : /\ Produced(first, n, c)' = Produced(first, n, c)
                        /\ Produced(first, n, c) \in Int /\ Len(ring[c]) \in Int
  BY <1>1, <1>2, ProducedIsInt, LenProperties DEF Produced, PathTypeOK
<1>5. w \in 0 .. Len(ring[c0]) /\ w <= ReadFrames
  <2>1. Len(ring[c0]) \in Nat
    BY <1>3
  <2>2. \A a, b \in Nat : Fewer(a, b) \in 0 .. b /\ Fewer(a, b) <= a
    BY DEF Fewer
  <2> QED BY <2>1, <2>2
<1> HIDE DEF w
<1>6. ok \in BOOLEAN /\ (ok => clean[c0] /\ w = ReadFrames)
  BY <1>3, <1>5
<1> HIDE DEF ok
<1>7. HoldsFrames(ring[c0], Produced(first, n, c0), clean[c0])
  BY <1>1, <1>2 DEF RingsHold
<1>8. q \in Seq(0 .. MaxFrame) /\ Len(q) = Len(ring[c0]) - w
      /\ HoldsFrames(q, Produced(first, n, c0), ok)
  <2>1. Produced(first, n, c0) \in Int
    BY <1>2, <1>4
  <2>2. PICK top \in Int : top = Produced(first, n, c0)
    BY <2>1
  <2>3. HoldsFrames(ring[c0], top, clean[c0])
    BY <1>7, <2>2
  <2> HIDE DEF c0
  <2>4. PICK s \in Seq(0 .. MaxFrame) : s = ring[c0]
    BY <1>3
  <2>5. w \in 0 .. Len(s) /\ HoldsFrames(s, top, clean[c0])
    BY <1>5, <2>3, <2>4
  <2>6. q = SubSeq(s, w + 1, Len(s))
    BY <2>4
  <2> HIDE DEF q
  <2>7. q \in Seq(0 .. MaxFrame) /\ Len(q) = Len(s) - w /\ HoldsFrames(q, top, ok)
    <3>1. PICK exact \in BOOLEAN : exact = clean[c0]
      BY <1>3
    <3>2. HoldsFrames(s, top, exact) /\ (ok => exact) /\ ok \in BOOLEAN
      BY <1>6, <2>5, <3>1
    <3>3. w \in 0 .. Len(s)
      BY <2>5
    <3> QED BY <2>6, <3>2, <3>3, RestStays
  <2> QED BY <2>2, <2>4, <2>7
<1> HIDE DEF q
<1>9. batch \in [1 .. ReadFrames -> Int]
  <2>1. \A i \in 1 .. ReadFrames : i <= w => ring[c0][i] \in Int
    <3>1. \A i \in 1 .. Len(ring[c0]) : ring[c0][i] \in 0 .. MaxFrame
      BY <1>3, ElementOfSeq
    <3> QED BY <1>3, <1>5, <3>1
  <2> QED BY <2>1 DEF NoSample
<1>10. audio' \in Seq([1 .. ReadFrames -> Int]) /\ Len(audio') = Len(audio) + 1
       /\ (\A i \in 1 .. Len(audio) : audio'[i] = audio[i]) /\ audio'[Len(audio) + 1] = batch
  BY <1>1, <1>2, <1>9, AppendProperties DEF PathExtras
<1>11. \A c \in Device : /\ ring'[c] = IF c = c0 THEN q ELSE ring[c]
                         /\ clean'[c] = IF c = c0 THEN ok ELSE clean[c]
  BY <1>2, <1>3
<1>12. RingsHold(first, n)'
  <2> SUFFICES ASSUME NEW c \in Device PROVE HoldsFrames(ring'[c], Produced(first, n, c)', clean'[c])
    BY DEF RingsHold
  <2>1. CASE c = c0
    BY <1>4, <1>8, <1>11, <2>1
  <2>2. CASE c # c0
    BY <1>1, <1>4, <1>11, <2>2 DEF RingsHold
  <2> QED BY <2>1, <2>2
<1>13. PathTypeOK'
  <2>1. ring' \in [Device -> Seq(0 .. MaxFrame)] /\ clean' \in [Device -> BOOLEAN]
    BY <1>2, <1>3, <1>6, <1>8
  <2>2. Len(q) <= RingCapacity
    BY <1>3, <1>5, <1>8
  <2>3. \A c \in Device : Len(ring'[c]) <= RingCapacity
    BY <1>1, <1>11, <2>2 DEF PathTypeOK
  <2> QED BY <1>1, <1>2, <2>1, <2>3 DEF PathTypeOK
<1>14. PathExtras(n)'
  <2>1. wShort' \in BOOLEAN /\ rShort' \in BOOLEAN
    BY <1>1, <1>2 DEF PathExtras
  <2> QED BY <1>1, <1>2, <1>10, <2>1 DEF PathExtras
<1>15. ASSUME ReadInStep(first, n, rfirst, rn) PROVE ReadInStep(first, n, rfirst, rn)'
  <2>1. /\ rfirst .. rfirst + rn - 1 \subseteq Device /\ Len(audio) = rChan
        /\ \A i \in 1 .. rChan + 1 : rfirst + i - 1 \in rfirst .. rfirst + rn - 1
        /\ rChan \in Int /\ ReadFrames \in Int
    <3>1. rfirst .. rfirst + rn - 1 \subseteq Device
      BY DEF Device
    <3>2. \A i \in 1 .. rChan + 1 : rfirst + i - 1 \in rfirst .. rfirst + rn - 1
      BY <1>2
    <3> QED BY <1>2, <1>15, <3>1, <3>2 DEF ReadInStep
  <2>2. ASSUME NEW c \in rfirst .. rfirst + rn - 1, clean'[c]
        PROVE  clean[c] /\ Position(first, n, rfirst, c)' = Position(first, n, rfirst, c)
    <3>1. c \in Device
      BY <2>1
    <3>2. CASE c = c0
      <4>1. ok
        BY <1>11, <2>2, <3>1, <3>2
      <4>2. clean[c0] /\ w = ReadFrames
        BY <1>6, <4>1
      <4>3. Len(ring'[c]) = Len(ring[c]) - ReadFrames
        BY <1>8, <1>11, <3>1, <3>2, <4>2
      <4>4. ~(rChan > c - rfirst) /\ rChan' > c - rfirst
        BY <1>2, <3>2
      <4>5. /\ Produced(first, n, c)' = Produced(first, n, c)
            /\ Produced(first, n, c) \in Int /\ Len(ring[c]) \in Int /\ ReadFrames \in Int
        BY <1>4, <2>1, <3>1
      <4>6. Position(first, n, rfirst, c)' =
              Produced(first, n, c) - (Len(ring[c]) - ReadFrames) - ReadFrames
        BY <4>3, <4>4, <4>5 DEF Position
      <4>7. Position(first, n, rfirst, c) = Produced(first, n, c) - Len(ring[c])
        BY <4>4, <4>5 DEF Position
      <4> QED BY <3>2, <4>2, <4>5, <4>6, <4>7
    <3>3. CASE c # c0
      <4>1. (rChan' > c - rfirst) <=> (rChan > c - rfirst)
        BY <1>2, <3>3
      <4>2. ring'[c] = ring[c] /\ clean'[c] = clean[c]
        BY <1>11, <3>1, <3>3
      <4> QED BY <1>4, <2>2, <3>1, <4>1, <4>2 DEF Position
    <3> QED BY <3>2, <3>3
  <2>3. ASSUME NEW i \in 1 .. rChan + 1, clean'[rfirst + i - 1]
        PROVE  audio'[i] = BatchFrom(Position(first, n, rfirst, rfirst + i - 1)')
    <3> DEFINE c == rfirst + i - 1
    <3>1. clean[c] /\ Position(first, n, rfirst, c)' = Position(first, n, rfirst, c)
      BY <2>1, <2>2, <2>3
    <3>2. CASE i \in 1 .. rChan
      <4>1. audio[i] = BatchFrom(Position(first, n, rfirst, c))
        BY <1>15, <3>1, <3>2 DEF ReadInStep
      <4> QED BY <1>10, <2>1, <3>1, <3>2, <4>1
    <3>3. CASE i = rChan + 1
      <4>1. c = c0
        BY <2>1, <3>3
      <4>2. ok
        BY <1>2, <1>11, <2>3, <4>1
      <4>3. clean[c0] /\ w = ReadFrames
        BY <1>6, <4>2
      <4>4. c \in Device /\ rChan = c - rfirst
        BY <2>1, <3>3
      <4>5. Position(first, n, rfirst, c) = Produced(first, n, c) - Len(ring[c])
        BY <1>4, <4>4 DEF Position
      <4>6. HoldsFrames(ring[c], Produced(first, n, c), clean[c])
        BY <1>1, <4>4 DEF RingsHold
      <4>7. \A k \in 1 .. ReadFrames : ring[c][k] = Position(first, n, rfirst, c) + k - 1
        <5>1. ring[c] = ring[c0] /\ clean[c] = clean[c0]
          BY <4>1
        <5> QED BY <1>3, <1>4, <1>5, <4>3, <4>4, <4>5, <4>6, <5>1 DEF HoldsFrames
      <4>8. batch = BatchFrom(Position(first, n, rfirst, c))
        BY <4>1, <4>3, <4>7 DEF BatchFrom
      <4>9. audio'[i] = batch
        BY <1>10, <2>1, <3>3
      <4> HIDE DEF batch
      <4> QED BY <3>1, <4>8, <4>9
    <3>4. i \in 1 .. rChan \/ i = rChan + 1
      BY <2>1
    <3> QED BY <3>2, <3>3, <3>4
  <2>4. rChan' <= rn /\ Len(audio') = rChan'
    BY <1>2, <1>10, <2>1
  <2>5. \A i \in 1 .. rChan' :
          clean'[rfirst + i - 1] => audio'[i] = BatchFrom(Position(first, n, rfirst, rfirst + i - 1)')
    BY <1>2, <2>3
  <2>6. \A c, d \in rfirst .. rfirst + rn - 1 :
          clean[c] /\ clean[d] => Position(first, n, rfirst, c) = Position(first, n, rfirst, d)
    BY <1>15 DEF ReadInStep
  <2>7. \A c, d \in rfirst .. rfirst + rn - 1 :
          clean'[c] /\ clean'[d] => Position(first, n, rfirst, c)' = Position(first, n, rfirst, d)'
    BY <2>2, <2>6
  <2> QED BY <2>4, <2>5, <2>7 DEF ReadInStep
<1> QED BY <1>12, <1>13, <1>14, <1>15 DEF PathInv

\* The consumer's call begins and ends where the channels stand.
LEMMA CallBegins ==
  ASSUME NEW first \in Nat, NEW n \in Nat, NEW rfirst \in Nat, NEW rn \in Nat,
         rfirst + rn <= DeviceChannels, PathInv(first, n), BeginRead
  PROVE  /\ PathInv(first, n)'
         /\ ReadInStep(first, n, rfirst, rn) => ReadInStep(first, n, rfirst, rn)'
<1>1. /\ rChan = -1 /\ rChan' = 0 /\ rShort' = FALSE /\ audio' = <<>>
      /\ UNCHANGED <<ring, clean, underruns, frame, wChan, wShort, overruns>>
      /\ PathTypeOK /\ PathExtras(n) /\ RingsHold(first, n)
  BY DEF BeginRead, producerVars, PathInv
<1>2. \A c \in Int : Produced(first, n, c)' = Produced(first, n, c)
  BY <1>1 DEF Produced
<1>3. PathTypeOK' /\ PathExtras(n)'
  <2>1. rShort' \in BOOLEAN /\ audio' \in Seq([1 .. ReadFrames -> Int])
    BY <1>1, EmptySeq
  <2> QED BY <1>1, <2>1, ChannelPathAssumption DEF PathTypeOK, PathExtras
<1>4. RingsHold(first, n)'
  BY <1>1, <1>2 DEF RingsHold, Device
<1>5. ASSUME ReadInStep(first, n, rfirst, rn) PROVE ReadInStep(first, n, rfirst, rn)'
  <2>1. \A c \in rfirst .. rfirst + rn - 1 :
          Position(first, n, rfirst, c)' = Position(first, n, rfirst, c)
    BY <1>1, <1>2 DEF Position
  <2>2. Len(audio') = 0
    BY <1>1, EmptySeq
  <2> QED BY <1>1, <1>5, <2>1, <2>2 DEF ReadInStep
<1> QED BY <1>3, <1>4, <1>5 DEF PathInv

LEMMA CallEnds ==
  ASSUME NEW first \in Nat, NEW n \in Nat, NEW rfirst \in Nat, NEW rn \in Nat,
         rfirst + rn <= DeviceChannels, PathInv(first, n), rChan = rn, rChan' = -1,
         UNCHANGED <<ring, audio, clean, rShort, underruns, producerVars>>
  PROVE  /\ PathInv(first, n)'
         /\ ReadInStep(first, n, rfirst, rn) => ReadInStep(first, n, rfirst, rn)'
<1>1. /\ UNCHANGED <<ring, audio, clean, rShort, underruns, frame, wChan, wShort, overruns>>
      /\ PathTypeOK /\ PathExtras(n) /\ RingsHold(first, n)
  BY DEF producerVars, PathInv
<1>2. \A c \in Int : Produced(first, n, c)' = Produced(first, n, c)
  BY <1>1 DEF Produced
<1>3. PathTypeOK' /\ PathExtras(n)'
  BY <1>1, ChannelPathAssumption DEF PathTypeOK, PathExtras
<1>4. RingsHold(first, n)'
  BY <1>1, <1>2 DEF RingsHold, Device
<1>5. ASSUME ReadInStep(first, n, rfirst, rn) PROVE ReadInStep(first, n, rfirst, rn)'
  <2>1. ASSUME NEW c \in rfirst .. rfirst + rn - 1
        PROVE  Position(first, n, rfirst, c)' = Position(first, n, rfirst, c) + ReadFrames
    <3>1. c \in Device /\ Len(ring[c]) \in Int /\ Produced(first, n, c) \in Int
      BY <1>1, LenProperties, ProducedIsInt, ChannelPathAssumption DEF Device, PathTypeOK
    <3>2. rChan > c - rfirst /\ ~(rChan' > c - rfirst)
      OBVIOUS
    <3> QED BY <1>1, <1>2, <3>1, <3>2, ChannelPathAssumption DEF Position
  <2>2. \A c, d \in rfirst .. rfirst + rn - 1 :
          clean'[c] /\ clean'[d] => Position(first, n, rfirst, c)' = Position(first, n, rfirst, d)'
    BY <1>1, <1>5, <2>1 DEF ReadInStep
  <2> QED BY <2>2 DEF ReadInStep
<1> QED BY <1>3, <1>4, <1>5 DEF PathInv

LEMMA PathStays ==
  ASSUME NEW first \in Nat, NEW n \in Nat, NEW rfirst \in Nat, NEW rn \in Nat, UNCHANGED pathVars
  PROVE  /\ PathInv(first, n) => PathInv(first, n)'
         /\ ReadInStep(first, n, rfirst, rn) => ReadInStep(first, n, rfirst, rn)'
<1>1. UNCHANGED <<ring, frame, wChan, rChan, audio, clean, wShort, rShort, overruns, underruns>>
  BY DEF pathVars
<1>2. \A c \in Int : Produced(first, n, c)' = Produced(first, n, c)
  BY <1>1 DEF Produced
<1>3. \A c \in Int : Position(first, n, rfirst, c)' = Position(first, n, rfirst, c)
  BY <1>1, <1>2 DEF Position
<1>4. PathInv(first, n) => PathInv(first, n)'
  BY <1>1, <1>2 DEF PathInv, PathTypeOK, PathExtras, RingsHold, Device
<1>5. ReadInStep(first, n, rfirst, rn) => ReadInStep(first, n, rfirst, rn)'
  BY <1>1, <1>3 DEF ReadInStep
<1> QED BY <1>4, <1>5

\* Channels in step carry the same frames at the end of a call.
LEMMA InStepIsAligned ==
  ASSUME NEW first \in Nat, NEW n \in Nat, NEW rfirst \in Nat, NEW rn \in Nat,
         PathExtras(n), rChan = rn, ReadInStep(first, n, rfirst, rn)
  PROVE  AlignedWhileClean(rfirst)
<1>1. DOMAIN audio = 1 .. rn
  BY LenProperties DEF PathExtras, ReadInStep
<1> SUFFICES ASSUME NEW i \in 1 .. rn, NEW j \in 1 .. rn,
                    clean[rfirst + i - 1], clean[rfirst + j - 1]
             PROVE  audio[i] = audio[j]
  BY <1>1 DEF AlignedWhileClean
<1>2. rfirst + i - 1 \in rfirst .. rfirst + rn - 1 /\ rfirst + j - 1 \in rfirst .. rfirst + rn - 1
  OBVIOUS
<1>3. Position(first, n, rfirst, rfirst + i - 1) = Position(first, n, rfirst, rfirst + j - 1)
  BY <1>2 DEF ReadInStep
<1>4. /\ audio[i] = BatchFrom(Position(first, n, rfirst, rfirst + i - 1))
      /\ audio[j] = BatchFrom(Position(first, n, rfirst, rfirst + j - 1))
  BY DEF ReadInStep
<1> QED BY <1>3, <1>4

(***************************************************************************)
(* RTPTransmitter                                                           *)
(***************************************************************************)
TxOwnTyped ==
  /\ txRunning \in BOOLEAN /\ txSocket \in BOOLEAN /\ remapped \in BOOLEAN
  /\ txPc \in {"off", "sleep", "read"}
  /\ txCtl \in {"idle", "join", "joinRemap"}
  /\ remapTo \in Starts /\ start \in Starts /\ packets \in Nat

\* As long as the mapping stands, its channels are read in step.
MappingInStep ==
  \A s \in Starts : s = start /\ ~remapped => ReadInStep(0, DeviceChannels, s, StreamChannels)

TxInv ==
  /\ PathInv(0, DeviceChannels) /\ MappingInStep
  /\ TxOwnTyped /\ NumbersCountPackets /\ SocketCoversThread

LEMMA StartsInDevice ==
  /\ 0 \in Starts /\ 0 \in Nat /\ DeviceChannels \in Nat /\ StreamChannels \in Nat
  /\ \A s \in Starts : s \in Nat /\ s + StreamChannels <= DeviceChannels
BY ChannelPathAssumption, TxAssumption DEF Starts

LEMMA DivisionWithRest ==
  \A a \in Int, m \in Int : m > 0 => a = m * (a \div m) + (a % m)
BY Z3

LEMMA RestIsUnique ==
  ASSUME NEW m \in Nat \ {0}, NEW k \in Int, NEW r \in 0 .. m - 1
  PROVE  (m * k + r) % m = r
OBVIOUS

\* Reducing a sum or one of its terms first makes no difference.
LEMMA SumWraps ==
  ASSUME NEW a \in Nat, NEW b \in Nat, NEW m \in Nat \ {0}
  PROVE  ((a % m) + b) % m = (a + b) % m
<1>0. \A c \in Nat : \E k \in Int, x \in 0 .. m - 1 : c = m * k + x /\ c % m = x
  <2> TAKE c \in Nat
  <2>1. c % m \in 0 .. m - 1 /\ c \div m \in Int
    OBVIOUS
  <2>2. c = m * (c \div m) + (c % m)
    BY DivisionWithRest
  <2>3. PICK k \in Int, x \in 0 .. m - 1 : k = c \div m /\ x = c % m
    BY <2>1
  <2>4. c = m * k + x
    BY <2>2, <2>3
  <2> QED BY <2>3, <2>4
<1>1. PICK k \in Int, x \in 0 .. m - 1 : a = m * k + x /\ a % m = x
  BY <1>0
<1>2. PICK l \in Int, y \in 0 .. m - 1 : x + b = m * l + y /\ (x + b) % m = y
  <2>1. x + b \in Nat
    OBVIOUS
  <2> QED BY <1>0, <2>1
<1>3. a + b = m * (k + l) + y /\ k + l \in Int
  <2>1. m * (k + l) = m * k + m * l
    OBVIOUS
  <2> QED BY <1>1, <1>2, <2>1
<1>4. (m * (k + l) + y) % m = y
  BY <1>3, RestIsUnique
<1> QED BY <1>1, <1>2, <1>3, <1>4

LEMMA NumbersMoveOn ==
  ASSUME NumbersCountPackets, packets \in Nat, packets' = packets + 1,
         sequence' = (sequence + 1) % TxSeqMod, timestamp' = (timestamp + ReadFrames) % TxTimeMod
  PROVE  NumbersCountPackets'
<1>1. sequence' = (packets + 1) % TxSeqMod
  BY SumWraps, TxAssumption DEF NumbersCountPackets
<1>2. packets * ReadFrames \in Nat /\ (packets + 1) * ReadFrames = packets * ReadFrames + ReadFrames
  BY ChannelPathAssumption
<1>3. timestamp' = (packets * ReadFrames + ReadFrames) % TxTimeMod
  BY <1>2, SumWraps, TxAssumption, ChannelPathAssumption DEF NumbersCountPackets
<1> QED BY <1>1, <1>2, <1>3 DEF NumbersCountPackets

\* A step of the path that keeps its invariant keeps the transmitter's.
LEMMA PathStepKeeps ==
  ASSUME TxInv, PathInv(0, DeviceChannels)',
         UNCHANGED <<start, remapped>>,
         \A s \in Starts : s = start /\ ReadInStep(0, DeviceChannels, s, StreamChannels)
                             => ReadInStep(0, DeviceChannels, s, StreamChannels)',
         TxOwnTyped', NumbersCountPackets', SocketCoversThread'
  PROVE  TxInv'
<1>1. MappingInStep'
  BY DEF TxInv, MappingInStep
<1> QED BY <1>1 DEF TxInv

\* A step of the control thread leaves the rings and both loops alone.
LEMMA ControlKeeps ==
  ASSUME TxInv, UNCHANGED pathVars, start' = start \/ remapped', remapped => remapped',
         TxOwnTyped', NumbersCountPackets', SocketCoversThread'
  PROVE  TxInv'
<1>1. PathInv(0, DeviceChannels)'
  BY PathStays, StartsInDevice DEF TxInv
<1>2. ASSUME NEW s \in Starts, s = start', ~remapped'
      PROVE  ReadInStep(0, DeviceChannels, s, StreamChannels)'
  <2>1. ReadInStep(0, DeviceChannels, s, StreamChannels)
    BY <1>2 DEF TxInv, MappingInStep
  <2> QED BY <2>1, PathStays, StartsInDevice
<1>3. MappingInStep'
  BY <1>2 DEF MappingInStep
<1> QED BY <1>1, <1>3 DEF TxInv

LEMMA InitTx == TxInit => TxInv
<1> SUFFICES ASSUME TxInit PROVE TxInv
  OBVIOUS
<1>1. PathInit
  BY DEF TxInit
<1>2. PathInv(0, DeviceChannels) /\ MappingInStep
  BY <1>1, PathStarts, StartsInDevice DEF MappingInStep
<1>3. TxOwnTyped /\ SocketCoversThread
  BY StartsInDevice DEF TxInit, TxOwnTyped, SocketCoversThread
<1>4. NumbersCountPackets
  <2>1. 0 % TxSeqMod = 0 /\ 0 % TxTimeMod = 0 /\ 0 * ReadFrames = 0
    BY TxAssumption, ChannelPathAssumption
  <2> QED BY <2>1 DEF TxInit, NumbersCountPackets
<1> QED BY <1>2, <1>3, <1>4 DEF TxInv

LEMMA NextTx == TxInv /\ [TxNext]_txVars => TxInv'
<1> SUFFICES ASSUME TxInv, [TxNext]_txVars PROVE TxInv'
  OBVIOUS
<1>1. TxOwnTyped /\ NumbersCountPackets /\ SocketCoversThread /\ PathInv(0, DeviceChannels)
  BY DEF TxInv
<1>2. ASSUME Launch PROVE NumbersCountPackets' /\ SocketCoversThread'
  <2>1. 0 % TxSeqMod = 0 /\ 0 % TxTimeMod = 0 /\ 0 * ReadFrames = 0
    BY TxAssumption, ChannelPathAssumption
  <2> QED BY <1>2, <2>1 DEF Launch, NumbersCountPackets, SocketCoversThread
<1>3. ASSUME UNCHANGED <<sequence, timestamp, packets>> PROVE NumbersCountPackets'
  BY <1>1, <1>3 DEF NumbersCountPackets
<1>4. CASE TxStart
  <2>1. TxOwnTyped'
    BY <1>1, <1>4 DEF TxStart, Launch, TxOwnTyped
  <2> QED BY <1>2, <1>4, <2>1, ControlKeeps DEF TxStart
<1>5. CASE TxStop
  <2>1. TxOwnTyped' /\ SocketCoversThread'
    BY <1>1, <1>5 DEF TxStop, TxOwnTyped, SocketCoversThread
  <2> QED BY <1>3, <1>5, <2>1, ControlKeeps DEF TxStop
<1>6. CASE TxJoin
  <2>1. CASE txCtl = "joinRemap" /\ start' = remapTo /\ Launch
    <3>1. TxOwnTyped' /\ remapped'
      BY <1>1, <1>6, <2>1 DEF TxJoin, Launch, TxOwnTyped
    <3> QED BY <1>2, <1>6, <2>1, <3>1, ControlKeeps DEF TxJoin
  <2>2. CASE /\ txSocket' = FALSE
             /\ start' = IF txCtl = "joinRemap" THEN remapTo ELSE start
             /\ UNCHANGED <<txRunning, txPc, sequence, timestamp, packets>>
    <3>1. TxOwnTyped' /\ SocketCoversThread'
      BY <1>1, <1>6, <2>2 DEF TxJoin, TxOwnTyped, SocketCoversThread
    <3>2. (start' = start \/ remapped') /\ (remapped => remapped') /\ UNCHANGED pathVars
      BY <1>6, <2>2 DEF TxJoin
    <3> QED BY <1>3, <2>2, <3>1, <3>2, ControlKeeps
  <2> QED BY <1>6, <2>1, <2>2 DEF TxJoin
<1>7. ASSUME NEW s \in Starts, UpdateMapping(s) PROVE TxInv'
  <2>1. TxOwnTyped' /\ SocketCoversThread' /\ UNCHANGED <<sequence, timestamp, packets>>
    BY <1>1, <1>7 DEF UpdateMapping, TxOwnTyped, SocketCoversThread
  <2>2. (start' = start \/ remapped') /\ (remapped => remapped') /\ UNCHANGED pathVars
    BY <1>7 DEF UpdateMapping
  <2> QED BY <1>3, <2>1, <2>2, ControlKeeps
<1>8. CASE TxExit
  <2>1. TxOwnTyped' /\ SocketCoversThread'
    BY <1>1, <1>8 DEF TxExit, TxOwnTyped, SocketCoversThread
  <2> QED BY <1>3, <1>8, <2>1, ControlKeeps DEF TxExit
<1>9. CASE TxWake
  <2>1. TxOwnTyped' /\ SocketCoversThread' /\ UNCHANGED <<sequence, timestamp, packets, start, remapped>>
    BY <1>1, <1>9 DEF TxWake, TxOwnTyped, SocketCoversThread
  <2>2. BeginRead
    BY <1>9 DEF TxWake
  <2>3. PathInv(0, DeviceChannels)'
    BY <1>1, <2>2, CallBegins, StartsInDevice
  <2>4. \A s \in Starts : ReadInStep(0, DeviceChannels, s, StreamChannels)
                            => ReadInStep(0, DeviceChannels, s, StreamChannels)'
    BY <1>1, <2>2, CallBegins, StartsInDevice
  <2> QED BY <1>3, <2>1, <2>3, <2>4, PathStepKeeps
<1>10. CASE TxRead
  <2>1. UNCHANGED txOwn /\ TxOwnTyped' /\ SocketCoversThread'
    BY <1>1, <1>10 DEF TxRead, txOwn, TxOwnTyped, SocketCoversThread
  <2>2. \A s \in Starts : s = start => ReadNext(s, StreamChannels)
    BY <1>10 DEF TxRead, ReadNext
  <2>3. PathInv(0, DeviceChannels)'
    <3>1. PICK s \in Starts : s = start
      BY <1>1 DEF TxOwnTyped
    <3> QED BY <1>1, <2>2, <3>1, ReadKeeps, StartsInDevice
  <2>4. \A s \in Starts : s = start /\ ReadInStep(0, DeviceChannels, s, StreamChannels)
                            => ReadInStep(0, DeviceChannels, s, StreamChannels)'
    BY <1>1, <2>2, ReadKeeps, StartsInDevice
  <2> QED BY <1>3, <2>1, <2>3, <2>4, PathStepKeeps DEF txOwn
<1>11. CASE TxSend
  <2>1. /\ TxOwnTyped' /\ SocketCoversThread' /\ UNCHANGED <<start, remapped>>
        /\ rChan = StreamChannels /\ rChan' = -1
        /\ UNCHANGED <<ring, audio, clean, rShort, underruns, producerVars>>
    BY <1>1, <1>11 DEF TxSend, TxOwnTyped, SocketCoversThread
  <2>2. NumbersCountPackets'
    BY <1>1, <1>11, NumbersMoveOn DEF TxSend, TxOwnTyped
  <2>3. PathInv(0, DeviceChannels)'
    BY <1>1, <2>1, CallEnds, StartsInDevice
  <2>4. \A s \in Starts : ReadInStep(0, DeviceChannels, s, StreamChannels)
                            => ReadInStep(0, DeviceChannels, s, StreamChannels)'
    BY <1>1, <2>1, CallEnds, StartsInDevice
  <2> QED BY <2>1, <2>2, <2>3, <2>4, PathStepKeeps
<1>12. CASE IoWrite
  <2>1. UNCHANGED txOwn /\ TxOwnTyped' /\ SocketCoversThread'
    BY <1>1, <1>12 DEF IoWrite, txOwn, TxOwnTyped, SocketCoversThread
  <2>2. /\ PathInv(0, DeviceChannels)' /\ UNCHANGED <<rChan, audio>>
        /\ \A c \in Device : clean'[c] =>
             /\ clean[c]
             /\ Produced(0, DeviceChannels, c)' - Len(ring'[c])
                  = Produced(0, DeviceChannels, c) - Len(ring[c])
    BY <1>1, <1>12, WriteKeeps, StartsInDevice DEF IoWrite
  <2>3. rChan \in Int
    BY <1>1 DEF PathInv, PathTypeOK
  <2>4. \A s \in Starts : ReadInStep(0, DeviceChannels, s, StreamChannels)
                            => ReadInStep(0, DeviceChannels, s, StreamChannels)'
    BY <2>2, <2>3, WriteKeepsStep, StartsInDevice
  <2> QED BY <1>3, <2>1, <2>2, <2>4, PathStepKeeps DEF txOwn
<1>13. CASE UNCHANGED txVars
  <2>1. TxOwnTyped' /\ SocketCoversThread' /\ UNCHANGED pathVars
        /\ UNCHANGED <<start, remapped, sequence, timestamp, packets>>
    BY <1>1, <1>13 DEF txVars, txOwn, TxOwnTyped, SocketCoversThread
  <2> QED BY <1>3, <2>1, ControlKeeps
<1> QED BY <1>4, <1>5, <1>6, <1>7, <1>8, <1>9, <1>10, <1>11, <1>12, <1>13 DEF TxNext, TxThread

\* For any number of channels, ring size, batch sizes, packets and mappings the
\* channels of a packet carry the same frames until a ring was short or the
\* mapping changed, sequence number and timestamp count the packets since
\* start(), and the thread has a socket (RTPTransmitter.cpp start, stop,
\* updateMapping and transmitLoop; AES67IOHandler::processOutput).
THEOREM TransmitterSafe == TxSpec => []TxSafe
<1>1. TxInv => TxSafe
  <2> SUFFICES ASSUME TxInv PROVE TxSafe
    OBVIOUS
  <2>1. PathTypeOK /\ PathExtras(DeviceChannels) /\ TxOwnTyped
        /\ NumbersCountPackets /\ SocketCoversThread
    BY DEF TxInv, PathInv
  <2>2. TxTypeOK
    <3>1. \A m \in Nat \ {0}, x \in Nat : x % m \in 0 .. m - 1
      OBVIOUS
    <3>2. packets * ReadFrames \in Nat /\ packets \in Nat
      BY <2>1, ChannelPathAssumption DEF TxOwnTyped
    <3>3. sequence \in 0 .. TxSeqMod - 1 /\ timestamp \in 0 .. TxTimeMod - 1
      BY <2>1, <3>1, <3>2, TxAssumption DEF NumbersCountPackets
    <3> QED BY <2>1, <3>3 DEF TxTypeOK, TxOwnTyped
  <2>3. TxAligned
    <3> SUFFICES ASSUME rChan = StreamChannels, ~remapped PROVE AlignedWhileClean(start)
      BY DEF TxAligned
    <3>1. PICK s \in Starts : s = start
      BY <2>1 DEF TxOwnTyped
    <3>2. ReadInStep(0, DeviceChannels, s, StreamChannels)
      BY <3>1 DEF TxInv, MappingInStep
    <3>3. AlignedWhileClean(s)
      BY <2>1, <3>2, InStepIsAligned, StartsInDevice
    <3> QED BY <3>1, <3>3 DEF AlignedWhileClean
  <2> QED BY <2>1, <2>2, <2>3 DEF TxSafe
<1> QED BY InitTx, NextTx, <1>1, PTL DEF TxSpec

(***************************************************************************)
(* DeviceInput                                                              *)
(***************************************************************************)

\* A call that was short has been counted, and a ring that was short too.
ShortIsCounted ==
  /\ wShort \in BOOLEAN /\ rShort \in BOOLEAN
  /\ overruns \in 0 .. 1 /\ underruns \in 0 .. 1
  /\ wShort => overruns = 1
  /\ rShort => underruns = 1
  /\ ShiftIsCounted

InputInv ==
  /\ PathInv(MapStart, MapChannels)
  /\ ReadInStep(MapStart, MapChannels, 0, DeviceChannels)
  /\ ShortIsCounted

LEMMA MapIsNat ==
  /\ MapStart \in Nat /\ MapChannels \in Nat /\ 0 \in Nat /\ DeviceChannels \in Nat
  /\ 0 + DeviceChannels <= DeviceChannels
BY DeviceInputAssumption, ChannelPathAssumption

LEMMA InitInput == InInit => InputInv
<1> SUFFICES ASSUME InInit PROVE InputInv
  OBVIOUS
<1>1. PathInit
  BY DEF InInit
<1>2. PathInv(MapStart, MapChannels) /\ ReadInStep(MapStart, MapChannels, 0, DeviceChannels)
  BY <1>1, PathStarts, MapIsNat
<1>3. ShortIsCounted
  <2>1. \A c \in Device : clean[c]
    BY <1>1 DEF PathInit
  <2>2. wShort \in BOOLEAN /\ rShort \in BOOLEAN /\ ~wShort /\ ~rShort
    BY <1>1 DEF PathInit
  <2>3. overruns = 0 /\ underruns = 0
    BY <1>1 DEF PathInit
  <2> QED BY <2>1, <2>2, <2>3 DEF ShortIsCounted, ShiftIsCounted
<1> QED BY <1>2, <1>3 DEF InputInv

\* What a short call sets: its flag and, the first time, its count.
LEMMA WriteIsCounted ==
  ASSUME ShortIsCounted, clean \in [Device -> BOOLEAN], WriteNext(MapStart, MapChannels)
  PROVE  ShortIsCounted'
<1> DEFINE c0   == MapStart + wChan
           n    == Fewer(WriteFrames, RingCapacity - Len(ring[c0]))
           full == n < WriteFrames
<1>1. /\ clean' = [clean EXCEPT ![c0] = @ /\ ~full] /\ wShort' = (wShort \/ full)
      /\ overruns' = IF full /\ ~wShort THEN 1 ELSE overruns
      /\ UNCHANGED <<rShort, underruns>>
  BY DEF WriteNext, WriteChannel, consumerVars
<1>2. full \in BOOLEAN
  OBVIOUS
<1> HIDE DEF full
<1>3. CASE full
  <2>1. overruns' = 1 /\ wShort' = TRUE
    BY <1>1, <1>3 DEF ShortIsCounted
  <2> QED BY <1>1, <2>1 DEF ShortIsCounted, ShiftIsCounted
<1>4. CASE ~full
  <2>1. overruns' = overruns /\ wShort' = wShort
    BY <1>1, <1>4 DEF ShortIsCounted
  <2>2. \A c \in Device : clean'[c] = clean[c]
    BY <1>1, <1>4
  <2> QED BY <1>1, <2>1, <2>2 DEF ShortIsCounted, ShiftIsCounted
<1> QED BY <1>3, <1>4

LEMMA ReadIsCounted ==
  ASSUME ShortIsCounted, clean \in [Device -> BOOLEAN], ReadNext(0, DeviceChannels)
  PROVE  ShortIsCounted'
<1> DEFINE c0    == 0 + rChan
           n     == Fewer(ReadFrames, Len(ring[c0]))
           empty == n < ReadFrames
<1>1. /\ clean' = [clean EXCEPT ![c0] = @ /\ ~empty] /\ rShort' = (rShort \/ empty)
      /\ underruns' = IF empty /\ ~rShort THEN 1 ELSE underruns
      /\ UNCHANGED <<wShort, overruns>>
  BY DEF ReadNext, producerVars
<1>2. empty \in BOOLEAN
  OBVIOUS
<1> HIDE DEF empty
<1>3. CASE empty
  <2>1. underruns' = 1 /\ rShort' = TRUE
    BY <1>1, <1>3 DEF ShortIsCounted
  <2> QED BY <1>1, <2>1 DEF ShortIsCounted, ShiftIsCounted
<1>4. CASE ~empty
  <2>1. underruns' = underruns /\ rShort' = rShort
    BY <1>1, <1>4 DEF ShortIsCounted
  <2>2. \A c \in Device : clean'[c] = clean[c]
    BY <1>1, <1>4
  <2> QED BY <1>1, <2>1, <2>2 DEF ShortIsCounted, ShiftIsCounted
<1> QED BY <1>3, <1>4

LEMMA NextInput == InputInv /\ [InNext]_pathVars => InputInv'
<1> SUFFICES ASSUME InputInv, [InNext]_pathVars PROVE InputInv'
  OBVIOUS
<1>1. /\ PathInv(MapStart, MapChannels) /\ ReadInStep(MapStart, MapChannels, 0, DeviceChannels)
      /\ ShortIsCounted /\ clean \in [Device -> BOOLEAN] /\ rChan \in Int
  BY DEF InputInv, PathInv, PathTypeOK
<1>2. CASE MapChannelsToDevice
  <2>1. MapStart + MapChannels <= DeviceChannels
    BY <1>2 DEF MapChannelsToDevice, MapChannels_OK
  <2>2. /\ PathInv(MapStart, MapChannels)' /\ UNCHANGED <<rChan, audio>>
        /\ \A c \in Device : clean'[c] =>
             /\ clean[c]
             /\ Produced(MapStart, MapChannels, c)' - Len(ring'[c])
                  = Produced(MapStart, MapChannels, c) - Len(ring[c])
    BY <1>1, <1>2, <2>1, WriteKeeps, MapIsNat DEF MapChannelsToDevice
  <2>3. ReadInStep(MapStart, MapChannels, 0, DeviceChannels)'
    BY <1>1, <2>2, WriteKeepsStep, MapIsNat
  <2>4. CASE BeginWrite
    <3>1. wShort' = FALSE /\ UNCHANGED <<clean, overruns, rShort, underruns>>
      BY <2>4 DEF BeginWrite, consumerVars
    <3> QED BY <1>1, <2>2, <2>3, <3>1 DEF InputInv, ShortIsCounted, ShiftIsCounted
  <2>5. CASE WriteNext(MapStart, MapChannels)
    BY <1>1, <2>2, <2>3, <2>5, WriteIsCounted DEF InputInv
  <2>6. CASE EndWrite(MapChannels)
    <3>1. UNCHANGED <<clean, wShort, overruns, rShort, underruns>>
      BY <2>6 DEF EndWrite, consumerVars
    <3> QED BY <1>1, <2>2, <2>3, <3>1 DEF InputInv, ShortIsCounted, ShiftIsCounted
  <2> QED BY <1>2, <2>4, <2>5, <2>6 DEF MapChannelsToDevice
<1>3. CASE BeginRead
  <2>1. PathInv(MapStart, MapChannels)' /\ ReadInStep(MapStart, MapChannels, 0, DeviceChannels)'
    BY <1>1, <1>3, CallBegins, MapIsNat
  <2>2. rShort' = FALSE /\ UNCHANGED <<clean, underruns, wShort, overruns>>
    BY <1>3 DEF BeginRead, producerVars
  <2> QED BY <1>1, <2>1, <2>2 DEF InputInv, ShortIsCounted, ShiftIsCounted
<1>4. CASE ReadNext(0, DeviceChannels)
  <2>1. PathInv(MapStart, MapChannels)' /\ ReadInStep(MapStart, MapChannels, 0, DeviceChannels)'
    BY <1>1, <1>4, ReadKeeps, MapIsNat
  <2> QED BY <1>1, <1>4, <2>1, ReadIsCounted DEF InputInv
<1>5. CASE /\ rChan = DeviceChannels /\ rChan' = -1
           /\ UNCHANGED <<ring, audio, clean, rShort, underruns, producerVars>>
  <2>1. PathInv(MapStart, MapChannels)' /\ ReadInStep(MapStart, MapChannels, 0, DeviceChannels)'
    BY <1>1, <1>5, CallEnds, MapIsNat
  <2>2. UNCHANGED <<clean, rShort, underruns, wShort, overruns>>
    BY <1>5 DEF producerVars
  <2> QED BY <1>1, <2>1, <2>2 DEF InputInv, ShortIsCounted, ShiftIsCounted
<1>6. CASE UNCHANGED pathVars
  <2>1. PathInv(MapStart, MapChannels)' /\ ReadInStep(MapStart, MapChannels, 0, DeviceChannels)'
    BY <1>1, <1>6, PathStays, MapIsNat
  <2>2. UNCHANGED <<clean, rShort, underruns, wShort, overruns>>
    BY <1>6 DEF pathVars
  <2> QED BY <1>1, <2>1, <2>2 DEF InputInv, ShortIsCounted, ShiftIsCounted
<1> QED BY <1>2, <1>3, <1>4, <1>5, <1>6 DEF InNext, ProcessInput

\* For any mapping, ring size and batch sizes, a stream's channels reach Core
\* Audio in order and in step, or the shift has been counted, however the
\* consume thread and the IO thread interleave (RTPReceiver.cpp
\* mapChannelsToDevice; AES67IOHandler.cpp processInput).
THEOREM InputStaysAligned == InSpec => []InputSafe
<1>1. InputInv => InputSafe
  <2> SUFFICES ASSUME InputInv PROVE InputSafe
    OBVIOUS
  <2>1. PathTypeOK /\ PathExtras(MapChannels) /\ RingsHold(MapStart, MapChannels)
        /\ ReadInStep(MapStart, MapChannels, 0, DeviceChannels) /\ ShiftIsCounted
    BY DEF InputInv, PathInv, ShortIsCounted
  <2>2. InputAligned
    BY <2>1, InStepIsAligned, MapIsNat DEF InputAligned
  <2>3. RingsInOrder
    <3> SUFFICES ASSUME NEW c \in Device, NEW i \in 1 .. Len(ring[c]) - 1
                 PROVE  /\ ring[c][i] < ring[c][i + 1]
                        /\ clean[c] => ring[c][i] + 1 = ring[c][i + 1]
      BY DEF RingsInOrder
    <3>1. PICK p \in Int : p = Produced(MapStart, MapChannels, c)
      BY <2>1, ProducedIsInt, MapIsNat DEF PathTypeOK
    <3>2. HoldsFrames(ring[c], p, clean[c]) /\ Len(ring[c]) \in Nat
      BY <2>1, <3>1, LenProperties DEF RingsHold, PathTypeOK
    <3>3. i \in 1 .. Len(ring[c]) /\ i + 1 \in 1 .. Len(ring[c])
      BY <3>2
    <3>4. ring[c][i] < ring[c][i + 1]
      BY <3>2 DEF HoldsFrames
    <3>5. ASSUME clean[c] PROVE ring[c][i] + 1 = ring[c][i + 1]
      <4>1. \A k \in 1 .. Len(ring[c]) : ring[c][k] = p - Len(ring[c]) + k - 1
        BY <3>2, <3>5 DEF HoldsFrames
      <4>2. /\ ring[c][i] = p - Len(ring[c]) + i - 1
            /\ ring[c][i + 1] = p - Len(ring[c]) + (i + 1) - 1
        BY <3>3, <4>1
      <4> QED BY <3>2, <4>2
    <3> QED BY <3>4, <3>5
  <2> QED BY <2>1, <2>2, <2>3 DEF InputSafe
<1> QED BY InitInput, NextInput, <1>1, PTL DEF InSpec
-----------------------------------------------------------------------------
(***************************************************************************)
(* SPSCRingBuffer, for every capacity, element type and batch size.  The    *)
(* argument: both sides size a transfer from the indices they saw, and the  *)
(* other side can only have made room or data since.  Hence toWrite never   *)
(* exceeds the free cells and toRead never exceeds the published ones       *)
(* (Reserved), which keeps the two transfers apart.                         *)
(***************************************************************************)

\* The strengthening that makes NoDataRace and the FIFO refinement inductive.
Reserved ==
  /\ toWrite + Fill <= Capacity
  /\ toRead <= Fill

Transfers ==
  /\ toWrite <= Len(wData)
  /\ toWrite = 0 => wData = <<>>
  /\ Len(rData) = rDone
  /\ \A k \in 0 .. wDone - 1 : buffer[CellAfter(writeIndex, k)] = wData[k + 1]
  /\ \A k \in 0 .. rDone - 1 : buffer[CellAfter(readIndex, k)] = rData[k + 1]

IInv == TypeOK /\ Reserved /\ Transfers

-----------------------------------------------------------------------------
\* An index never more than one lap ahead is brought back by one subtraction.
LEMMA ModWrap ==
  \A c \in Nat \ {0} : \A i \in 0 .. c - 1, n \in 0 .. c :
     (i + n) % c = IF i + n < c THEN i + n ELSE i + n - c
<1> TAKE c \in Nat \ {0}
<1> TAKE i \in 0 .. c - 1, n \in 0 .. c
<1>1. ASSUME NEW x \in 0 .. 2 * c - 1
      PROVE  x % c = IF x < c THEN x ELSE x - c
  OBVIOUS
<1>2. PICK x \in 0 .. 2 * c - 1 : x = i + n
  OBVIOUS
<1>3. x % c = IF x < c THEN x ELSE x - c
  BY <1>1
<1>4. QED
  BY <1>2, <1>3

\* The two memcpy chunks visit the cells after the start index in order.
LEMMA ChunkIsCellAfter ==
  ASSUME NEW i \in CellIds, NEW n \in Nat, n <= Cells, NEW k \in 0 .. n - 1
  PROVE  /\ ChunkCell(i, n, k) = CellAfter(i, k)
         /\ CellAfter(i, k) \in CellIds
BY RingAssumption DEF ChunkCell, CellAfter, Smaller, Cells, CellIds

\* Different distances below one lap are different cells.
LEMMA CellAfterInjective ==
  ASSUME NEW i \in CellIds, NEW j \in 0 .. Cells - 1, NEW k \in 0 .. Cells - 1,
         CellAfter(i, j) = CellAfter(i, k)
  PROVE  j = k
BY RingAssumption DEF CellAfter, Cells, CellIds

\* ... and each of them is a cell of the buffer.
LEMMA OtherCell ==
  ASSUME NEW i \in CellIds, NEW j \in 0 .. Cells - 1, NEW k \in 0 .. Cells - 1, j # k
  PROVE  CellAfter(i, j) # CellAfter(i, k) /\ CellAfter(i, j) \in CellIds
BY RingAssumption DEF CellAfter, Cells, CellIds

\* The write index is the cell Fill after the read index.
LEMMA WriteIndexIsCellAfterFill ==
  ASSUME NEW r \in CellIds, NEW w \in CellIds
  PROVE  /\ getAvailableRead(r, w) \in 0 .. Capacity
         /\ getAvailableWrite(w, r) = Capacity - getAvailableRead(r, w)
         /\ CellAfter(r, getAvailableRead(r, w)) = w
         /\ \A k \in Nat : getAvailableRead(r, w) + k < Cells =>
              CellAfter(w, k) = CellAfter(r, getAvailableRead(r, w) + k)
BY RingAssumption DEF CellAfter, Cells, CellIds, getAvailableRead, getAvailableWrite

\* Advancing the write index by n <= free grows the fill by n.
LEMMA AdvanceWrite ==
  ASSUME NEW r \in CellIds, NEW w \in CellIds, NEW n \in Nat,
         n + getAvailableRead(r, w) <= Capacity
  PROVE  /\ (w + n) % Cells \in CellIds
         /\ getAvailableRead(r, (w + n) % Cells) = getAvailableRead(r, w) + n
<1>1. Cells \in Nat \ {0} /\ w \in 0 .. Cells - 1 /\ n \in 0 .. Cells
  BY RingAssumption DEF Cells, CellIds, getAvailableRead
<1>2. (w + n) % Cells = IF w + n < Cells THEN w + n ELSE w + n - Cells
  BY <1>1, ModWrap, Zenon
<1>3. QED
  BY <1>2, RingAssumption DEF Cells, CellIds, getAvailableRead

\* Advancing the read index by n <= fill shrinks the fill by n.
LEMMA AdvanceRead ==
  ASSUME NEW r \in CellIds, NEW w \in CellIds, NEW n \in Nat,
         n <= getAvailableRead(r, w)
  PROVE  /\ (r + n) % Cells \in CellIds
         /\ getAvailableRead((r + n) % Cells, w) = getAvailableRead(r, w) - n
         /\ \A k \in Nat : n + k < Cells =>
              CellAfter((r + n) % Cells, k) = CellAfter(r, n + k)
<1>1. Cells \in Nat \ {0} /\ r \in 0 .. Cells - 1 /\ n \in 0 .. Cells
  BY RingAssumption DEF Cells, CellIds, getAvailableRead
<1>3. (r + n) % Cells = IF r + n < Cells THEN r + n ELSE r + n - Cells
  BY <1>1, ModWrap, Zenon
<1>4. (r + n) % Cells \in CellIds
  BY <1>3, RingAssumption DEF Cells, CellIds, getAvailableRead
<1>5. getAvailableRead((r + n) % Cells, w) = getAvailableRead(r, w) - n
  BY <1>3, RingAssumption DEF Cells, CellIds, getAvailableRead
<1>6. ASSUME NEW k \in Nat, n + k < Cells
      PROVE  CellAfter((r + n) % Cells, k) = CellAfter(r, n + k)
  BY <1>3, <1>6, RingAssumption DEF Cells, CellIds, CellAfter
<1>7. QED
  BY <1>4, <1>5, <1>6

-----------------------------------------------------------------------------
LEMMA InitIInv == Init => IInv
BY RingAssumption DEF Init, IInv, TypeOK, Reserved, Transfers, Fill,
   getAvailableRead, Cells, CellIds

LEMMA NextIInv == IInv /\ [Next]_vars => IInv'
<1> SUFFICES ASSUME IInv, [Next]_vars PROVE IInv'
  OBVIOUS
<1> USE RingAssumption
<1>0. /\ Fill \in 0 .. Capacity
      /\ getAvailableWrite(writeIndex, readIndex) = Capacity - Fill
  BY WriteIndexIsCellAfterFill DEF IInv, TypeOK, Fill
<1>1. ASSUME NEW data \in Batch, WriteBegin(data)
      PROVE  IInv'
  <2>1. data \in Seq(Sample) /\ Len(data) \in Nat
    BY DEF Batch
  <2>2. TypeOK'
    BY <1>0, <1>1, <2>1 DEF IInv, TypeOK, WriteBegin, Smaller
  <2>3. Reserved'
    BY <1>0, <1>1, <2>1 DEF IInv, TypeOK, Reserved, Fill, WriteBegin, Smaller
  <2>4. Transfers'
    BY <1>0, <1>1, <2>1 DEF IInv, TypeOK, Transfers, WriteBegin, Smaller
  <2>5. QED
    BY <2>2, <2>3, <2>4 DEF IInv
<1>2. CASE WriteCopy
  <2> DEFINE c == ChunkCell(writeIndex, toWrite, wDone)
  <2>1. c = CellAfter(writeIndex, wDone) /\ c \in CellIds
    BY <1>2, ChunkIsCellAfter DEF IInv, TypeOK, WriteCopy, Cells
  <2>2. wData[wDone + 1] \in Sample
    BY <1>2 DEF IInv, TypeOK, Transfers, WriteCopy
  <2>3. TypeOK'
    BY <1>2, <2>1, <2>2 DEF IInv, TypeOK, WriteCopy
  <2>4. Reserved'
    BY <1>2 DEF IInv, Reserved, Fill, WriteCopy
  <2>5. \A k \in 0 .. wDone' - 1 : buffer'[CellAfter(writeIndex, k)] = wData[k + 1]
    <3> SUFFICES ASSUME NEW k \in 0 .. wDone
                 PROVE  buffer'[CellAfter(writeIndex, k)] = wData[k + 1]
      BY <1>2 DEF IInv, TypeOK, WriteCopy
    <3>1. CASE k = wDone
      BY <3>1, <1>2, <2>1 DEF IInv, TypeOK, WriteCopy
    <3>2. CASE k # wDone
      <4>1. CellAfter(writeIndex, k) # c /\ CellAfter(writeIndex, k) \in CellIds
        BY <3>2, <2>1, <1>2, CellAfterInjective, ChunkIsCellAfter
           DEF IInv, TypeOK, WriteCopy, Cells
      <4>2. QED
        BY <4>1, <3>2, <1>2 DEF IInv, TypeOK, Transfers, WriteCopy
    <3>3. QED
      BY <3>1, <3>2
  <2>6. \A k \in 0 .. rDone - 1 : buffer'[CellAfter(readIndex, k)] = rData[k + 1]
    <3> SUFFICES ASSUME NEW k \in 0 .. rDone - 1
                 PROVE  buffer'[CellAfter(readIndex, k)] = rData[k + 1]
      OBVIOUS
    <3>1. c = CellAfter(readIndex, Fill + wDone)
      <4>1. wDone \in Nat /\ Fill + wDone < Cells
        BY <1>0, <1>2 DEF IInv, TypeOK, Reserved, Cells, WriteCopy
      <4>2. QED
        BY <2>1, <4>1, WriteIndexIsCellAfterFill DEF IInv, TypeOK, Fill
    <3>2. CellAfter(readIndex, k) # c /\ CellAfter(readIndex, k) \in CellIds
      BY <3>1, <1>0, <1>2, CellAfterInjective, ChunkIsCellAfter
         DEF IInv, TypeOK, Reserved, Cells, WriteCopy
    <3>3. QED
      BY <3>2, <1>2 DEF IInv, TypeOK, Transfers, WriteCopy
  <2>7. Transfers'
    BY <2>5, <2>6, <1>2 DEF IInv, TypeOK, Transfers, WriteCopy, CellAfter
  <2>8. QED
    BY <2>3, <2>4, <2>7 DEF IInv
<1>3. CASE WritePublish
  <2>1. /\ writeIndex' \in CellIds
        /\ Fill' = Fill + toWrite
    BY <1>3, AdvanceWrite DEF IInv, TypeOK, Reserved, Fill, WritePublish
  <2>2. TypeOK'
    BY <1>3, <2>1 DEF IInv, TypeOK, WritePublish
  <2>3. Reserved'
    BY <1>0, <1>3, <2>1 DEF IInv, TypeOK, Reserved, WritePublish
  <2>4. Transfers'
    BY <1>3 DEF IInv, TypeOK, Transfers, WritePublish, CellAfter
  <2>5. QED
    BY <2>2, <2>3, <2>4 DEF IInv
<1>4. ASSUME NEW count \in MaxCount, ReadBegin(count)
      PROVE  IInv'
  <2>1. TypeOK'
    BY <1>0, <1>4 DEF IInv, TypeOK, ReadBegin, Smaller, MaxCount, Fill
  <2>2. Reserved'
    BY <1>0, <1>4 DEF IInv, TypeOK, Reserved, Fill, ReadBegin, Smaller, MaxCount
  <2>3. Transfers'
    BY <1>4 DEF IInv, TypeOK, Transfers, ReadBegin, CellAfter
  <2>4. QED
    BY <2>1, <2>2, <2>3 DEF IInv
<1>5. CASE ReadCopy
  <2> DEFINE c == ChunkCell(readIndex, toRead, rDone)
  <2>1. c = CellAfter(readIndex, rDone) /\ c \in CellIds
    BY <1>5, ChunkIsCellAfter DEF IInv, TypeOK, ReadCopy, Cells
  <2>2. buffer[c] \in Sample
    BY <2>1 DEF IInv, TypeOK
  <2>3. TypeOK'
    BY <1>5, <2>2 DEF IInv, TypeOK, ReadCopy
  <2>4. Reserved'
    BY <1>5 DEF IInv, Reserved, Fill, ReadCopy
  <2>5. Len(rData') = rDone'
    BY <1>5, <2>2 DEF IInv, TypeOK, Transfers, ReadCopy
  <2>6. \A k \in 0 .. rDone' - 1 : buffer[CellAfter(readIndex, k)] = rData'[k + 1]
    BY <1>5, <2>1, <2>2 DEF IInv, TypeOK, Transfers, ReadCopy
  <2>7. Transfers'
    BY <1>5, <2>5, <2>6 DEF IInv, TypeOK, Transfers, ReadCopy, CellAfter
  <2>8. QED
    BY <2>3, <2>4, <2>7 DEF IInv
<1>6. CASE ReadPublish
  <2>1. /\ readIndex' \in CellIds
        /\ Fill' = Fill - toRead
    BY <1>6, AdvanceRead DEF IInv, TypeOK, Reserved, Fill, ReadPublish
  <2>2. TypeOK'
    BY <1>6, <2>1 DEF IInv, TypeOK, ReadPublish
  <2>3. Reserved'
    BY <1>0, <1>6, <2>1 DEF IInv, TypeOK, Reserved, ReadPublish
  <2>4. Transfers'
    BY <1>6 DEF IInv, TypeOK, Transfers, ReadPublish, CellAfter
  <2>5. QED
    BY <2>2, <2>3, <2>4 DEF IInv
<1>7. CASE Reset
  <2>1. TypeOK'
    BY <1>7 DEF IInv, TypeOK, Reset, Cells, CellIds
  <2>2. Reserved'
    BY <1>7 DEF IInv, TypeOK, Reserved, Fill, getAvailableRead, Reset, Cells, CellIds
  <2>3. Transfers'
    BY <1>7 DEF IInv, TypeOK, Transfers, Reset, CellAfter
  <2>4. QED
    BY <2>1, <2>2, <2>3 DEF IInv
<1>8. CASE UNCHANGED vars
  BY <1>8 DEF vars, IInv, TypeOK, Reserved, Transfers, Fill, getAvailableRead, CellAfter
<1>9. QED
  BY <1>1, <1>2, <1>3, <1>4, <1>5, <1>6, <1>7, <1>8 DEF Next, Producer, Consumer

LEMMA Invariance == Spec => []IInv
BY InitIInv, NextIInv, PTL DEF Spec

\* Every variable keeps its type: both indices stay inside buffer_ and no
\* transfer exceeds the capacity (RingBuffer.hpp 44-108).
THEOREM TypeCorrect == Spec => []TypeOK
<1>1. IInv => TypeOK
  BY DEF IInv
<1>2. QED
  BY <1>1, Invariance, PTL

\* The producer's stores stay out of the published elements and the consumer's
\* loads stay inside them (RingBuffer.hpp 57-65, 92-100), for every capacity
\* and batch size.
THEOREM RaceFree == Spec => []NoDataRace
<1>1. IInv => NoDataRace
  <2> SUFFICES ASSUME IInv PROVE NoDataRace
    OBVIOUS
  <2> USE RingAssumption
  <2>1. /\ Fill \in 0 .. Capacity
        /\ \A k \in Nat : Fill + k < Cells =>
             CellAfter(writeIndex, k) = CellAfter(readIndex, Fill + k)
    BY WriteIndexIsCellAfterFill DEF IInv, TypeOK, Fill
  <2>2. ASSUME NEW k \in wDone .. toWrite - 1, NEW j \in 0 .. Fill - 1
        PROVE  ChunkCell(writeIndex, toWrite, k) # CellAfter(readIndex, j)
    <3>1. ChunkCell(writeIndex, toWrite, k) = CellAfter(readIndex, Fill + k)
      BY <2>1, ChunkIsCellAfter DEF IInv, TypeOK, Reserved, Cells
    <3>2. QED
      BY <3>1, <2>1, CellAfterInjective DEF IInv, TypeOK, Reserved, Cells
  <2>3. ReadingCells \subseteq UnreadCells
    <3> SUFFICES ASSUME NEW k \in rDone .. toRead - 1
                 PROVE  ChunkCell(readIndex, toRead, k) \in UnreadCells
      BY DEF ReadingCells
    <3>1. ChunkCell(readIndex, toRead, k) = CellAfter(readIndex, k) /\ k \in 0 .. Fill - 1
      BY <2>1, ChunkIsCellAfter DEF IInv, TypeOK, Reserved, Cells
    <3>2. QED
      BY <3>1 DEF UnreadCells
  <2>4. WritingCells \cap UnreadCells = {}
    BY <2>2 DEF WritingCells, UnreadCells
  <2>5. QED
    BY <2>3, <2>4 DEF NoDataRace
<1>2. QED
  BY <1>1, Invariance, PTL

-----------------------------------------------------------------------------
LEMMA QueueType == IInv => Queue \in Seq(Sample) /\ Len(Queue) = Fill /\ Fill \in 0 .. Capacity
<1> SUFFICES ASSUME IInv PROVE Queue \in Seq(Sample) /\ Len(Queue) = Fill /\ Fill \in 0 .. Capacity
  OBVIOUS
<1> USE RingAssumption
<1>1. Fill \in 0 .. Capacity
  BY WriteIndexIsCellAfterFill DEF IInv, TypeOK, Fill
<1>2. \A k \in 1 .. Fill : CellAfter(readIndex, k - 1) \in CellIds
  BY <1>1 DEF IInv, TypeOK, CellAfter, Cells, CellIds
<1>3. \A k \in 1 .. Fill : buffer[CellAfter(readIndex, k - 1)] \in Sample
  BY <1>2 DEF IInv, TypeOK
<1>4. QED
  BY <1>1, <1>3 DEF Queue

\* The first n elements of a sequence.
LEMMA Prefix ==
  ASSUME NEW S, NEW s \in Seq(S), NEW n \in 0 .. Len(s)
  PROVE  /\ SubSeq(s, 1, n) \in Seq(S) /\ Len(SubSeq(s, 1, n)) = n
         /\ \A k \in 1 .. n : SubSeq(s, 1, n)[k] = s[k]
OBVIOUS

\* The rest after them.
LEMMA Suffix ==
  ASSUME NEW S, NEW s \in Seq(S), NEW n \in 0 .. Len(s)
  PROVE  LET q == SubSeq(s, n + 1, Len(s))
         IN  /\ q \in Seq(S) /\ Len(q) = Len(s) - n
             /\ \A k \in 1 .. Len(s) - n : q[k] = s[n + k]
OBVIOUS

\* Two sequences with the same length and elements are equal.
LEMMA SameSequence ==
  ASSUME NEW S, NEW s \in Seq(S), NEW t \in Seq(S), Len(s) = Len(t),
         \A k \in 1 .. Len(s) : s[k] = t[k]
  PROVE  s = t
OBVIOUS

LEMMA StepRefines == IInv /\ IInv' /\ [Next]_vars => [Fifo!Next]_(Fifo!fifoVars)
<1> SUFFICES ASSUME IInv, IInv', [Next]_vars PROVE [Fifo!Next]_(Fifo!fifoVars)
  OBVIOUS
<1> USE RingAssumption
<1>0. /\ Queue \in Seq(Sample) /\ Len(Queue) = Fill /\ Fill \in 0 .. Capacity
      /\ Queue' \in Seq(Sample) /\ Len(Queue') = Fill' /\ Fill' \in 0 .. Capacity
  <2>1. Queue \in Seq(Sample) /\ Len(Queue) = Fill /\ Fill \in 0 .. Capacity
    BY QueueType
  <2>2. (Queue \in Seq(Sample) /\ Len(Queue) = Fill /\ Fill \in 0 .. Capacity)'
    BY QueueType, PTL
  <2>3. QED
    BY <2>1, <2>2
<1>1. ASSUME NEW data \in Batch, WriteBegin(data)
      PROVE  Fifo!Offer
  <2>1. wData = <<>> /\ wData' # <<>>
    BY <1>1 DEF IInv, Transfers, WriteBegin, Batch
  <2>2. Queue' = Queue /\ received' = received
    BY <1>1 DEF WriteBegin, Queue, Fill, getAvailableRead, CellAfter
  <2>3. QED
    BY <2>1, <2>2 DEF Fifo!Offer
<1>2. CASE WriteCopy
  <2> DEFINE c == ChunkCell(writeIndex, toWrite, wDone)
  <2>1. c = CellAfter(writeIndex, wDone) /\ c \in CellIds
    BY <1>2, ChunkIsCellAfter DEF IInv, TypeOK, WriteCopy, Cells
  <2>2. c = CellAfter(readIndex, Fill + wDone) /\ wDone \in Nat /\ Fill + wDone < Cells
    <3>1. wDone \in Nat /\ Fill + wDone < Cells
      BY <1>0, <1>2 DEF IInv, TypeOK, Reserved, Cells, WriteCopy
    <3>2. QED
      BY <2>1, <3>1, WriteIndexIsCellAfterFill DEF IInv, TypeOK, Fill
  <2>3. Fill' = Fill
    BY <1>2 DEF WriteCopy, Fill, getAvailableRead
  <2>4. ASSUME NEW k \in 1 .. Fill
        PROVE  Queue'[k] = Queue[k]
    <3>0. /\ k - 1 \in 0 .. Cells - 1 /\ Fill + wDone \in 0 .. Cells - 1
          /\ k - 1 # Fill + wDone /\ readIndex \in CellIds
      BY <2>2, <1>0 DEF IInv, TypeOK, Cells
    <3>1. CellAfter(readIndex, k - 1) # c /\ CellAfter(readIndex, k - 1) \in CellIds
      <4> HIDE DEF Fill, c
      <4> QED BY <3>0, <2>2, OtherCell
    <3>2. buffer'[CellAfter(readIndex, k - 1)] = buffer[CellAfter(readIndex, k - 1)]
      BY <3>1, <1>2 DEF IInv, TypeOK, WriteCopy
    <3>3. QED
      BY <3>2, <2>3, <1>2 DEF Queue, WriteCopy, CellAfter
  <2>5. Queue' = Queue
    BY <2>3, <2>4, <1>0, SameSequence
  <2>6. QED
    BY <2>5, <1>2 DEF WriteCopy, Fifo!fifoVars
<1>3. CASE WritePublish
  <2>1. /\ Fill' = Fill + toWrite /\ toWrite \in 1 .. Len(wData)
        /\ wDone = toWrite /\ toWrite \in Nat
    BY <1>3, AdvanceWrite DEF IInv, TypeOK, Reserved, Transfers, Fill, WritePublish
  <2> DEFINE q == Queue \o SubSeq(wData, 1, toWrite)
  <2>2. /\ SubSeq(wData, 1, toWrite) \in Seq(Sample)
        /\ Len(SubSeq(wData, 1, toWrite)) = toWrite
        /\ \A k \in 1 .. toWrite : SubSeq(wData, 1, toWrite)[k] = wData[k]
    BY <2>1 DEF IInv, TypeOK
  <2>3. q \in Seq(Sample) /\ Len(q) = Fill + toWrite
    BY <2>1, <2>2, <1>0
  <2>4. ASSUME NEW k \in 1 .. Fill + toWrite
        PROVE  Queue'[k] = q[k]
    <3>0. Queue'[k] = buffer[CellAfter(readIndex, k - 1)]
      BY <2>1, <2>4, <1>3 DEF Queue, WritePublish, CellAfter
    <3>1. CASE k <= Fill
      BY <3>0, <3>1, <2>2, <1>0 DEF Queue
    <3>2. CASE k > Fill
      <4>1. q[k] = wData[k - Fill]
        BY <3>2, <2>1, <2>2, <1>0
      <4>2. PICK j \in 0 .. wDone - 1 : j = k - Fill - 1
        BY <3>2, <2>1, <1>0
      <4>3. buffer[CellAfter(writeIndex, j)] = wData[j + 1]
        BY <4>2 DEF IInv, Transfers
      <4>4. CellAfter(writeIndex, j) = CellAfter(readIndex, Fill + j)
        <5>1. j \in Nat /\ Fill + j < Cells
          BY <4>2, <2>1, <1>0 DEF IInv, TypeOK, Reserved, Cells
        <5>2. QED
          BY <5>1, WriteIndexIsCellAfterFill DEF IInv, TypeOK, Fill
      <4>5. k - 1 = Fill + j /\ k - Fill = j + 1
        BY <4>2, <1>0
      <4>6. QED
        BY <3>0, <4>1, <4>3, <4>4, <4>5
    <3>3. QED
      BY <3>1, <3>2, <2>1, <1>0
  <2>5. Queue' = q
    BY <2>1, <2>3, <2>4, <1>0, SameSequence
  <2>6. Fifo!Enqueue
    <3>1. wData # <<>> /\ wData' = <<>> /\ received' = received
      BY <2>1, <1>3 DEF WritePublish
    <3>2. Len(Queue) + toWrite <= Capacity
      BY <1>0 DEF IInv, TypeOK, Reserved
    <3>3. QED
      BY <3>1, <3>2, <2>1, <2>5 DEF Fifo!Enqueue
  <2>7. QED
    BY <2>6 DEF Fifo!Next
<1>4. ASSUME NEW count \in MaxCount, ReadBegin(count)
      PROVE  UNCHANGED Fifo!fifoVars
  BY <1>4 DEF ReadBegin, Queue, Fill, getAvailableRead, CellAfter, Fifo!fifoVars
<1>5. CASE ReadCopy
  BY <1>5 DEF ReadCopy, Queue, Fill, getAvailableRead, CellAfter, Fifo!fifoVars
<1>6. CASE ReadPublish
  <2>1. /\ Fill' = Fill - toRead /\ toRead \in 1 .. Fill
        /\ rDone = toRead /\ Fill' \in Nat
        /\ \A k \in Nat : toRead + k < Cells =>
              CellAfter(readIndex', k) = CellAfter(readIndex, toRead + k)
    BY <1>0, <1>6, AdvanceRead DEF IInv, TypeOK, Reserved, Fill, ReadPublish
  <2> DEFINE d == SubSeq(Queue, 1, toRead)
             q == SubSeq(Queue, toRead + 1, Len(Queue))
  <2> HIDE DEF Fill, Queue
  <2>2. /\ d \in Seq(Sample) /\ Len(d) = toRead
        /\ \A k \in 1 .. toRead : d[k] = Queue[k]
    <3>1. toRead \in 0 .. Len(Queue) /\ Queue \in Seq(Sample)
      BY <2>1, <1>0
    <3> QED BY <3>1, Prefix
  <2>3. /\ q \in Seq(Sample) /\ Len(q) = Fill - toRead
        /\ \A k \in 1 .. Fill - toRead : q[k] = Queue[toRead + k]
    <3>1. toRead \in 0 .. Len(Queue) /\ Queue \in Seq(Sample) /\ Len(Queue) = Fill
      BY <2>1, <1>0
    <3> QED BY <3>1, Suffix
  <2>4. received' = d
    <3>1. received' = rData /\ rData \in Seq(Sample) /\ Len(rData) = toRead
      BY <1>6, <2>1 DEF IInv, TypeOK, Transfers, ReadPublish
    <3>2. ASSUME NEW k \in 1 .. toRead
          PROVE  rData[k] = d[k]
      <4>1. PICK j \in 0 .. rDone - 1 : j = k - 1
        BY <2>1
      <4>2. rData[j + 1] = buffer[CellAfter(readIndex, j)]
        BY <4>1 DEF IInv, Transfers
      <4>3. Queue[k] = buffer[CellAfter(readIndex, j)]
        BY <4>1, <2>1, <1>0 DEF Queue
      <4>4. QED
        BY <4>1, <4>2, <4>3, <2>2
    <3>3. QED
      BY <3>1, <3>2, <2>2, SameSequence
  <2>5. Queue' = q
    <3>1. ASSUME NEW k \in 1 .. Fill - toRead
          PROVE  Queue'[k] = q[k]
      <4>1. Queue'[k] = buffer[CellAfter(readIndex', k - 1)]
        BY <2>1, <1>6 DEF Queue, ReadPublish, CellAfter
      <4>2. PICK j \in Nat : j = k - 1
        BY <2>1
      <4>3. CellAfter(readIndex', j) = CellAfter(readIndex, toRead + j)
        BY <4>2, <2>1, <1>0 DEF Cells
      <4>4. Queue[toRead + k] = buffer[CellAfter(readIndex, toRead + k - 1)]
        BY <2>1, <1>0 DEF Queue
      <4>5. toRead + k - 1 = toRead + j
        BY <4>2, <2>1
      <4>6. QED
        BY <4>1, <4>2, <4>3, <4>4, <4>5, <2>3
    <3>2. QED
      BY <3>1, <2>1, <2>3, <1>0, SameSequence
  <2>6. Fifo!Dequeue
    <3>1. wData' = wData
      BY <1>6 DEF ReadPublish
    <3>2. QED
      BY <3>1, <2>1, <2>4, <2>5, <1>0 DEF Fifo!Dequeue
  <2>7. QED
    BY <2>6 DEF Fifo!Next
<1>7. CASE Reset
  <2>1. wData = <<>> /\ wData' = wData /\ received' = received /\ Fill' = 0
    BY <1>7 DEF IInv, Transfers, Reset, Fill, getAvailableRead
  <2>2. Queue' = <<>>
    BY <2>1, <1>0
  <2>3. QED
    BY <2>1, <2>2 DEF Fifo!Clear, Fifo!Next
<1>8. CASE UNCHANGED vars
  BY <1>8 DEF vars, Queue, Fill, getAvailableRead, CellAfter, Fifo!fifoVars
<1>9. QED
  BY <1>1, <1>2, <1>3, <1>4, <1>5, <1>6, <1>7, <1>8
     DEF Next, Producer, Consumer, Fifo!Next

\* The ring implements the bounded FIFO queue: an overlapped, wrapping read
\* returns exactly the oldest published elements (RingBuffer.hpp 44-108), for
\* every capacity.
THEOREM RefinesFifo == Spec => FifoSpec
<1>1. Init => Fifo!Init
  BY RingAssumption DEF Init, Fifo!Init, Queue, Fill, getAvailableRead
<1>2. IInv /\ IInv' /\ [Next]_vars => [Fifo!Next]_(Fifo!fifoVars)
  BY StepRefines
<1>3. QED
  BY <1>1, <1>2, Invariance, PTL DEF Spec, FifoSpec, Fifo!Spec
=============================================================================
