---------------------------- MODULE ServicesProofs ----------------------------
(***************************************************************************)
(* Theorems about the components that share no state: each is proved of the  *)
(* component's own specification and holds of all of them side by side,      *)
(* because a step of the one that runs leaves the others alone.              *)
(***************************************************************************)
EXTENDS MCServices, PTPTimingProofs, SDPParserProofs, StreamConfigProofs,
        FiniteSetTheorems

-----------------------------------------------------------------------------
(* Side by side                                                             *)

LEMMA ServicesStart ==
  ServicesInit => /\ ServoInit /\ PtpIfInit /\ ClockInit /\ RtspInit /\ SocketInit
                  /\ WireInit /\ StatsInit /\ InInit /\ DoPInit /\ SdpInit
                  /\ ConfigInit /\ PoolInit /\ CleanupInit /\ HandlerInit /\ RecoveryInit /\ MonitorInit
BY DEF ServicesInit

\* What the others' steps leave alone.
LEMMA OthersStay ==
  [ServicesNext]_serviceVars =>
    /\ Timing \/ UNCHANGED timingVars
    /\ Network \/ UNCHANGED networkVars
    /\ Media \/ UNCHANGED mediaVars
    /\ Files \/ UNCHANGED fileVars
    /\ Shared \/ UNCHANGED sharedVars
    /\ Errors \/ UNCHANGED errorVars
BY DEF ServicesNext, serviceVars

LEMMA ServicesSteps ==
  [ServicesNext]_serviceVars =>
    /\ [ServoNext]_servoVars /\ [PtpIfNext]_ptpIfVars /\ [ClockNext]_clockVars
    /\ [RtspNext]_rtspVars /\ [SocketNext]_socketVars
    /\ [WireNext]_wireVars /\ [StatsNext]_statsVars /\ [DoPNext]_dopVars
    /\ [SdpNext]_sdpVars /\ [ConfigNext]_configVars
    /\ [PoolNextStep]_poolVars /\ [CleanupNext]_cleanupVars
    /\ [HandlerNext]_handlerVars /\ [RecoveryNext]_recoveryVars /\ [MonitorNext]_monitorVars
<1> SUFFICES ASSUME [ServicesNext]_serviceVars
             PROVE  /\ [ServoNext]_servoVars
                    /\ [PtpIfNext]_ptpIfVars /\ [ClockNext]_clockVars
                    /\ [RtspNext]_rtspVars /\ [SocketNext]_socketVars
                    /\ [WireNext]_wireVars /\ [StatsNext]_statsVars /\ [DoPNext]_dopVars
                    /\ [SdpNext]_sdpVars /\ [ConfigNext]_configVars
                    /\ [PoolNextStep]_poolVars /\ [CleanupNext]_cleanupVars
                    /\ [HandlerNext]_handlerVars /\ [RecoveryNext]_recoveryVars
                    /\ [MonitorNext]_monitorVars
  OBVIOUS
<1>1. [ServoNext]_servoVars /\ [PtpIfNext]_ptpIfVars /\ [ClockNext]_clockVars
  BY OthersStay DEF Timing, timingVars
<1>2. [RtspNext]_rtspVars /\ [SocketNext]_socketVars
  BY OthersStay DEF Network, networkVars
<1>3. [WireNext]_wireVars /\ [StatsNext]_statsVars /\ [DoPNext]_dopVars
  BY OthersStay DEF Media, mediaVars
<1>4. [SdpNext]_sdpVars /\ [ConfigNext]_configVars
  BY OthersStay DEF Files, fileVars
<1>5. [PoolNextStep]_poolVars /\ [CleanupNext]_cleanupVars
  BY OthersStay DEF Shared, sharedVars
<1>6. [HandlerNext]_handlerVars /\ [RecoveryNext]_recoveryVars /\ [MonitorNext]_monitorVars
  BY OthersStay DEF Errors, errorVars
<1> QED BY <1>1, <1>2, <1>3, <1>4, <1>5, <1>6

LEMMA EachComponentRuns ==
  ServicesSpec => /\ ServoSpec /\ PtpIfSpec /\ ClockSpec
                  /\ RtspSpec /\ SocketSpec /\ WireSpec
                  /\ StatsSpec /\ DoPSpec /\ SdpSpec /\ ConfigSpec /\ PoolSpec
                  /\ CleanupSpec /\ HandlerSpec /\ RecoverySpec /\ MonitorSpec
BY ServicesStart, ServicesSteps, PTL
   DEF ServicesSpec, ServoSpec, PtpIfSpec, ClockSpec, RtspSpec, SocketSpec, WireSpec,
       StatsSpec, DoPSpec, SdpSpec, ConfigSpec, PoolSpec, CleanupSpec, HandlerSpec, RecoverySpec,
       MonitorSpec

-----------------------------------------------------------------------------
(* RTSPClient: which answer a call takes                                    *)

SessionNames == 1 .. MaxCalls \cup {NoSession}
RtspRequests == [method : Methods, seq : 1 .. MaxCalls, session : SessionNames]
RtspAnswers  == [seq : 1 .. MaxCalls, ok : BOOLEAN, session : SessionNames]

RtspTyped ==
  /\ socket \in {"none", "open", "closed"} /\ call \in Methods \cup {"none"}
  /\ sessionID \in SessionNames /\ granted \subseteq 1 .. MaxCalls
  /\ toServer \in Seq(RtspRequests) /\ toClient \in Seq(RtspAnswers)
  /\ socket = "none" => sessionID = NoSession

\* The state's numbers: answers read, requests answered and not answered yet,
\* calls that gave up, the next request, the request of the last answer.
Numbers(read, ahead, asked, gave, newest, last) ==
  /\ answered[2] = read /\ answered[1] = last /\ timeouts = gave /\ cseq = newest
  /\ Len(toClient) = ahead /\ Len(toServer) = asked

\* The answers that were read are the first ones; what is under way follows
\* them without a gap, answers first, and on an open connection it reaches to
\* the newest request.
PipelineInOrder(read, ahead, asked, newest) ==
  /\ \A i \in 1 .. ahead : toClient[i].seq = read + i
  /\ \A i \in 1 .. asked : toServer[i].seq = read + ahead + i
  /\ read + ahead + asked <= newest - 1 /\ newest \in 1 .. MaxCalls + 1
  /\ socket = "open" => read + ahead + asked = newest - 1
  /\ asked # 0 => socket = "open"
  /\ socket = "none" => newest = 1

\* Every call read an answer, gave up, or is under way.
CallsCounted(read, gave, newest, last) ==
  /\ read + gave <= newest - 1
  /\ call # "none" => socket # "none" /\ read + gave + 1 = newest - 1
  /\ socket = "open" /\ call = "none" => read + gave = newest - 1
  /\ read <= last /\ last - read <= gave

AnswersInOrder ==
  \E read, ahead, asked, gave, newest \in Nat, last \in Int :
    /\ Numbers(read, ahead, asked, gave, newest, last)
    /\ PipelineInOrder(read, ahead, asked, newest)
    /\ CallsCounted(read, gave, newest, last)

\* Without a time-out one request at most is under way, the call's own.
SessionKnown ==
  timeouts = 0 /\ socket = "open" =>
    /\ call # "TEARDOWN" => sessionID = NoSession \/ sessionID \in granted
    /\ toServer # <<>> => toServer[1].method = call
    /\ call = "SETUP" /\ toClient # <<>> =>
         toClient[1].session = NoSession \/ toClient[1].session \in granted

RtspInv == RtspTyped /\ AnswersInOrder /\ SessionKnown

LEMMA EmptyIsZero ==
  ASSUME NEW S, NEW s \in Seq(S)
  PROVE  (s = <<>> <=> Len(s) = 0) /\ Len(s) \in Nat
BY EmptySeq, LenProperties

LEMMA HeadAndTail ==
  ASSUME NEW S, NEW s \in Seq(S), s # <<>>
  PROVE  /\ Head(s) = s[1] /\ Head(s) \in S
         /\ Tail(s) \in Seq(S) /\ Len(Tail(s)) = Len(s) - 1 /\ Len(s) \in Nat \ {0}
         /\ \A i \in 1 .. Len(s) - 1 : Tail(s)[i] = s[i + 1]
<1>1. Len(s) \in Nat \ {0}
  BY EmptyIsZero
<1>2. Head(s) = s[1] /\ s[1] \in S
  BY <1>1, HeadTailProperties, ElementOfSeq
<1> QED BY <1>1, <1>2, HeadTailProperties

LEMMA InitRtsp == RtspInit => RtspInv
<1> SUFFICES ASSUME RtspInit PROVE RtspInv
  OBVIOUS
<1>1. <<>> \in Seq(RtspRequests) /\ <<>> \in Seq(RtspAnswers) /\ Len(<<>>) = 0
  BY EmptySeq
<1>2. RtspTyped
  BY <1>1, RTSPAssumption DEF RtspInit, RtspTyped, SessionNames
<1>3. Numbers(0, 0, 0, 0, 1, 0) /\ PipelineInOrder(0, 0, 0, 1) /\ CallsCounted(0, 0, 1, 0)
  BY <1>1, RTSPAssumption DEF RtspInit, Numbers, PipelineInOrder, CallsCounted
<1>4. SessionKnown
  BY DEF RtspInit, SessionKnown
<1> QED BY <1>2, <1>3, <1>4 DEF RtspInv, AnswersInOrder

\* What Finish makes of the client's session.
LEMMA FinishSession ==
  ASSUME NEW ok \in BOOLEAN, NEW name \in SessionNames, Finish(ok, name), RtspTyped
  PROVE  /\ call' = "none" /\ sessionID' \in SessionNames
         /\ call = "TEARDOWN" => sessionID' = NoSession
         /\ call # "TEARDOWN" => \/ sessionID' = sessionID
                                 \/ call = "SETUP" /\ sessionID' = name
BY DEF Finish, RtspTyped, SessionNames

LEMMA SendKeepsRtsp ==
  ASSUME RtspInv, NEW m \in Methods, SendRequest(m)
  PROVE  RtspInv'
<1> DEFINE r == [method |-> m, seq |-> cseq, session |-> sessionID]
<1>1. /\ call = "none" /\ socket # "none" /\ cseq <= MaxCalls /\ cseq' = cseq + 1
      /\ UNCHANGED <<socket, sessionID, toClient, granted, answered, timeouts>>
      /\ RtspTyped /\ AnswersInOrder /\ SessionKnown
  BY DEF SendRequest, RtspInv
<1>2. PICK read, ahead, asked, gave, newest \in Nat, last \in Int :
           /\ Numbers(read, ahead, asked, gave, newest, last)
           /\ PipelineInOrder(read, ahead, asked, newest)
           /\ CallsCounted(read, gave, newest, last)
  BY <1>1 DEF AnswersInOrder
<1>3. newest \in 1 .. MaxCalls /\ newest + 1 \in 1 .. MaxCalls + 1 /\ newest + 1 \in Nat
      /\ MaxCalls \in Nat
  BY <1>1, <1>2, RTSPAssumption DEF Numbers, PipelineInOrder
<1>4. CASE socket = "open"
  <2>1. toServer' = Append(toServer, r) /\ call' = m /\ r \in RtspRequests
    BY <1>1, <1>2, <1>3, <1>4 DEF SendRequest, RtspRequests, RtspTyped, Numbers
  <2>2. m # "none" /\ r.seq = newest /\ r.method = m
    BY <1>2 DEF Methods, SessionMethods, Numbers
  <2> HIDE DEF r
  <2>3. /\ toServer' \in Seq(RtspRequests) /\ Len(toServer') = asked + 1
        /\ \A i \in 1 .. asked : toServer'[i] = toServer[i]
        /\ toServer'[asked + 1] = r
    BY <1>1, <1>2, <2>1, AppendProperties DEF RtspTyped, Numbers
  <2>4. RtspTyped'
    BY <1>1, <2>1, <2>3 DEF RtspTyped
  <2>5. Numbers(read, ahead, asked + 1, gave, newest + 1, last)'
    BY <1>1, <1>2, <2>3 DEF Numbers
  <2>6. PipelineInOrder(read, ahead, asked + 1, newest + 1)'
    <3>1. read + ahead + asked = newest - 1
      BY <1>2, <1>4 DEF PipelineInOrder
    <3>2. ASSUME NEW i \in 1 .. asked + 1 PROVE toServer'[i].seq = read + ahead + i
      <4>1. CASE i = asked + 1
        <5>1. toServer'[i].seq = r.seq
          BY <2>3, <4>1
        <5>2. r.seq = read + ahead + asked + 1
          BY <2>2, <3>1
        <5>3. r.seq \in Int
          BY <2>2
        <5> QED BY <4>1, <5>1, <5>2, <5>3
      <4>2. CASE i # asked + 1
        <5>1. i \in 1 .. asked
          BY <4>2
        <5> QED BY <1>2, <2>3, <5>1 DEF PipelineInOrder
      <4> QED BY <4>1, <4>2
    <3>3. \A i \in 1 .. ahead : toClient'[i].seq = read + i
      BY <1>1, <1>2 DEF PipelineInOrder
    <3>4. read + ahead + (asked + 1) = newest + 1 - 1
      BY <3>1
    <3> QED BY <1>1, <1>3, <1>4, <3>2, <3>3, <3>4 DEF PipelineInOrder
  <2>7. CallsCounted(read, gave, newest + 1, last)'
    BY <1>1, <1>2, <1>4, <2>1, <2>2 DEF CallsCounted
  <2>8. SessionKnown'
    <3> SUFFICES ASSUME timeouts = 0 PROVE SessionKnown'
      BY <1>1 DEF SessionKnown
    <3>1. gave = 0
      BY <1>2 DEF Numbers
    <3>2. asked = 0 /\ ahead = 0
      BY <1>1, <1>2, <1>4, <3>1 DEF PipelineInOrder, CallsCounted
    <3>3. toClient = <<>>
      BY <1>1, <1>2, <3>2, EmptyIsZero DEF Numbers, RtspTyped
    <3>4. toServer'[1] = r
      BY <2>3, <3>2
    <3>5. sessionID = NoSession \/ sessionID \in granted
      BY <1>1, <1>4 DEF SessionKnown
    <3>6. toServer'[1].method = call'
      BY <2>1, <2>2, <3>4
    <3>7. toClient' = <<>> /\ sessionID' = sessionID /\ granted' = granted
      BY <1>1, <3>3
    <3> QED BY <3>5, <3>6, <3>7 DEF SessionKnown
  <2>9. asked + 1 \in Nat
    OBVIOUS
  <2> QED BY <1>3, <2>4, <2>5, <2>6, <2>7, <2>8, <2>9 DEF RtspInv, AnswersInOrder
<1>5. CASE socket # "open"
  <2>1. UNCHANGED <<toServer, call>>
    BY <1>5 DEF SendRequest
  <2>2. RtspTyped' /\ SessionKnown'
    BY <1>1, <1>5, <2>1 DEF RtspTyped, SessionKnown
  <2>3. Numbers(read, ahead, asked, gave, newest + 1, last)'
    BY <1>1, <1>2, <2>1 DEF Numbers
  <2>4. PipelineInOrder(read, ahead, asked, newest + 1)' /\ CallsCounted(read, gave, newest + 1, last)'
    BY <1>1, <1>2, <1>3, <1>5, <2>1 DEF PipelineInOrder, CallsCounted
  <2> QED BY <1>3, <2>2, <2>3, <2>4 DEF RtspInv, AnswersInOrder
<1> QED BY <1>4, <1>5

LEMMA ReadKeepsRtsp == RtspInv /\ ReadAnswer => RtspInv'
<1> SUFFICES ASSUME RtspInv, ReadAnswer PROVE RtspInv'
  OBVIOUS
<1>1. /\ call # "none" /\ toClient # <<>> /\ Finish(Head(toClient).ok, Head(toClient).session)
      /\ answered' = <<cseq - 1, Head(toClient).seq>> /\ toClient' = Tail(toClient)
      /\ UNCHANGED <<socket, cseq, toServer, granted, timeouts>>
      /\ RtspTyped /\ AnswersInOrder /\ SessionKnown
  BY DEF ReadAnswer, RtspInv
<1>2. PICK read, ahead, asked, gave, newest \in Nat, last \in Int :
           /\ Numbers(read, ahead, asked, gave, newest, last)
           /\ PipelineInOrder(read, ahead, asked, newest)
           /\ CallsCounted(read, gave, newest, last)
  BY <1>1 DEF AnswersInOrder
<1>3. /\ Head(toClient) = toClient[1] /\ toClient[1] \in RtspAnswers
      /\ toClient' \in Seq(RtspAnswers) /\ Len(toClient') = ahead - 1 /\ ahead \in Nat \ {0}
      /\ \A i \in 1 .. ahead - 1 : toClient'[i] = toClient[i + 1]
  BY <1>1, <1>2, HeadAndTail DEF RtspTyped, Numbers
<1>4. toClient[1].seq = read + 1
  <2>1. 1 \in 1 .. ahead
    BY <1>3
  <2> QED BY <1>2, <2>1 DEF PipelineInOrder
<1>5. answered'[1] = newest - 1 /\ answered'[2] = read + 1
  <2>1. cseq = newest
    BY <1>2 DEF Numbers
  <2> QED BY <1>1, <1>3, <1>4, <2>1
<1>6. /\ call' = "none" /\ sessionID' \in SessionNames
      /\ call = "TEARDOWN" => sessionID' = NoSession
      /\ call # "TEARDOWN" => \/ sessionID' = sessionID
                              \/ call = "SETUP" /\ sessionID' = toClient[1].session
  <2>1. toClient[1].ok \in BOOLEAN /\ toClient[1].session \in SessionNames
    BY <1>3 DEF RtspAnswers
  <2> QED BY <1>1, <1>3, <2>1, FinishSession
<1>7. RtspTyped'
  BY <1>1, <1>2, <1>3, <1>6 DEF RtspTyped, CallsCounted
<1>8. Numbers(read + 1, ahead - 1, asked, gave, newest, newest - 1)'
  BY <1>1, <1>2, <1>3, <1>5 DEF Numbers
<1>9. PipelineInOrder(read + 1, ahead - 1, asked, newest)'
  <2>1. ASSUME NEW i \in 1 .. ahead - 1 PROVE toClient'[i].seq = (read + 1) + i
    <3>1. toClient'[i] = toClient[i + 1] /\ i + 1 \in 1 .. ahead
      BY <1>3
    <3>2. toClient[i + 1].seq = read + (i + 1)
      BY <1>2, <3>1 DEF PipelineInOrder
    <3> QED BY <3>1, <3>2
  <2>2. (read + 1) + (ahead - 1) = read + ahead
    BY <1>3
  <2> QED BY <1>1, <1>2, <2>1, <2>2 DEF PipelineInOrder
<1>10. CallsCounted(read + 1, gave, newest, newest - 1)'
  BY <1>1, <1>2, <1>6 DEF CallsCounted
<1>11. SessionKnown'
  <2> SUFFICES ASSUME timeouts = 0, socket = "open" PROVE SessionKnown'
    BY <1>1 DEF SessionKnown
  <2>1. gave = 0
    BY <1>2 DEF Numbers
  <2>2. asked = 0
    BY <1>1, <1>2, <1>3, <2>1 DEF PipelineInOrder, CallsCounted
  <2>3. toServer = <<>>
    BY <1>1, <1>2, <2>2, EmptyIsZero DEF RtspTyped, Numbers
  <2>4. sessionID' = NoSession \/ sessionID' \in granted
    BY <1>1, <1>6 DEF SessionKnown
  <2> QED BY <1>1, <1>6, <2>3, <2>4 DEF SessionKnown
<1>12. read + 1 \in Nat /\ ahead - 1 \in Nat /\ newest - 1 \in Int
  BY <1>3
<1> QED BY <1>7, <1>8, <1>9, <1>10, <1>11, <1>12 DEF RtspInv, AnswersInOrder

LEMMA ServeKeepsRtsp ==
  ASSUME RtspInv, NEW ok \in BOOLEAN, Serve(ok)
  PROVE  RtspInv'
<1> DEFINE r == Head(toServer)
           grants == ok /\ r.method = "SETUP"
           a == [seq |-> r.seq, ok |-> ok, session |-> IF grants THEN r.seq ELSE NoSession]
<1>1. /\ socket = "open" /\ toServer # <<>> /\ toClient' = Append(toClient, a)
      /\ granted' = IF grants THEN granted \cup {r.seq}
                    ELSE IF ok /\ r.method = "TEARDOWN" THEN granted \ {r.session} ELSE granted
      /\ toServer' = Tail(toServer)
      /\ UNCHANGED <<socket, cseq, sessionID, call, answered, timeouts>>
      /\ RtspTyped /\ AnswersInOrder /\ SessionKnown
  BY DEF Serve, RtspInv
<1>2. PICK read, ahead, asked, gave, newest \in Nat, last \in Int :
           /\ Numbers(read, ahead, asked, gave, newest, last)
           /\ PipelineInOrder(read, ahead, asked, newest)
           /\ CallsCounted(read, gave, newest, last)
  BY <1>1 DEF AnswersInOrder
<1>3. /\ r = toServer[1] /\ r \in RtspRequests
      /\ toServer' \in Seq(RtspRequests) /\ Len(toServer') = asked - 1 /\ asked \in Nat \ {0}
      /\ \A i \in 1 .. asked - 1 : toServer'[i] = toServer[i + 1]
  BY <1>1, <1>2, HeadAndTail DEF RtspTyped, Numbers
<1>4. r.seq \in 1 .. MaxCalls /\ r.seq = read + ahead + 1
  <2>1. toServer[1].seq = read + ahead + 1
    <3>1. 1 \in 1 .. asked
      BY <1>3
    <3> QED BY <1>2, <3>1 DEF PipelineInOrder
  <2> QED BY <1>3, <2>1 DEF RtspRequests
<1>5. a \in RtspAnswers /\ a.seq = r.seq /\ (a.session = NoSession \/ (grants /\ a.session = r.seq))
  <2>1. PICK number \in 1 .. MaxCalls : number = r.seq
    BY <1>4
  <2>2. PICK name \in SessionNames : name = IF grants THEN r.seq ELSE NoSession
    BY <2>1 DEF SessionNames
  <2>3. a = [seq |-> number, ok |-> ok, session |-> name]
    <3> HIDE DEF grants, r
    <3> QED BY <2>1, <2>2
  <2>4. name = NoSession \/ (grants /\ name = r.seq)
    BY <2>2
  <2> HIDE DEF a, r
  <2> QED BY <2>1, <2>3, <2>4 DEF RtspAnswers
<1> HIDE DEF a
<1>6. /\ toClient' \in Seq(RtspAnswers) /\ Len(toClient') = ahead + 1
      /\ \A i \in 1 .. ahead : toClient'[i] = toClient[i]
      /\ toClient'[ahead + 1] = a
  BY <1>1, <1>2, <1>5, AppendProperties DEF RtspTyped, Numbers
<1>7. RtspTyped'
  <2>1. granted' \subseteq 1 .. MaxCalls
    BY <1>1, <1>4 DEF RtspTyped
  <2> QED BY <1>1, <1>3, <1>6, <2>1 DEF RtspTyped
<1>8. Numbers(read, ahead + 1, asked - 1, gave, newest, last)'
  BY <1>1, <1>2, <1>3, <1>6 DEF Numbers
<1>9. PipelineInOrder(read, ahead + 1, asked - 1, newest)'
  <2>1. ASSUME NEW i \in 1 .. ahead + 1 PROVE toClient'[i].seq = read + i
    <3>1. CASE i = ahead + 1
      <4>1. toClient'[i].seq = r.seq
        BY <1>5, <1>6, <3>1
      <4> HIDE DEF r
      <4> QED BY <1>4, <3>1, <4>1
    <3>2. CASE i # ahead + 1
      <4>1. i \in 1 .. ahead
        BY <3>2
      <4>2. toClient'[i] = toClient[i] /\ toClient[i].seq = read + i
        BY <1>2, <1>6, <4>1 DEF PipelineInOrder
      <4> QED BY <4>2
    <3> QED BY <3>1, <3>2
  <2>2. ASSUME NEW i \in 1 .. asked - 1 PROVE toServer'[i].seq = read + (ahead + 1) + i
    <3>1. toServer'[i] = toServer[i + 1] /\ i + 1 \in 1 .. asked
      BY <1>3
    <3>2. toServer[i + 1].seq = read + ahead + (i + 1)
      BY <1>2, <3>1 DEF PipelineInOrder
    <3> QED BY <3>1, <3>2
  <2>3. read + (ahead + 1) + (asked - 1) = read + ahead + asked
    BY <1>3
  <2> QED BY <1>1, <1>2, <2>1, <2>2, <2>3 DEF PipelineInOrder
<1>10. CallsCounted(read, gave, newest, last)'
  BY <1>1, <1>2 DEF CallsCounted
<1>11. SessionKnown'
  <2> SUFFICES ASSUME timeouts = 0 PROVE SessionKnown'
    BY <1>1 DEF SessionKnown
  <2>1. gave = 0
    BY <1>2 DEF Numbers
  <2>2. asked = 1 /\ ahead = 0 /\ call # "none"
    BY <1>1, <1>2, <1>3, <2>1 DEF PipelineInOrder, CallsCounted
  <2>3. toServer' = <<>> /\ toClient'[1] = a
    BY <1>3, <1>6, <2>2, EmptyIsZero
  <2>4. r.method = call /\ (call # "TEARDOWN" => sessionID = NoSession \/ sessionID \in granted)
    BY <1>1, <1>3 DEF SessionKnown
  <2>5. call # "TEARDOWN" => granted \subseteq granted' /\ (grants => r.seq \in granted')
    BY <1>1, <2>4
  <2> QED BY <1>1, <1>5, <2>3, <2>4, <2>5 DEF SessionKnown
<1>12. ahead + 1 \in Nat /\ asked - 1 \in Nat
  BY <1>3
<1> QED BY <1>7, <1>8, <1>9, <1>10, <1>11, <1>12 DEF RtspInv, AnswersInOrder

LEMMA NextRtsp == RtspInv /\ [RtspNext]_rtspVars => RtspInv'
<1> SUFFICES ASSUME RtspInv, [RtspNext]_rtspVars PROVE RtspInv'
  OBVIOUS
<1>0. RtspTyped /\ AnswersInOrder /\ SessionKnown
  BY DEF RtspInv
<1>9. PICK read, ahead, asked, gave, newest \in Nat, last \in Int :
           /\ Numbers(read, ahead, asked, gave, newest, last)
           /\ PipelineInOrder(read, ahead, asked, newest)
           /\ CallsCounted(read, gave, newest, last)
  BY <1>0 DEF AnswersInOrder
<1>1. CASE Connect
  <2>1. /\ call = "none" /\ socket = "none" /\ socket' = "open"
        /\ UNCHANGED <<cseq, sessionID, call, toServer, toClient, granted, answered, timeouts>>
    BY <1>1 DEF Connect
  <2>2. read = 0 /\ ahead = 0 /\ asked = 0 /\ gave = 0 /\ newest = 1
    BY <1>9, <2>1 DEF PipelineInOrder, CallsCounted
  <2>3. PipelineInOrder(read, ahead, asked, newest)' /\ CallsCounted(read, gave, newest, last)'
    BY <1>9, <2>1, <2>2 DEF PipelineInOrder, CallsCounted
  <2>4. Numbers(read, ahead, asked, gave, newest, last)' /\ RtspTyped'
    BY <1>0, <1>9, <2>1 DEF Numbers, RtspTyped
  <2>5. toServer = <<>> /\ toClient = <<>>
    BY <1>0, <1>9, <2>2, EmptyIsZero DEF Numbers, RtspTyped
  <2>6. SessionKnown'
    BY <1>0, <2>1, <2>5 DEF SessionKnown, RtspTyped
  <2> QED BY <2>3, <2>4, <2>6 DEF RtspInv, AnswersInOrder
<1>2. CASE Disconnect
  <2>1. /\ call' = "none" /\ socket' = "none" /\ cseq' = 1 /\ sessionID' = NoSession
        /\ toServer' = <<>> /\ toClient' = <<>> /\ granted' = {}
        /\ answered' = <<0, 0>> /\ timeouts' = 0
    BY <1>2 DEF Disconnect
  <2>2. <<>> \in Seq(RtspRequests) /\ <<>> \in Seq(RtspAnswers) /\ Len(<<>>) = 0
    BY EmptySeq
  <2>3. RtspTyped' /\ SessionKnown'
    BY <2>1, <2>2, RTSPAssumption DEF RtspTyped, SessionNames, SessionKnown
  <2>4. Numbers(0, 0, 0, 0, 1, 0)' /\ CallsCounted(0, 0, 1, 0)'
    BY <2>1, <2>2 DEF Numbers, CallsCounted
  <2>5. PipelineInOrder(0, 0, 0, 1)'
    BY <2>1, RTSPAssumption DEF PipelineInOrder
  <2>6. AnswersInOrder'
    BY <2>4, <2>5 DEF AnswersInOrder
  <2> QED BY <2>3, <2>6 DEF RtspInv
<1>3. CASE ReadAnswer
  BY <1>3, ReadKeepsRtsp
<1>4. CASE NoAnswer
  <2>1. /\ call # "none" /\ toClient = <<>> /\ Finish(FALSE, NoSession) /\ timeouts' = timeouts + 1
        /\ UNCHANGED <<socket, cseq, toServer, toClient, granted, answered>>
    BY <1>4 DEF NoAnswer
  <2>2. call' = "none" /\ sessionID' \in SessionNames
    BY <1>0, <2>1, FinishSession DEF SessionNames
  <2>3. RtspTyped'
    BY <1>0, <1>9, <2>1, <2>2 DEF RtspTyped, CallsCounted
  <2>4. Numbers(read, ahead, asked, gave + 1, newest, last)'
    BY <1>9, <2>1 DEF Numbers
  <2>5. PipelineInOrder(read, ahead, asked, newest)' /\ CallsCounted(read, gave + 1, newest, last)'
    BY <1>9, <2>1, <2>2 DEF PipelineInOrder, CallsCounted
  <2>6. SessionKnown'
    <3>1. timeouts' = gave + 1 /\ gave + 1 # 0
      BY <1>9, <2>1 DEF Numbers
    <3> QED BY <3>1 DEF SessionKnown
  <2>7. gave + 1 \in Nat
    OBVIOUS
  <2> QED BY <2>3, <2>4, <2>5, <2>6, <2>7 DEF RtspInv, AnswersInOrder
<1>5. CASE ServerCloses
  <2>1. /\ socket = "open" /\ socket' = "closed" /\ toServer' = <<>> /\ granted' = {}
        /\ UNCHANGED <<cseq, sessionID, call, toClient, answered, timeouts>>
    BY <1>5 DEF ServerCloses
  <2>2. <<>> \in Seq(RtspRequests) /\ Len(<<>>) = 0
    BY EmptySeq
  <2>3. RtspTyped' /\ SessionKnown'
    BY <1>0, <2>1, <2>2 DEF RtspTyped, SessionKnown
  <2>4. Numbers(read, ahead, 0, gave, newest, last)'
    BY <1>9, <2>1, <2>2 DEF Numbers
  <2>5. PipelineInOrder(read, ahead, 0, newest)' /\ CallsCounted(read, gave, newest, last)'
    BY <1>9, <2>1 DEF PipelineInOrder, CallsCounted
  <2> QED BY <2>3, <2>4, <2>5 DEF RtspInv, AnswersInOrder
<1>6. ASSUME NEW m \in Methods, SendRequest(m) PROVE RtspInv'
  BY <1>6, SendKeepsRtsp
<1>7. ASSUME NEW ok \in BOOLEAN, Serve(ok) PROVE RtspInv'
  BY <1>7, ServeKeepsRtsp
<1>8. CASE UNCHANGED rtspVars
  <2>1. UNCHANGED <<socket, cseq, sessionID, call, toServer, toClient, granted, answered, timeouts>>
    BY <1>8 DEF rtspVars
  <2>2. RtspTyped' /\ SessionKnown'
    BY <1>0, <2>1 DEF RtspTyped, SessionKnown
  <2>3. Numbers(read, ahead, asked, gave, newest, last)'
    BY <1>9, <2>1 DEF Numbers
  <2>4. PipelineInOrder(read, ahead, asked, newest)' /\ CallsCounted(read, gave, newest, last)'
    BY <1>9, <2>1 DEF PipelineInOrder, CallsCounted
  <2> QED BY <2>2, <2>3, <2>4 DEF RtspInv, AnswersInOrder
<1> QED BY <1>1, <1>2, <1>3, <1>4, <1>5, <1>6, <1>7, <1>8 DEF RtspNext

\* A call takes the answer to its own request unless an earlier call on the
\* connection gave up waiting, and is behind by at most as many as did; the
\* session the client names is then one the server holds (RTSPClient::sendRequest,
\* readResponse, setup, teardown).
THEOREM AnswersBelong == RtspSpec => [](RtspTypeOK /\ AnswersLagByTimeouts /\ SessionIsLive)
<1>1. ASSUME RtspInv PROVE RtspTypeOK /\ AnswersLagByTimeouts /\ SessionIsLive
  <2>1. PICK read, ahead, asked, gave, newest \in Nat, last \in Int :
           /\ Numbers(read, ahead, asked, gave, newest, last)
           /\ PipelineInOrder(read, ahead, asked, newest)
           /\ CallsCounted(read, gave, newest, last)
    BY <1>1 DEF RtspInv, AnswersInOrder
  <2>2. gave \in 0 .. MaxCalls /\ newest \in 1 .. MaxCalls + 1 /\ read <= last /\ last - read <= gave
    BY <2>1, RTSPAssumption DEF PipelineInOrder, CallsCounted
  <2>3. timeouts = gave /\ cseq = newest /\ answered[2] = read /\ answered[1] = last
    BY <2>1 DEF Numbers
  <2>4. RtspTypeOK
    BY <1>1, <2>2, <2>3 DEF RtspInv, RtspTyped, RtspTypeOK, SessionNames
  <2>5. AnswersLagByTimeouts
    BY <2>2, <2>3 DEF AnswersLagByTimeouts
  <2>6. SessionIsLive
    BY <1>1 DEF RtspInv, SessionKnown, SessionIsLive
  <2> QED BY <2>4, <2>5, <2>6
<1>2. RtspSpec => []RtspInv
  BY InitRtsp, NextRtsp, PTL DEF RtspSpec
<1> QED BY <1>1, <1>2, PTL

-----------------------------------------------------------------------------
(* RTPSocket: its descriptor and its membership                             *)

OpenSteps == {"none", "bind", "iface", "join", "ttl", "txiface"}
Memberships == [group : Groups \cup {"zero"}, iface : Ifaces \cup {"zero"}]

SocketTyped ==
  /\ sockfd \in 0 .. nextFd - 1 /\ nextFd \in 1 .. MaxFds + 1 /\ isReceiver \in BOOLEAN
  /\ multicastAddr \in Groups \cup {"zero"} /\ boundIface \in Ifaces \cup {"zero"}
  /\ \E D \in SUBSET (1 .. nextFd - 1) : openFds \in [D -> Memberships]
  /\ dropFailed \in BOOLEAN /\ reopened \in BOOLEAN
  /\ opening.step \in OpenSteps /\ opening.iface \in Ifaces
  /\ opening.step = "none" <=> opening = NoCall
  /\ opening.step # "none" => opening.group \in Groups
  /\ opening \in [receiver : BOOLEAN, group : Groups \cup {"zero"}, iface : Ifaces, step : OpenSteps]

\* A call under way works on a descriptor that has joined nothing yet.
CallHasDescriptor ==
  opening.step # "none" => sockfd # 0 /\ openFds[sockfd] = NotJoined

SocketInv == SocketTyped /\ CallHasDescriptor /\ NoDescriptorLeaks /\ MembershipMatches

LEMMA InitSocket == SocketInit => SocketInv
<1> SUFFICES ASSUME SocketInit PROVE SocketInv
  OBVIOUS
<1>1. openFds \in [{} -> Memberships] /\ {} \in SUBSET (1 .. nextFd - 1) /\ DOMAIN openFds = {}
  BY DEF SocketInit
<1>2. SocketTyped
  <2>1. opening = NoCall /\ opening.step = "none" /\ opening.iface \in Ifaces
        /\ opening \in [receiver : BOOLEAN, group : Groups \cup {"zero"}, iface : Ifaces,
                        step : OpenSteps]
    BY SocketAssumption DEF SocketInit, NoCall, OpenSteps
  <2>2. isReceiver \in BOOLEAN /\ dropFailed \in BOOLEAN /\ reopened \in BOOLEAN
    BY DEF SocketInit
  <2>3. sockfd \in 0 .. nextFd - 1 /\ nextFd \in 1 .. MaxFds + 1
    BY SocketAssumption DEF SocketInit
  <2>4. multicastAddr \in Groups \cup {"zero"} /\ boundIface \in Ifaces \cup {"zero"}
    BY DEF SocketInit
  <2> QED BY <1>1, <2>1, <2>2, <2>3, <2>4 DEF SocketTyped, OpenSteps
<1> QED BY <1>1, <1>2 DEF SocketInit, SocketInv, CallHasDescriptor, NoDescriptorLeaks,
           MembershipMatches, MayReceive, MaySend, NoCall

\* What closing one descriptor leaves of the kernel's.
LEMMA ClosedFd ==
  ASSUME SocketInv
  PROVE  /\ DOMAIN KeptFds(openFds, {sockfd}) = DOMAIN openFds \ {sockfd}
         /\ \E D \in SUBSET (1 .. nextFd - 1) : KeptFds(openFds, {sockfd}) \in [D -> Memberships]
<1>1. PICK D \in SUBSET (1 .. nextFd - 1) : openFds \in [D -> Memberships]
  BY DEF SocketInv, SocketTyped
<1>2. DOMAIN openFds = D
  BY <1>1
<1>3. KeptFds(openFds, {sockfd}) \in [D \ {sockfd} -> Memberships]
  BY <1>1, <1>2 DEF KeptFds
<1>4. D \ {sockfd} \in SUBSET (1 .. nextFd - 1)
  OBVIOUS
<1> QED BY <1>2, <1>3, <1>4

\* A new descriptor replaces what the object held.
LEMMA OpenedFd ==
  ASSUME SocketInv, NEW r \in BOOLEAN, NEW g \in Groups, NEW i \in Ifaces, Socket(r, g, i)
  PROVE  SocketInv'
<1>1. /\ opening = NoCall /\ nextFd <= MaxFds /\ reopened' = (reopened \/ sockfd # 0)
      /\ UNCHANGED <<isReceiver, multicastAddr, boundIface, dropFailed>>
      /\ SocketTyped /\ NoDescriptorLeaks /\ MembershipMatches
  BY DEF Socket, SocketInv
<1>2. reopened' \in BOOLEAN
  BY <1>1
<1>3. PICK D \in SUBSET (1 .. nextFd - 1) : openFds \in [D -> Memberships]
  BY <1>1 DEF SocketTyped
<1>4. DOMAIN openFds = D /\ nextFd \in 1 .. MaxFds /\ MaxFds \in Nat
  BY <1>1, <1>3, SocketAssumption DEF SocketTyped
<1>5. CASE sockfd' = 0 /\ UNCHANGED <<nextFd, openFds, opening>>
  <2>1. SocketTyped'
    BY <1>1, <1>2, <1>3, <1>4, <1>5 DEF SocketTyped
  <2>2. CallHasDescriptor' /\ MembershipMatches'
    BY <1>1, <1>5 DEF CallHasDescriptor, MembershipMatches, MayReceive, MaySend, NoCall
  <2>3. NoDescriptorLeaks'
    <3>1. ~reopened' => D \subseteq {0}
      BY <1>1, <1>4 DEF NoDescriptorLeaks
    <3>2. ~reopened' => D = {}
      BY <1>4, <3>1
    <3> QED BY <1>4, <1>5, <3>2 DEF NoDescriptorLeaks
  <2> QED BY <2>1, <2>2, <2>3 DEF SocketInv
<1>6. CASE /\ sockfd' = nextFd /\ nextFd' = nextFd + 1
           /\ openFds' = [f \in DOMAIN openFds \cup {nextFd} |->
                            IF f = nextFd THEN NotJoined ELSE openFds[f]]
           /\ opening' = [receiver |-> r, group |-> g, iface |-> i,
                          step |-> IF r THEN "bind" ELSE "ttl"]
  <2>1. NotJoined \in Memberships
    BY DEF NotJoined, Memberships
  <2>2. /\ openFds' \in [D \cup {nextFd} -> Memberships] /\ DOMAIN openFds' = D \cup {nextFd}
        /\ openFds'[nextFd] = NotJoined
    BY <1>3, <1>4, <1>6, <2>1
  <2>3. D \cup {nextFd} \in SUBSET (1 .. nextFd' - 1) /\ nextFd' \in 1 .. MaxFds + 1
        /\ sockfd' \in 0 .. nextFd' - 1 /\ sockfd' # 0
    BY <1>4, <1>6
  <2>4. /\ opening' \in [receiver : BOOLEAN, group : Groups \cup {"zero"}, iface : Ifaces,
                         step : OpenSteps]
        /\ opening'.step \in OpenSteps /\ opening'.step # "none" /\ opening'.iface \in Ifaces
        /\ opening'.group \in Groups /\ opening' # NoCall
    <3>1. PICK s \in {"bind", "ttl"} : s = IF r THEN "bind" ELSE "ttl"
      OBVIOUS
    <3>2. opening' = [receiver |-> r, group |-> g, iface |-> i, step |-> s]
      BY <1>6, <3>1
    <3> QED BY <3>2 DEF OpenSteps, NoCall
  <2>5. SocketTyped'
    BY <1>1, <1>2, <2>2, <2>3, <2>4 DEF SocketTyped
  <2>6. CallHasDescriptor'
    BY <1>6, <2>2, <2>3 DEF CallHasDescriptor
  <2>7. NoDescriptorLeaks'
    <3>1. ~reopened' => D \subseteq {0}
      BY <1>1, <1>4 DEF NoDescriptorLeaks
    <3>2. ~reopened' => D = {}
      BY <1>4, <3>1
    <3> QED BY <1>6, <2>2, <3>2 DEF NoDescriptorLeaks
  <2>8. MembershipMatches'
    BY <1>1, <2>4 DEF MembershipMatches, MayReceive, MaySend
  <2> QED BY <2>5, <2>6, <2>7, <2>8 DEF SocketInv
<1> QED BY <1>5, <1>6 DEF Socket

\* The last step of an open call.
LEMMA EndOfOpen ==
  ASSUME SocketInv, opening.step # "none", opening' = NoCall,
         UNCHANGED <<sockfd, boundIface, nextFd, dropFailed, reopened>>,
         multicastAddr' = opening.group,
         \/ isReceiver' = FALSE /\ openFds' = openFds
         \/ /\ isReceiver' = TRUE
            /\ openFds' = [openFds EXCEPT ![sockfd] = [group |-> opening.group, iface |-> boundIface]]
  PROVE  SocketInv'
<1>1. SocketTyped /\ CallHasDescriptor /\ NoDescriptorLeaks /\ MembershipMatches
  BY DEF SocketInv
<1>2. PICK D \in SUBSET (1 .. nextFd - 1) : openFds \in [D -> Memberships]
  BY <1>1 DEF SocketTyped
<1>3. /\ DOMAIN openFds = D /\ sockfd # 0 /\ sockfd \in D /\ openFds[sockfd] = NotJoined
      /\ isReceiver' \in BOOLEAN
  BY <1>1, <1>2 DEF CallHasDescriptor, NoDescriptorLeaks
<1>4. [group |-> opening.group, iface |-> boundIface] \in Memberships
  BY <1>1 DEF SocketTyped, Memberships
<1>5. openFds' \in [D -> Memberships] /\ DOMAIN openFds' = D
  BY <1>2, <1>4
<1>6. opening' = NoCall /\ opening'.step = "none" /\ opening'.iface \in Ifaces
      /\ opening' \in [receiver : BOOLEAN, group : Groups \cup {"zero"}, iface : Ifaces,
                       step : OpenSteps]
  BY SocketAssumption DEF NoCall, OpenSteps
<1>7. SocketTyped'
  BY <1>1, <1>3, <1>5, <1>6 DEF SocketTyped, OpenSteps
<1>8. CallHasDescriptor' /\ NoDescriptorLeaks'
  BY <1>1, <1>3, <1>5, <1>6 DEF CallHasDescriptor, NoDescriptorLeaks
<1>9. MembershipMatches'
  <2>1. CASE isReceiver' = FALSE /\ openFds' = openFds
    BY <1>1, <1>3, <2>1 DEF MembershipMatches, MayReceive, MaySend
  <2>2. CASE /\ isReceiver' = TRUE
             /\ openFds' = [openFds EXCEPT ![sockfd] = [group |-> opening.group, iface |-> boundIface]]
    <3>1. openFds'[sockfd] = [group |-> opening.group, iface |-> boundIface]
      BY <1>2, <1>3, <2>2
    <3> QED BY <1>1, <2>2, <3>1 DEF MembershipMatches, MayReceive, MaySend
  <2> QED BY <2>1, <2>2
<1> QED BY <1>7, <1>8, <1>9 DEF SocketInv

\* A step on the way through an open call.
LEMMA OnTheWay ==
  ASSUME SocketInv, opening.step # "none", NEW to \in OpenSteps \ {"none"},
         opening' = [opening EXCEPT !.step = to], boundIface' \in Ifaces \cup {"zero"},
         UNCHANGED <<sockfd, isReceiver, multicastAddr, openFds, nextFd, dropFailed, reopened>>
  PROVE  SocketInv'
<1>1. SocketTyped /\ CallHasDescriptor /\ NoDescriptorLeaks /\ MembershipMatches
  BY DEF SocketInv
<1>2. /\ opening' \in [receiver : BOOLEAN, group : Groups \cup {"zero"}, iface : Ifaces,
                       step : OpenSteps]
      /\ opening'.step = to /\ opening'.iface = opening.iface /\ opening'.group = opening.group
  BY <1>1 DEF SocketTyped
<1>3. opening' # NoCall /\ opening'.step # "none"
  BY <1>2 DEF NoCall
<1>4. SocketTyped'
  BY <1>1, <1>2, <1>3 DEF SocketTyped
<1>5. CallHasDescriptor' /\ NoDescriptorLeaks'
  BY <1>1 DEF CallHasDescriptor, NoDescriptorLeaks
<1>6. MembershipMatches'
  BY <1>1, <1>3 DEF MembershipMatches, MayReceive, MaySend
<1> QED BY <1>4, <1>5, <1>6 DEF SocketInv

\* The descriptor is closed.
LEMMA SocketClosed ==
  ASSUME SocketInv, sockfd' = 0, opening' = NoCall, openFds' = KeptFds(openFds, {sockfd}),
         dropFailed' = FALSE,
         UNCHANGED <<isReceiver, multicastAddr, boundIface, nextFd, reopened>>
  PROVE  SocketInv'
<1>1. SocketTyped /\ NoDescriptorLeaks
  BY DEF SocketInv
<1>2. DOMAIN openFds' = DOMAIN openFds \ {sockfd}
  BY ClosedFd
<1>3. \E D \in SUBSET (1 .. nextFd' - 1) : openFds' \in [D -> Memberships]
  BY ClosedFd
<1>4. opening' = NoCall /\ opening'.step = "none" /\ opening'.iface \in Ifaces
      /\ opening' \in [receiver : BOOLEAN, group : Groups \cup {"zero"}, iface : Ifaces,
                       step : OpenSteps]
  BY SocketAssumption DEF NoCall, OpenSteps
<1>5. sockfd' \in 0 .. nextFd' - 1
  BY <1>1 DEF SocketTyped
<1>6. SocketTyped'
  BY <1>1, <1>3, <1>4, <1>5 DEF SocketTyped, OpenSteps
<1>7. CallHasDescriptor' /\ NoDescriptorLeaks' /\ MembershipMatches'
  BY <1>1, <1>2, <1>4 DEF CallHasDescriptor, NoDescriptorLeaks, MembershipMatches,
                          MayReceive, MaySend
<1> QED BY <1>6, <1>7 DEF SocketInv

LEMMA NextSocket == SocketInv /\ [SocketNext]_socketVars => SocketInv'
<1> SUFFICES ASSUME SocketInv, [SocketNext]_socketVars PROVE SocketInv'
  OBVIOUS
<1>0. SocketTyped /\ CallHasDescriptor /\ NoDescriptorLeaks /\ MembershipMatches
  BY DEF SocketInv
<1>1. ASSUME NEW r \in BOOLEAN, NEW g \in Groups, NEW i \in Ifaces, Socket(r, g, i)
      PROVE  SocketInv'
  BY <1>1, OpenedFd
<1>2. CASE Fail
  <2>1. /\ sockfd' = 0 /\ opening' = NoCall /\ openFds' = KeptFds(openFds, {sockfd})
        /\ UNCHANGED <<isReceiver, multicastAddr, boundIface, nextFd, reopened>>
    BY <1>2 DEF Fail
  <2>2. dropFailed' = FALSE
    BY <1>0, <1>2 DEF Fail, MembershipMatches, SocketTyped
  <2> QED BY <2>1, <2>2, SocketClosed
<1>3. CASE Bind
  <2>1. PICK to \in OpenSteps \ {"none"} : to = IF opening.iface = AnyIface THEN "join" ELSE "iface"
    BY DEF OpenSteps
  <2>2. /\ opening.step # "none" /\ opening' = [opening EXCEPT !.step = to]
        /\ boundIface' \in Ifaces \cup {"zero"}
        /\ UNCHANGED <<sockfd, isReceiver, multicastAddr, openFds, nextFd, dropFailed, reopened>>
    BY <1>0, <1>3, <2>1 DEF Bind, SocketTyped
  <2> QED BY <2>2, OnTheWay
<1>4. CASE SetInterface
  <2>1. /\ opening.step # "none" /\ opening' = [opening EXCEPT !.step = "join"]
        /\ boundIface' \in Ifaces \cup {"zero"} /\ "join" \in OpenSteps \ {"none"}
        /\ UNCHANGED <<sockfd, isReceiver, multicastAddr, openFds, nextFd, dropFailed, reopened>>
    BY <1>0, <1>4 DEF SetInterface, SocketTyped, OpenSteps
  <2> QED BY <2>1, OnTheWay
<1>5. CASE JoinGroup
  BY <1>5, EndOfOpen DEF JoinGroup
<1>6. CASE SetTtl
  <2>1. CASE opening.iface = AnyIface
    BY <1>6, <2>1, EndOfOpen DEF SetTtl, TransmitterReady
  <2>2. CASE opening.iface # AnyIface
    <3>1. /\ opening.step # "none" /\ opening' = [opening EXCEPT !.step = "txiface"]
          /\ boundIface' \in Ifaces \cup {"zero"} /\ "txiface" \in OpenSteps \ {"none"}
          /\ UNCHANGED <<sockfd, isReceiver, multicastAddr, openFds, nextFd, dropFailed, reopened>>
      BY <1>0, <1>6, <2>2 DEF SetTtl, SocketTyped, OpenSteps
    <3> QED BY <3>1, OnTheWay
  <2> QED BY <2>1, <2>2
<1>7. CASE SetTxInterface
  BY <1>7, EndOfOpen DEF SetTxInterface, TransmitterReady
<1>8. CASE CloseSocket
  <2>1. dropFailed' = FALSE
    BY <1>0, <1>8 DEF CloseSocket, MembershipMatches, MayReceive, SocketTyped
  <2> QED BY <1>8, <2>1, SocketClosed DEF CloseSocket
<1>9. CASE UNCHANGED socketVars
  BY <1>0, <1>9 DEF socketVars, SocketInv, SocketTyped, CallHasDescriptor, NoDescriptorLeaks,
                    MembershipMatches, MayReceive, MaySend
<1> QED BY <1>1, <1>2, <1>3, <1>4, <1>5, <1>6, <1>7, <1>8, <1>9 DEF SocketNext

\* However an open call fails, it leaves no descriptor behind unless it was made
\* over an open one, and a socket is in the group and on the interface it will
\* leave (RTPSocket::openReceiver, openTransmitter, close).
THEOREM SocketsClean == SocketSpec => [](SocketTypeOK /\ NoDescriptorLeaks /\ MembershipMatches)
<1>1. SocketInv => SocketTypeOK
  <2> SUFFICES ASSUME SocketInv PROVE SocketTypeOK
    OBVIOUS
  <2>1. sockfd \in 0 .. MaxFds
    BY SocketAssumption DEF SocketInv, SocketTyped
  <2>2. DOMAIN openFds \subseteq 1 .. nextFd - 1
    BY DEF SocketInv, SocketTyped
  <2> QED BY <2>1, <2>2 DEF SocketInv, SocketTyped, SocketTypeOK
<1>2. SocketSpec => []SocketInv
  BY InitSocket, NextSocket, PTL DEF SocketSpec
<1> QED BY <1>1, <1>2, PTL DEF SocketInv

-----------------------------------------------------------------------------
(* NetworkErrorHandler: recoveries of one thread keep apart                 *)

\* The last recovery is after every finished one, and a thread that is about to
\* recover looked when its own were long enough ago.
HandlerInv ==
  /\ handlerNow \in Nat /\ totalErrorCount \in Nat /\ recentErrorCount \in 0 .. totalErrorCount
  /\ lastRecoveryAttempt \in 0 .. handlerNow /\ recoveryActive \in BOOLEAN
  /\ reporterPc \in [Reporters -> {"idle", "look", "test", "begin", "end", "callback"}]
  /\ recovering \subseteq [thread : Reporters, at : 0 .. handlerNow]
  /\ \A x \in recovering :
       /\ reporterPc[x.thread] # "end" => x.at <= lastRecoveryAttempt
       /\ reporterPc[x.thread] \in {"test", "begin"} => handlerNow - x.at > HandlerPause
  /\ RecoveriesSpaced

LEMMA InitHandler == HandlerInit => HandlerInv
<1> SUFFICES ASSUME HandlerInit PROVE HandlerInv
  OBVIOUS
<1>1. recoveryActive \in BOOLEAN /\ recovering = {}
  BY DEF HandlerInit
<1>2. handlerNow \in Nat /\ totalErrorCount \in Nat /\ recentErrorCount \in 0 .. totalErrorCount
      /\ lastRecoveryAttempt \in 0 .. handlerNow
  BY DEF HandlerInit
<1>3. reporterPc \in [Reporters -> {"idle", "look", "test", "begin", "end", "callback"}]
  BY DEF HandlerInit
<1> QED BY <1>1, <1>2, <1>3 DEF HandlerInv, RecoveriesSpaced

\* A step that moves one thread on, which does not begin a recovery.
LEMMA ReporterMoves ==
  ASSUME HandlerInv, NEW t \in Reporters, NEW from \in {"idle", "look", "test", "callback"},
         NEW to \in {"idle", "look", "test", "begin", "callback"}, Go(t, from, to),
         to \in {"test", "begin"} =>
           from = "test" \/ handlerNow - lastRecoveryAttempt > HandlerPause,
         totalErrorCount' \in Nat, recentErrorCount' \in 0 .. totalErrorCount',
         UNCHANGED <<handlerNow, lastRecoveryAttempt, recoveryActive, recovering>>
  PROVE  HandlerInv'
<1>1. /\ reporterPc' = [reporterPc EXCEPT ![t] = to] /\ reporterPc[t] = from
      /\ reporterPc \in [Reporters -> {"idle", "look", "test", "begin", "end", "callback"}]
      /\ recovering \subseteq [thread : Reporters, at : 0 .. handlerNow]
      /\ lastRecoveryAttempt \in Nat /\ handlerNow \in Nat /\ HandlerPause \in Nat
  BY HandlerAssumption DEF Go, HandlerInv
<1>2. reporterPc' \in [Reporters -> {"idle", "look", "test", "begin", "end", "callback"}]
  BY <1>1
<1>3. ASSUME NEW x \in recovering
      PROVE  /\ reporterPc'[x.thread] # "end" => x.at <= lastRecoveryAttempt
             /\ reporterPc'[x.thread] \in {"test", "begin"} => handlerNow - x.at > HandlerPause
  <2>1. x.thread \in Reporters /\ x.at \in Nat
    BY <1>1
  <2>2. CASE x.thread = t
    <3>1. reporterPc'[x.thread] = to /\ reporterPc[x.thread] = from
      BY <1>1, <2>1, <2>2
    <3>2. x.at <= lastRecoveryAttempt /\ (from = "test" => handlerNow - x.at > HandlerPause)
      BY <3>1 DEF HandlerInv
    <3> QED BY <1>1, <2>1, <3>1, <3>2
  <2>3. CASE x.thread # t
    <3>1. reporterPc'[x.thread] = reporterPc[x.thread]
      BY <1>1, <2>1, <2>3
    <3> QED BY <3>1 DEF HandlerInv
  <2> QED BY <2>2, <2>3
<1> QED BY <1>2, <1>3 DEF HandlerInv, RecoveriesSpaced

LEMMA BeginKeepsHandler ==
  ASSUME HandlerInv, NEW t \in Reporters, BeginRecovery(t)
  PROVE  HandlerInv'
<1> DEFINE e == [thread |-> t, at |-> handlerNow]
<1>1. /\ reporterPc' = [reporterPc EXCEPT ![t] = "end"] /\ reporterPc[t] = "begin"
      /\ recovering' = recovering \cup {e} /\ recoveryActive' = TRUE
      /\ UNCHANGED <<handlerNow, recentErrorCount, totalErrorCount, lastRecoveryAttempt>>
  BY DEF BeginRecovery, Go
<1>2. /\ reporterPc \in [Reporters -> {"idle", "look", "test", "begin", "end", "callback"}]
      /\ recovering \subseteq [thread : Reporters, at : 0 .. handlerNow]
      /\ lastRecoveryAttempt \in Nat /\ handlerNow \in Nat
      /\ HandlerPause \in Nat
  BY HandlerAssumption DEF HandlerInv
<1>3. reporterPc' \in [Reporters -> {"idle", "look", "test", "begin", "end", "callback"}]
      /\ reporterPc'[t] = "end" /\ \A u \in Reporters : u # t => reporterPc'[u] = reporterPc[u]
  BY <1>1, <1>2
<1>4. e \in [thread : Reporters, at : 0 .. handlerNow] /\ e.thread = t /\ e.at = handlerNow
  BY <1>2
<1> HIDE DEF e
<1>5. ASSUME NEW x \in recovering'
      PROVE  /\ reporterPc'[x.thread] # "end" => x.at <= lastRecoveryAttempt
             /\ reporterPc'[x.thread] \in {"test", "begin"} => handlerNow - x.at > HandlerPause
  <2>1. CASE x.thread = t
    BY <1>3, <2>1
  <2>2. CASE x.thread # t
    <3>1. x \in recovering /\ x.thread \in Reporters
      BY <1>1, <1>2, <1>4, <2>2
    <3> QED BY <1>3, <2>2, <3>1 DEF HandlerInv
  <2> QED BY <2>1, <2>2
<1>6. RecoveriesSpaced'
  <2> SUFFICES ASSUME NEW x \in recovering', NEW y \in recovering',
                      x.thread = y.thread, x.at < y.at
               PROVE  y.at - x.at > HandlerPause
    BY DEF RecoveriesSpaced
  <2>1. CASE x \in recovering /\ y \in recovering
    BY <2>1 DEF HandlerInv, RecoveriesSpaced
  <2>2. CASE y = e /\ x \in recovering
    BY <1>1, <1>4, <2>2 DEF HandlerInv
  <2>3. CASE x = e
    <3>1. y.at \in 0 .. handlerNow
      BY <1>1, <1>2, <1>4
    <3> QED BY <1>2, <1>4, <2>3, <3>1
  <2> QED BY <1>1, <2>1, <2>2, <2>3
<1>7. recovering' \subseteq [thread : Reporters, at : 0 .. handlerNow']
  BY <1>1, <1>2, <1>4
<1>8. recoveryActive' \in BOOLEAN
  BY <1>1
<1> QED BY <1>1, <1>3, <1>5, <1>6, <1>7, <1>8 DEF HandlerInv

LEMMA EndKeepsHandler ==
  ASSUME HandlerInv, NEW t \in Reporters, EndRecovery(t)
  PROVE  HandlerInv'
<1>1. /\ reporterPc' = [reporterPc EXCEPT ![t] = "callback"] /\ reporterPc[t] = "end"
      /\ recentErrorCount' = 0 /\ lastRecoveryAttempt' = handlerNow /\ recoveryActive' = FALSE
      /\ UNCHANGED <<handlerNow, totalErrorCount, recovering>>
  BY DEF EndRecovery, Go
<1>2. /\ reporterPc \in [Reporters -> {"idle", "look", "test", "begin", "end", "callback"}]
      /\ recovering \subseteq [thread : Reporters, at : 0 .. handlerNow]
      /\ handlerNow \in Nat
  BY DEF HandlerInv
<1>3. reporterPc' \in [Reporters -> {"idle", "look", "test", "begin", "end", "callback"}]
      /\ reporterPc'[t] = "callback" /\ \A u \in Reporters : u # t => reporterPc'[u] = reporterPc[u]
  BY <1>1, <1>2
<1>4. ASSUME NEW x \in recovering
      PROVE  /\ x.at <= handlerNow
             /\ reporterPc'[x.thread] \in {"test", "begin"} => handlerNow - x.at > HandlerPause
  <2>1. x.thread \in Reporters /\ x.at <= handlerNow
    BY <1>2
  <2> QED BY <1>3, <2>1 DEF HandlerInv
<1>5. recoveryActive' \in BOOLEAN
  BY <1>1
<1> QED BY <1>1, <1>2, <1>3, <1>4, <1>5 DEF HandlerInv, RecoveriesSpaced

LEMMA NextHandler == HandlerInv /\ [HandlerNext]_handlerVars => HandlerInv'
<1> SUFFICES ASSUME HandlerInv, [HandlerNext]_handlerVars PROVE HandlerInv'
  OBVIOUS
<1>0. totalErrorCount \in Nat /\ recentErrorCount \in 0 .. totalErrorCount /\ handlerNow \in Nat
  BY DEF HandlerInv
<1>1. CASE HandlerTick
  <2>1. /\ handlerNow' = handlerNow + 1
        /\ UNCHANGED <<recentErrorCount, totalErrorCount, lastRecoveryAttempt, recoveryActive,
                       reporterPc, recovering>>
    BY <1>1 DEF HandlerTick
  <2>2. \A x \in recovering : x.at \in 0 .. handlerNow
    BY DEF HandlerInv
  <2>3. recovering' \subseteq [thread : Reporters, at : 0 .. handlerNow']
    BY <1>0, <2>1, <2>2 DEF HandlerInv
  <2>4. ASSUME NEW x \in recovering, reporterPc[x.thread] \in {"test", "begin"}
        PROVE  handlerNow' - x.at > HandlerPause
    <3>1. handlerNow - x.at > HandlerPause
      BY <2>4 DEF HandlerInv
    <3> QED BY <1>0, <2>1, <2>2, <3>1, HandlerAssumption
  <2> QED BY <1>0, <2>1, <2>3, <2>4 DEF HandlerInv, RecoveriesSpaced
<1>2. CASE ResetErrors
  BY <1>0, <1>2 DEF ResetErrors, HandlerInv, RecoveriesSpaced
<1>3. ASSUME NEW t \in Reporters, ReportNetworkError(t) PROVE HandlerInv'
  <2>1. totalErrorCount' \in Nat /\ recentErrorCount' \in 0 .. totalErrorCount'
    BY <1>0, <1>3 DEF ReportNetworkError
  <2> QED BY <1>3, <2>1, ReporterMoves DEF ReportNetworkError
<1>4. ASSUME NEW t \in Reporters, LookAtCounters(t) PROVE HandlerInv'
  <2>1. PICK to \in {"test", "callback"} : to = IF Due THEN "test" ELSE "callback"
    OBVIOUS
  <2>2. to = "test" => handlerNow - lastRecoveryAttempt > HandlerPause
    BY <2>1 DEF Due
  <2> QED BY <1>0, <1>4, <2>1, <2>2, ReporterMoves DEF LookAtCounters
<1>5. ASSUME NEW t \in Reporters, TestRecoveryActive(t) PROVE HandlerInv'
  <2>1. PICK to \in {"begin", "callback"} : to = IF recoveryActive THEN "callback" ELSE "begin"
    OBVIOUS
  <2> QED BY <1>0, <1>5, <2>1, ReporterMoves DEF TestRecoveryActive
<1>6. ASSUME NEW t \in Reporters, BeginRecovery(t) PROVE HandlerInv'
  BY <1>6, BeginKeepsHandler
<1>7. ASSUME NEW t \in Reporters, EndRecovery(t) PROVE HandlerInv'
  BY <1>7, EndKeepsHandler
<1>8. ASSUME NEW t \in Reporters, CallErrorHandler(t) PROVE HandlerInv'
  BY <1>0, <1>8, ReporterMoves DEF CallErrorHandler
<1>9. CASE UNCHANGED handlerVars
  BY <1>9 DEF handlerVars, HandlerInv, RecoveriesSpaced
<1> QED BY <1>1, <1>2, <1>3, <1>4, <1>5, <1>6, <1>7, <1>8, <1>9 DEF HandlerNext

LEMMA HandlerSafe == HandlerSpec => [](HandlerTypeOK /\ RecoveriesSpaced)
<1>1. HandlerInv => HandlerTypeOK /\ RecoveriesSpaced
  BY DEF HandlerInv, HandlerTypeOK
<1> QED BY <1>1, InitHandler, NextHandler, PTL DEF HandlerSpec

-----------------------------------------------------------------------------
(* ErrorRecoveryManager: failing attempts are counted                       *)

Since(a) == {b \in attempts : b.at >= a.at}

\* The attempts from one on, if none succeeded, are among those counted.
RecoveryInv ==
  /\ recoveryNow \in Nat /\ attemptCount \in 0 .. MaxAttempts
  /\ lastAttempt \in Epoch .. recoveryNow /\ autoRecoveryEnabled \in BOOLEAN
  /\ attempts \subseteq [at : 0 .. recoveryNow, ok : BOOLEAN] /\ IsFiniteSet(attempts)
  /\ \A a \in attempts : a.at <= lastAttempt
  /\ \A a, b \in attempts : a.at < b.at => b.at - a.at >= Cooldown
  /\ \A a \in attempts : (\A b \in Since(a) : ~b.ok) => Cardinality(Since(a)) <= attemptCount

LEMMA InitRecovery == RecoveryInit => RecoveryInv
BY FS_EmptySet, RecoveryAssumption DEF RecoveryInit, RecoveryInv, Epoch

LEMMA ReportKeepsRecovery ==
  ASSUME RecoveryInv, NEW success \in BOOLEAN, ReportError(success)
  PROVE  RecoveryInv'
<1> DEFINE e == [at |-> recoveryNow, ok |-> success]
<1>1. /\ recoveryNow - lastAttempt >= Cooldown /\ attemptCount < MaxAttempts
      /\ lastAttempt' = recoveryNow /\ attempts' = attempts \cup {e}
      /\ attemptCount' = IF success THEN 0 ELSE attemptCount + 1
      /\ UNCHANGED <<recoveryNow, autoRecoveryEnabled>>
  BY DEF ReportError, MayAttempt
<1>2. /\ recoveryNow \in Nat /\ attemptCount \in 0 .. MaxAttempts /\ lastAttempt \in Int
      /\ attempts \subseteq [at : 0 .. recoveryNow, ok : BOOLEAN] /\ IsFiniteSet(attempts)
      /\ Cooldown \in Nat \ {0} /\ MaxAttempts \in Nat \ {0}
  BY RecoveryAssumption DEF RecoveryInv, Epoch
<1>3. e \in [at : 0 .. recoveryNow, ok : BOOLEAN] /\ e.at = recoveryNow /\ e.ok = success
  BY <1>2
<1> HIDE DEF e
<1>4. \A a \in attempts : a.at \in Int /\ recoveryNow - a.at >= Cooldown /\ a.at < recoveryNow
  BY <1>1, <1>2 DEF RecoveryInv
<1>5. attemptCount' \in 0 .. MaxAttempts
  BY <1>1, <1>2
<1>6. attempts' \subseteq [at : 0 .. recoveryNow', ok : BOOLEAN] /\ IsFiniteSet(attempts')
  BY <1>1, <1>2, <1>3, FS_AddElement
<1>7. \A a \in attempts' : a.at <= lastAttempt'
  BY <1>1, <1>2, <1>3, <1>4
<1>8. \A a, b \in attempts' : a.at < b.at => b.at - a.at >= Cooldown
  <2> SUFFICES ASSUME NEW a \in attempts', NEW b \in attempts', a.at < b.at
               PROVE  b.at - a.at >= Cooldown
    OBVIOUS
  <2>1. CASE a \in attempts /\ b \in attempts
    BY <2>1 DEF RecoveryInv
  <2>2. CASE a \in attempts /\ b = e
    BY <1>3, <1>4, <2>2
  <2>3. CASE a = e
    BY <1>1, <1>2, <1>3, <1>4, <2>3
  <2> QED BY <1>1, <2>1, <2>2, <2>3
<1>9. ASSUME NEW a \in attempts', \A b \in Since(a)' : ~b.ok
      PROVE  Cardinality(Since(a)') <= attemptCount'
  <2>1. e \in Since(a)' /\ ~success
    BY <1>1, <1>2, <1>3, <1>4, <1>9 DEF Since
  <2>2. attemptCount' = attemptCount + 1
    BY <1>1, <2>1
  <2>3. CASE a \in attempts
    <3>1. Since(a)' = Since(a) \cup {e} /\ e \notin Since(a)
      BY <1>1, <1>3, <1>4, <2>1, <2>3 DEF Since
    <3>2. IsFiniteSet(Since(a))
      BY <1>2, FS_Subset DEF Since
    <3>3. Cardinality(Since(a)') = Cardinality(Since(a)) + 1 /\ Cardinality(Since(a)) \in Nat
      BY <3>1, <3>2, FS_AddElement, FS_CardinalityType
    <3>4. Cardinality(Since(a)) <= attemptCount
      BY <1>9, <2>3, <3>1 DEF RecoveryInv
    <3> QED BY <1>2, <2>2, <3>3, <3>4
  <2>4. CASE a = e
    <3>1. Since(a)' = {e}
      BY <1>1, <1>3, <1>4, <2>1, <2>4 DEF Since
    <3>2. Cardinality(Since(a)') = 1
      BY <3>1, FS_Singleton
    <3> QED BY <1>2, <2>2, <3>2
  <2> QED BY <1>1, <2>3, <2>4
<1>10. lastAttempt' \in Epoch .. recoveryNow'
  BY <1>1, <1>2 DEF Epoch
<1> QED BY <1>1, <1>2, <1>5, <1>6, <1>7, <1>8, <1>9, <1>10 DEF RecoveryInv

LEMMA NextRecovery == RecoveryInv /\ [RecoveryNext]_recoveryVars => RecoveryInv'
<1> SUFFICES ASSUME RecoveryInv, [RecoveryNext]_recoveryVars PROVE RecoveryInv'
  OBVIOUS
<1>1. CASE RecoveryTick
  <2>1. /\ recoveryNow' = recoveryNow + 1 /\ recoveryNow \in Nat
        /\ UNCHANGED <<attemptCount, lastAttempt, autoRecoveryEnabled, attempts>>
    BY <1>1 DEF RecoveryTick, RecoveryInv
  <2>2. 0 .. recoveryNow \subseteq 0 .. recoveryNow'
    BY <2>1
  <2>3. attempts' \subseteq [at : 0 .. recoveryNow', ok : BOOLEAN]
    BY <2>1, <2>2 DEF RecoveryInv
  <2>4. lastAttempt' \in Epoch .. recoveryNow'
    BY <2>1, RecoveryAssumption DEF RecoveryInv, Epoch
  <2> QED BY <2>1, <2>3, <2>4 DEF RecoveryInv, Since
<1>2. CASE ResetAttempts
  BY <1>2, FS_EmptySet, RecoveryAssumption DEF ResetAttempts, RecoveryInv
<1>3. ASSUME NEW b \in BOOLEAN, ReportError(b) PROVE RecoveryInv'
  BY <1>3, ReportKeepsRecovery
<1>4. ASSUME NEW b \in BOOLEAN, SetAutoRecovery(b) PROVE RecoveryInv'
  <2>1. autoRecoveryEnabled' \in BOOLEAN
    BY <1>4 DEF SetAutoRecovery
  <2> QED BY <1>4, <2>1 DEF SetAutoRecovery, RecoveryInv, Since
<1>5. CASE UNCHANGED recoveryVars
  BY <1>5 DEF recoveryVars, RecoveryInv, Since
<1> QED BY <1>1, <1>2, <1>3, <1>4, <1>5 DEF RecoveryNext

LEMMA RecoverySafe == RecoverySpec => [](RecoveryTypeOK /\ AttemptsSpacedAndBounded)
<1>1. ASSUME RecoveryInv PROVE RecoveryTypeOK /\ AttemptsSpacedAndBounded
  <2>1. ASSUME NEW a \in attempts, Cardinality(Since(a)) > MaxAttempts
        PROVE  \E b \in attempts : b.at >= a.at /\ b.ok
    <3>1. IsFiniteSet(Since(a))
      BY <1>1, FS_Subset DEF Since, RecoveryInv
    <3>2. Cardinality(Since(a)) \in Nat /\ attemptCount \in 0 .. MaxAttempts
      BY <1>1, <3>1, FS_CardinalityType DEF RecoveryInv
    <3>3. ~(Cardinality(Since(a)) <= attemptCount)
      BY <2>1, <3>2, RecoveryAssumption
    <3>4. ~(\A b \in Since(a) : ~b.ok)
      BY <1>1, <3>3 DEF RecoveryInv
    <3> QED BY <3>4 DEF Since
  <2> QED BY <1>1, <2>1 DEF RecoveryInv, RecoveryTypeOK, AttemptsSpacedAndBounded, Since
<1> QED BY <1>1, InitRecovery, NextRecovery, PTL DEF RecoverySpec

-----------------------------------------------------------------------------
(* BufferStatusMonitor: what is counted                                     *)

\* The last event of each kind is one that was counted or the start of watching,
\* and nothing recorded is of the current tick.
MonitorInv ==
  /\ monitorNow \in Nat /\ bufferSize \in Nat
  /\ underrunCount \in Nat /\ overrunCount \in Nat /\ dangerEventsCount \in Nat
  /\ lastUnderrunEvent \in 0 .. monitorNow /\ lastOverrunEvent \in 0 .. monitorNow
  /\ lows \subseteq Nat /\ highs \subseteq Nat /\ watchedSince \in Nat
  /\ IsFiniteSet(counted) /\ IsFiniteSet(highs)
  /\ \A u \in counted \cup lows \cup highs : u < monitorNow
  /\ lastUnderrunEvent \in counted \cup {watchedSince}
  /\ \A u \in counted : u <= lastUnderrunEvent
  /\ EventsCounted /\ MissedOnlyWithinPeriod

LEMMA InitMonitor == MonitorInit => MonitorInv
<1> SUFFICES ASSUME MonitorInit PROVE MonitorInv
  OBVIOUS
<1>1. IsFiniteSet({}) /\ Cardinality({}) = 0
  BY FS_EmptySet
<1> QED BY <1>1, MonitorAssumption DEF MonitorInit, MonitorInv, EventsCounted, MissedOnlyWithinPeriod

\* One level is not both too low and too high, and either is dangerous.
LEMMA Thresholds ==
  ASSUME bufferSize \in Nat, NEW level \in Nat
  PROVE  /\ ~(CriticalLow(level) /\ CriticalHigh(level))
         /\ CriticalLow(level) \/ CriticalHigh(level) => Dangerous(level)
BY DEF CriticalLow, CriticalHigh, Dangerous

LEMMA UpdateKeepsMonitor ==
  ASSUME MonitorInv, NEW level \in FillLevels, UpdateFillLevel(level)
  PROVE  MonitorInv'
<1> DEFINE low  == CriticalLow(level)
           high == CriticalHigh(level)
           under == low /\ monitorNow - lastUnderrunEvent > Hysteresis
           over  == high /\ monitorNow - lastOverrunEvent > Hysteresis
<1>1. /\ monitorNow' = monitorNow + 1
      /\ underrunCount' = underrunCount + (IF under THEN 1 ELSE 0)
      /\ overrunCount' = overrunCount + (IF over THEN 1 ELSE 0)
      /\ dangerEventsCount' = dangerEventsCount + (IF Dangerous(level) THEN 1 ELSE 0)
      /\ lastUnderrunEvent' = IF under THEN monitorNow ELSE lastUnderrunEvent
      /\ lastOverrunEvent' = IF over THEN monitorNow ELSE lastOverrunEvent
      /\ lows' = lows \cup (IF low THEN {monitorNow} ELSE {})
      /\ highs' = highs \cup (IF high THEN {monitorNow} ELSE {})
      /\ counted' = counted \cup (IF under THEN {monitorNow} ELSE {})
      /\ UNCHANGED <<bufferSize, watchedSince>>
  BY DEF UpdateFillLevel
<1>2. /\ monitorNow \in Nat /\ bufferSize \in Nat /\ level \in Nat /\ Hysteresis \in Nat
      /\ underrunCount \in Nat /\ overrunCount \in Nat /\ dangerEventsCount \in Nat
      /\ lastUnderrunEvent \in 0 .. monitorNow /\ lastOverrunEvent \in 0 .. monitorNow
      /\ lows \subseteq Nat /\ highs \subseteq Nat /\ watchedSince \in Nat
      /\ IsFiniteSet(counted) /\ IsFiniteSet(highs)
      /\ counted \subseteq lows /\ underrunCount = Cardinality(counted)
      /\ overrunCount <= Cardinality(highs) /\ underrunCount + overrunCount <= dangerEventsCount
  BY MonitorAssumption DEF MonitorInv, EventsCounted
<1>3. /\ under => low
      /\ over => high
      /\ ~(low /\ high) /\ (low \/ high => Dangerous(level))
      /\ under => monitorNow - lastUnderrunEvent > Hysteresis
      /\ ~under => ~low \/ monitorNow - lastUnderrunEvent <= Hysteresis
  BY <1>2, Thresholds
<1> HIDE DEF low, high, under, over
<1>4. \A u \in counted \cup lows \cup highs : u \in Nat /\ u < monitorNow
  BY <1>2 DEF MonitorInv
<1>5. Cardinality(counted) \in Nat /\ Cardinality(highs) \in Nat
      /\ monitorNow \notin counted /\ monitorNow \notin highs /\ monitorNow \notin lows
  BY <1>2, <1>4, FS_CardinalityType
<1>6. /\ IsFiniteSet(counted') /\ underrunCount' = Cardinality(counted')
      /\ counted' \subseteq lows' /\ underrunCount' \in Nat
  <2>1. CASE under
    <3>1. counted' = counted \cup {monitorNow} /\ lows' = lows \cup {monitorNow}
      BY <1>1, <1>3, <2>1
    <3>2. IsFiniteSet(counted') /\ Cardinality(counted') = Cardinality(counted) + 1
      BY <1>2, <1>5, <3>1, FS_AddElement
    <3> QED BY <1>1, <1>2, <2>1, <3>1, <3>2
  <2>2. CASE ~under
    <3>1. counted' = counted /\ lows \subseteq lows' /\ underrunCount' = underrunCount
      BY <1>1, <1>2, <2>2
    <3> QED BY <1>2, <3>1
  <2> QED BY <2>1, <2>2
<1>7. IsFiniteSet(highs') /\ overrunCount' <= Cardinality(highs') /\ overrunCount' \in Nat
  <2>1. CASE high
    <3>1. highs' = highs \cup {monitorNow}
      BY <1>1, <2>1
    <3>2. IsFiniteSet(highs') /\ Cardinality(highs') = Cardinality(highs) + 1
      BY <1>2, <1>5, <3>1, FS_AddElement
    <3>3. overrunCount' <= overrunCount + 1 /\ overrunCount' \in Nat
      BY <1>1, <1>2
    <3> QED BY <1>2, <1>5, <3>2, <3>3
  <2>2. CASE ~high
    <3>1. highs' = highs /\ overrunCount' = overrunCount
      BY <1>1, <1>2, <1>3, <2>2
    <3> QED BY <1>2, <3>1
  <2> QED BY <2>1, <2>2
<1>8. underrunCount' + overrunCount' <= dangerEventsCount' /\ dangerEventsCount' \in Nat
  <2>1. CASE Dangerous(level)
    <3>1. dangerEventsCount' = dangerEventsCount + 1
      BY <1>1, <2>1
    <3>2. ~(under /\ over)
      BY <1>3
    <3> QED BY <1>1, <1>2, <3>1, <3>2
  <2>2. CASE ~Dangerous(level)
    <3>1. ~under /\ ~over
      BY <1>3, <2>2
    <3> QED BY <1>1, <1>2, <2>2, <3>1
  <2> QED BY <2>1, <2>2
<1>9. /\ lastUnderrunEvent' \in 0 .. monitorNow' /\ lastOverrunEvent' \in 0 .. monitorNow'
      /\ monitorNow' \in Nat
  BY <1>1, <1>2
<1>10. lows' \subseteq Nat /\ highs' \subseteq Nat
  BY <1>1, <1>2
<1>11. \A u \in counted' \cup lows' \cup highs' : u < monitorNow'
  <2>1. \A u \in counted' \cup lows' \cup highs' : u = monitorNow \/ u \in counted \cup lows \cup highs
    BY <1>1
  <2> QED BY <1>1, <1>2, <1>4, <2>1
<1>12. /\ lastUnderrunEvent' \in counted' \cup {watchedSince'}
       /\ \A u \in counted' : u <= lastUnderrunEvent'
  <2>1. CASE under
    <3>1. counted' = counted \cup {monitorNow} /\ lastUnderrunEvent' = monitorNow
      BY <1>1, <2>1
    <3> QED BY <1>2, <1>4, <3>1
  <2>2. CASE ~under
    <3>1. counted' = counted /\ lastUnderrunEvent' = lastUnderrunEvent /\ watchedSince' = watchedSince
      BY <1>1, <2>2
    <3> QED BY <3>1 DEF MonitorInv
  <2> QED BY <2>1, <2>2
<1>13. \A t, u \in counted' : t < u => u - t > Hysteresis
  <2> SUFFICES ASSUME NEW t \in counted', NEW u \in counted', t < u PROVE u - t > Hysteresis
    OBVIOUS
  <2>1. CASE t \in counted /\ u \in counted
    BY <2>1 DEF MonitorInv, EventsCounted
  <2>2. CASE ~(t \in counted /\ u \in counted)
    <3>1. under /\ (t = monitorNow \/ u = monitorNow)
      BY <1>1, <2>2
    <3>2. t = monitorNow \/ t \in counted
      BY <1>1
    <3>3. u = monitorNow \/ u \in counted
      BY <1>1
    <3>4. u = monitorNow /\ t \in counted
      <4>1. /\ t \in counted => t \in Nat /\ t < monitorNow
            /\ u \in counted => u \in Nat /\ u < monitorNow
        BY <1>4
      <4>2. t # monitorNow
        BY <1>2, <3>3, <4>1
      <4> QED BY <3>1, <3>2, <4>2
    <3>5. t <= lastUnderrunEvent /\ t \in Nat
      BY <1>4, <3>4 DEF MonitorInv
    <3> QED BY <1>2, <1>3, <3>1, <3>4, <3>5
  <2> QED BY <2>1, <2>2
<1>14. EventsCounted'
  BY <1>6, <1>7, <1>8, <1>13 DEF EventsCounted
<1>15. MissedOnlyWithinPeriod'
  <2> SUFFICES ASSUME NEW t \in lows' \ counted'
               PROVE  \E u \in counted' \cup {watchedSince'} : u <= t /\ t - u <= Hysteresis
    BY DEF MissedOnlyWithinPeriod
  <2>1. CASE t \in lows
    <3>1. t \in lows \ counted
      BY <1>1, <2>1
    <3>2. PICK u \in counted \cup {watchedSince} : u <= t /\ t - u <= Hysteresis
      BY <3>1 DEF MonitorInv, MissedOnlyWithinPeriod
    <3> QED BY <1>1, <3>2
  <2>2. CASE t \notin lows
    <3>1. t = monitorNow /\ low /\ ~under
      BY <1>1, <2>2
    <3>2. lastUnderrunEvent \in counted' \cup {watchedSince'}
      BY <1>1, <1>12, <3>1
    <3> QED BY <1>2, <1>3, <3>1, <3>2
  <2> QED BY <2>1, <2>2
<1> QED BY <1>1, <1>2, <1>6, <1>7, <1>8, <1>9, <1>10, <1>11, <1>12, <1>14, <1>15 DEF MonitorInv

LEMMA NextMonitor == MonitorInv /\ [MonitorNext]_monitorVars => MonitorInv'
<1> SUFFICES ASSUME MonitorInv, [MonitorNext]_monitorVars PROVE MonitorInv'
  OBVIOUS
<1>1. ASSUME NEW level \in FillLevels, UpdateFillLevel(level) PROVE MonitorInv'
  BY <1>1, UpdateKeepsMonitor
<1>2. CASE MonitorTick
  <2>1. /\ monitorNow' = monitorNow + 1 /\ monitorNow \in Nat
        /\ UNCHANGED <<bufferSize, underrunCount, overrunCount, dangerEventsCount,
                       lastUnderrunEvent, lastOverrunEvent, lows, highs, counted, watchedSince>>
    BY <1>2 DEF MonitorTick, MonitorInv
  <2>2. \A u \in counted \cup lows \cup highs : u \in Nat /\ u < monitorNow
    BY DEF MonitorInv, EventsCounted
  <2>3. \A u \in counted \cup lows \cup highs : u < monitorNow'
    BY <2>1, <2>2
  <2>4. lastUnderrunEvent \in 0 .. monitorNow' /\ lastOverrunEvent \in 0 .. monitorNow'
    BY <2>1 DEF MonitorInv
  <2> QED BY <2>1, <2>3, <2>4 DEF MonitorInv, EventsCounted, MissedOnlyWithinPeriod
<1>3. CASE ResetMonitor
  <2>1. IsFiniteSet({}) /\ Cardinality({}) = 0
    BY FS_EmptySet
  <2> QED BY <1>3, <2>1 DEF ResetMonitor, MonitorInv, EventsCounted, MissedOnlyWithinPeriod
<1>4. CASE UNCHANGED monitorVars
  BY <1>4 DEF monitorVars, MonitorInv, EventsCounted, MissedOnlyWithinPeriod
<1> QED BY <1>1, <1>2, <1>3, <1>4 DEF MonitorNext

LEMMA MonitorSafe == MonitorSpec => [](MonitorTypeOK /\ EventsCounted /\ MissedOnlyWithinPeriod)
<1>1. MonitorInv => MonitorTypeOK /\ EventsCounted /\ MissedOnlyWithinPeriod
  BY DEF MonitorInv, MonitorTypeOK
<1> QED BY <1>1, InitMonitor, NextMonitor, PTL DEF MonitorSpec

-----------------------------------------------------------------------------
(* ReceiverStats: the loss counter of a receiver                            *)

\* The holes up to packet m, the highest that arrived, are all counted; in
\* order m is also the last that arrived and nothing else is counted.
HolesCounted(m) ==
  /\ \A x \in arrived : x <= m
  /\ Cardinality((firstSeen .. m) \ arrived) <= packetsLost
  /\ ordered => latest = m /\ packetsLost = Cardinality((firstSeen .. m) \ arrived)

StatsInv ==
  /\ StatsTypeOK
  /\ arrived = {} => packetsReceived = 0 /\ latest = -1 /\ packetsLost = 0 /\ ordered
  /\ arrived # {} => /\ packetsReceived > 0 /\ latest \in arrived /\ firstSeen \in arrived
                     /\ lastSequenceNumber = NumberOf(latest)
                     /\ \E m \in arrived : HolesCounted(m)

\* The 16-bit difference of two numbers within half their range.
LEMMA GapExact ==
  ASSUME NEW n \in Nat, latest \in Nat, n - latest \in 1 - HalfWindow .. HalfWindow,
         firstNumber \in Nat, lastSequenceNumber = NumberOf(latest)
  PROVE  Gap(NumberOf(n)) = n - latest - 1
<1>1. NumberMod \in Nat \ {0} /\ HalfWindow \in Nat /\ NumberMod = 2 * HalfWindow
  BY StatsAssumption DEF HalfWindow
<1>2. PICK k \in Int, x \in 0 .. NumberMod - 1 :
        firstNumber + n = NumberMod * k + x /\ NumberOf(n) = x
  <2>1. firstNumber + n \in Int
    OBVIOUS
  <2> QED BY <1>1, <2>1, Rest DEF NumberOf
<1>3. PICK l \in Int, y \in 0 .. NumberMod - 1 :
        firstNumber + latest = NumberMod * l + y /\ lastSequenceNumber = y
  BY <1>1, Rest DEF NumberOf
<1>4. PICK p \in Int, z \in 0 .. NumberMod - 1 :
        y + 1 = NumberMod * p + z /\ (y + 1) % NumberMod = z
  <2>1. y + 1 \in Int
    BY <1>1
  <2> QED BY <1>1, <2>1, Rest
<1>5. x - z + HalfWindow = NumberMod * (l + p - k) + (n - latest - 1 + HalfWindow)
  BY <1>1, <1>2, <1>3, <1>4
<1>6. l + p - k \in Int /\ n - latest - 1 + HalfWindow \in 0 .. NumberMod - 1
  BY <1>1
<1>7. ((x - z) + HalfWindow) % NumberMod = n - latest - 1 + HalfWindow
  BY <1>1, <1>5, <1>6, RestIsTheRest
<1>8. Gap(x) = (((x - z) + HalfWindow) % NumberMod) - HalfWindow
  BY <1>3, <1>4 DEF Gap, Signed
<1> QED BY <1>1, <1>2, <1>7, <1>8

\* A packet above all that arrived adds the holes between them.
LEMMA HolesGrow ==
  ASSUME NEW A \in SUBSET Nat, NEW f \in Nat, NEW m \in Nat, NEW n \in Nat,
         f <= m, m < n, \A x \in A : x <= m
  PROVE  /\ Cardinality((f .. n) \ (A \cup {n})) = Cardinality((f .. m) \ A) + (n - m - 1)
         /\ Cardinality((f .. m) \ A) \in Nat
<1> DEFINE old == (f .. m) \ A
           new == (m + 1) .. (n - 1)
<1>1. IsFiniteSet(f .. m) /\ IsFiniteSet(new) /\ Cardinality(new) = n - m - 1
  BY FS_Interval
<1>2. IsFiniteSet(old) /\ Cardinality(old) \in Nat
  BY <1>1, FS_Difference, FS_CardinalityType
<1>3. old \cap new = {} /\ (f .. n) \ (A \cup {n}) = old \cup new
  OBVIOUS
<1>4. Cardinality(old \cup new) = Cardinality(old) + Cardinality(new) - Cardinality(old \cap new)
  BY <1>1, <1>2, FS_Union
<1>5. Cardinality(old \cap new) = 0
  BY <1>3, FS_EmptySet
<1> HIDE DEF old, new
<1>6. Cardinality(old \cup new) = Cardinality(old) + (n - m - 1)
  BY <1>1, <1>2, <1>4, <1>5
<1> QED BY <1>2, <1>3, <1>6 DEF old

\* One below the highest that arrived can only fill a hole.
LEMMA HolesShrink ==
  ASSUME NEW A, NEW f \in Nat, NEW m \in Nat, NEW n
  PROVE  /\ Cardinality((f .. m) \ (A \cup {n})) <= Cardinality((f .. m) \ A)
         /\ Cardinality((f .. m) \ (A \cup {n})) \in Nat /\ Cardinality((f .. m) \ A) \in Nat
<1>1. IsFiniteSet(f .. m)
  BY FS_Interval
<1>2. IsFiniteSet((f .. m) \ A) /\ (f .. m) \ (A \cup {n}) \in SUBSET ((f .. m) \ A)
  BY <1>1, FS_Difference
<1> QED BY <1>2, FS_Subset, FS_CardinalityType

LEMMA InitStats == StatsInit => StatsInv
BY StatsAssumption DEF StatsInit, StatsInv, StatsTypeOK

\* updateStats() of the first packet and of a later one.
LEMMA UpdateKeepsStats ==
  ASSUME StatsInv, NEW n \in 0 .. MaxSent - 1, UpdateStats(n)
  PROVE  StatsInv'
<1> DEFINE gap == IF packetsReceived > 0 THEN Gap(NumberOf(n)) ELSE 0
<1>1. /\ n \in inFlight \cup arrived /\ (latest < 0 \/ n - latest \in 1 - HalfWindow .. HalfWindow)
      /\ inFlight' = inFlight \ {n} /\ arrived' = arrived \cup {n}
      /\ firstSeen' = IF arrived = {} THEN n ELSE firstSeen
      /\ latest' = n /\ ordered' = (ordered /\ n > latest)
      /\ packetsLost' = packetsLost + LostBy(gap)
      /\ outOfOrderPackets' = IF gap < 0 THEN outOfOrderPackets + 1 ELSE outOfOrderPackets
      /\ lastSequenceNumber' = NumberOf(n) /\ packetsReceived' = packetsReceived + 1
      /\ firstNumber' = firstNumber /\ sent' = sent
  BY DEF UpdateStats, InWindow
<1> HIDE DEF gap
<1>2. /\ n \in Nat /\ packetsReceived \in Nat /\ packetsLost \in Nat /\ outOfOrderPackets \in Nat
      /\ firstNumber \in Nat /\ arrived \subseteq Nat /\ ordered \in BOOLEAN
      /\ MaxSent \in Nat /\ NumberMod \in Nat \ {0}
  BY StatsAssumption DEF StatsInv, StatsTypeOK
<1>3. ordered' = (ordered /\ n > latest) /\ ordered' \in BOOLEAN /\ (ordered' => ordered /\ n > latest)
  BY <1>1, <1>2
<1>4. NumberOf(n) \in 0 .. NumberMod - 1
  <2>1. firstNumber + n \in Int
    BY <1>2
  <2> QED BY <1>2, <2>1, Rest DEF NumberOf
<1>5. ASSUME LostBy(gap) \in Nat PROVE StatsTypeOK'
  <2>1. packetsReceived' \in Nat /\ packetsLost' \in Nat /\ outOfOrderPackets' \in Nat
    BY <1>1, <1>2, <1>5
  <2>2. /\ latest' \in -1 .. MaxSent - 1 /\ firstSeen' \in -1 .. MaxSent - 1
        /\ inFlight' \subseteq 0 .. MaxSent - 1 /\ arrived' \subseteq 0 .. MaxSent - 1
        /\ sent' \in 0 .. MaxSent /\ firstNumber' \in 0 .. NumberMod - 1
    BY <1>1, <1>2 DEF StatsInv, StatsTypeOK
  <2> QED BY <1>1, <1>3, <1>4, <2>1, <2>2 DEF StatsTypeOK
<1>6. NumberOf(n)' = NumberOf(n) /\ NumberOf(latest)' = NumberOf(n)
  BY <1>1 DEF NumberOf
<1>7. /\ arrived' # {} /\ packetsReceived' > 0 /\ latest' \in arrived'
      /\ lastSequenceNumber' = NumberOf(latest)'
  BY <1>1, <1>2, <1>6
<1>8. CASE arrived = {}
  <2>1. packetsReceived = 0 /\ latest = -1 /\ packetsLost = 0 /\ ordered = TRUE
    BY <1>8, <1>2 DEF StatsInv
  <2>2. gap = 0
    BY <2>1 DEF gap
  <2>3. LostBy(gap) = 0
    BY <2>2 DEF LostBy
  <2>4. packetsLost' = 0 /\ firstSeen' = n /\ arrived' = {n}
    BY <1>1, <1>8, <2>1, <2>3
  <2>5. (firstSeen' .. n) \ arrived' = {}
    BY <1>2, <2>4
  <2>6. Cardinality((firstSeen' .. n) \ arrived') = 0
    BY <2>5, FS_EmptySet
  <2>7. HolesCounted(n)'
    BY <1>1, <1>2, <2>4, <2>6 DEF HolesCounted
  <2>8. firstSeen' \in arrived' /\ n \in arrived'
    BY <2>4
  <2> QED BY <1>5, <1>7, <2>3, <2>7, <2>8 DEF StatsInv
<1>9. CASE arrived # {}
  <2>1. /\ packetsReceived > 0 /\ latest \in arrived /\ firstSeen \in arrived
        /\ lastSequenceNumber = NumberOf(latest)
    BY <1>9 DEF StatsInv
  <2>2. PICK m \in arrived : HolesCounted(m)
    BY <1>9 DEF StatsInv
  <2>3. m \in Nat /\ latest \in Nat /\ firstSeen \in Nat
    BY <1>2, <2>1
  <2>4. latest <= m /\ firstSeen <= m
    BY <2>1, <2>2 DEF HolesCounted
  <2>5. gap = n - latest - 1
    <3>1. Gap(NumberOf(n)) = n - latest - 1
      BY <1>1, <1>2, <2>1, <2>3, GapExact
    <3> QED BY <2>1, <3>1 DEF gap
  <2>6. LostBy(gap) \in Nat /\ LostBy(gap) >= n - latest - 1
        /\ (n > latest => LostBy(gap) = n - latest - 1)
    BY <1>2, <2>3, <2>5 DEF LostBy
  <2>7. firstSeen' = firstSeen
    BY <1>1, <1>9
  <2>8. \E t \in arrived' : HolesCounted(t)'
    <3>1. CASE n > m
      <4>1. /\ Cardinality((firstSeen .. n) \ (arrived \cup {n}))
                 = Cardinality((firstSeen .. m) \ arrived) + (n - m - 1)
            /\ Cardinality((firstSeen .. m) \ arrived) \in Nat
        BY <1>2, <2>2, <2>3, <2>4, <3>1, HolesGrow DEF HolesCounted
      <4> DEFINE before == Cardinality((firstSeen .. m) \ arrived)
                 after  == Cardinality((firstSeen' .. n) \ arrived')
      <4>2. after = before + (n - m - 1) /\ before \in Nat
        BY <1>1, <2>7, <4>1
      <4>3. before <= packetsLost /\ (ordered => latest = m /\ packetsLost = before)
        BY <2>2 DEF HolesCounted
      <4> HIDE DEF before, after
      <4>4. after <= packetsLost'
        BY <1>1, <1>2, <2>3, <2>4, <2>6, <4>2, <4>3
      <4>5. ordered' => latest' = n /\ packetsLost' = after
        BY <1>1, <1>2, <1>3, <2>3, <2>6, <3>1, <4>2, <4>3
      <4>6. \A x \in arrived' : x <= n
        BY <1>1, <1>2, <2>2, <2>3, <3>1 DEF HolesCounted
      <4>7. HolesCounted(n)'
        BY <4>4, <4>5, <4>6 DEF HolesCounted, after
      <4> QED BY <1>1, <4>7
    <3>2. CASE ~(n > m)
      <4>1. /\ Cardinality((firstSeen .. m) \ (arrived \cup {n}))
                 <= Cardinality((firstSeen .. m) \ arrived)
            /\ Cardinality((firstSeen .. m) \ (arrived \cup {n})) \in Nat
            /\ Cardinality((firstSeen .. m) \ arrived) \in Nat
        BY <2>3, HolesShrink
      <4>2. Cardinality((firstSeen .. m) \ arrived) <= packetsLost
            /\ (ordered => latest = m)
        BY <2>2 DEF HolesCounted
      <4>3. Cardinality((firstSeen' .. m) \ arrived') <= packetsLost'
        BY <1>1, <1>2, <2>6, <2>7, <4>1, <4>2
      <4>4. ~ordered'
        BY <1>3, <3>2, <4>2
      <4>5. \A x \in arrived' : x <= m
        BY <1>1, <1>2, <2>2, <2>3, <3>2 DEF HolesCounted
      <4>6. HolesCounted(m)'
        BY <4>3, <4>4, <4>5 DEF HolesCounted
      <4> QED BY <1>1, <4>6
    <3> QED BY <3>1, <3>2
  <2>9. firstSeen' \in arrived'
    BY <1>1, <2>1, <2>7
  <2> QED BY <1>5, <1>7, <2>6, <2>8, <2>9 DEF StatsInv
<1> QED BY <1>8, <1>9

LEMMA NextStats == StatsInv /\ [StatsNext]_statsVars => StatsInv'
<1> SUFFICES ASSUME StatsInv, [StatsNext]_statsVars PROVE StatsInv'
  OBVIOUS
<1>1. CASE SendNumbered
  <2>1. UNCHANGED <<firstNumber, arrived, firstSeen, latest, ordered, lastSequenceNumber,
                    packetsReceived, packetsLost, outOfOrderPackets>>
    BY <1>1 DEF SendNumbered
  <2>2. sent' \in 0 .. MaxSent /\ inFlight' \subseteq 0 .. MaxSent - 1
    BY <1>1, StatsAssumption DEF SendNumbered, StatsInv, StatsTypeOK
  <2> QED BY <2>1, <2>2 DEF StatsInv, StatsTypeOK, HolesCounted, NumberOf
<1>2. ASSUME NEW n \in 0 .. MaxSent - 1, Lose(n) PROVE StatsInv'
  BY <1>2 DEF Lose, StatsInv, StatsTypeOK, HolesCounted, NumberOf
<1>3. ASSUME NEW n \in 0 .. MaxSent - 1, UpdateStats(n) PROVE StatsInv'
  BY <1>3, UpdateKeepsStats
<1>4. CASE UNCHANGED statsVars
  BY <1>4 DEF statsVars, netVars, StatsInv, StatsTypeOK, HolesCounted, NumberOf
<1> QED BY <1>1, <1>2, <1>3, <1>4 DEF StatsNext

LEMMA LossesSafe == StatsSpec => [](StatsTypeOK /\ LostExact /\ NeverUndercounts)
<1>1. StatsInv => StatsTypeOK /\ LostExact /\ NeverUndercounts
  <2> SUFFICES ASSUME StatsInv PROVE LostExact /\ NeverUndercounts
    BY DEF StatsInv
  <2>1. CASE arrived = {}
    <3>1. Missing = {} /\ packetsLost = 0
      BY <2>1 DEF Missing, StatsInv
    <3> QED BY <3>1, FS_EmptySet DEF LostExact, NeverUndercounts
  <2>2. CASE arrived # {}
    <3>1. PICK m \in arrived : HolesCounted(m)
      BY <2>2 DEF StatsInv
    <3>2. arrived \subseteq Nat
      BY StatsAssumption DEF StatsInv, StatsTypeOK
    <3>3. Max(arrived) = m
      <4>1. \A y \in arrived : m >= y
        BY <3>1, <3>2 DEF HolesCounted
      <4>2. ASSUME NEW x \in arrived, \A y \in arrived : x >= y PROVE x = m
        BY <3>2, <4>1, <4>2
      <4> QED BY <4>1, <4>2 DEF Max
    <3>4. Missing = (firstSeen .. m) \ arrived
      BY <2>2, <3>3 DEF Missing
    <3>5. Cardinality((firstSeen .. m) \ arrived) \in Nat
      <4>1. firstSeen \in Nat /\ m \in Nat
        BY <2>2, <3>2 DEF StatsInv
      <4> QED BY <4>1, HolesShrink
    <3>6. Cardinality(Missing) <= packetsLost /\ (ordered => packetsLost = Cardinality(Missing))
      BY <3>1, <3>4 DEF HolesCounted
    <3>7. packetsLost \in Nat
      BY DEF StatsInv, StatsTypeOK
    <3> QED BY <3>4, <3>5, <3>6, <3>7 DEF LostExact, NeverUndercounts
  <2> QED BY <2>1, <2>2
<1> QED BY <1>1, InitStats, NextStats, PTL DEF StatsSpec

\* What RTPReceiver::updateStats and BufferStatusMonitor count has happened, and
\* what happened is counted, through the wrap of the sequence numbers and up to
\* the monitor's hysteresis, beside whatever the other components do.
THEOREM CountersTrue == ServicesSpec => []CountingSafe
BY EachComponentRuns, LossesSafe, MonitorSafe, PTL DEF CountingSafe

-----------------------------------------------------------------------------
(* ResourceCleanupManager: clean-up functions and the guard of a descriptor  *)

Increasing(s) == \A i, j \in 1 .. Len(s) : i < j => s[i] < s[j]
Below(s, r)   == \A i \in 1 .. Len(s), j \in 1 .. Len(r) : s[i] < r[j]

Busy(t) == cleanerPc[t] \in {"swap", "run"}

\* At most one thread is between setting cleanupInProgress_ and clearing it, and
\* nobody else holds a batch.
CleanersInv ==
  /\ cleanerPc \in [Cleaners -> {"idle", "swap", "run", "clear"}]
  /\ cleanupInProgress \in BOOLEAN
  /\ \A t \in Cleaners : Busy(t) => cleanupInProgress
  /\ cleanupInProgress => \E t \in Cleaners : Busy(t)
  /\ \A t, u \in Cleaners : Busy(t) /\ Busy(u) => t = u
  /\ \A t \in Cleaners : cleanerBatch[t] # <<>> => cleanerPc[t] = "run"

\* What has run comes before what is in the batch, and that before what waits.
OrderInv ==
  /\ registered \in 0 .. MaxFunctions
  /\ cleanupFunctions \in Seq(1 .. registered) /\ cleanupsRun \in Seq(1 .. registered)
  /\ cleanerBatch \in [Cleaners -> Seq(1 .. registered)]
  /\ Increasing(cleanupFunctions) /\ Increasing(cleanupsRun)
  /\ Below(cleanupsRun, cleanupFunctions)
  /\ \A t \in Cleaners : /\ Increasing(cleanerBatch[t])
                         /\ Below(cleanupsRun, cleanerBatch[t])
                         /\ Below(cleanerBatch[t], cleanupFunctions)
  /\ \A i \in 1 .. Len(cleanupsRun) : cleanupsRun[i] >= i

AccountInv ==
  /\ forgotten \subseteq 1 .. registered
  /\ \A x \in 1 .. registered :
       \/ x \in ToSet(cleanupFunctions) \/ x \in ToSet(cleanupsRun) \/ x \in forgotten
       \/ \E t \in Cleaners : x \in ToSet(cleanerBatch[t])

ManagerInv == CleanersInv /\ OrderInv /\ AccountInv

LEMMA ToSetGrows ==
  ASSUME NEW S, NEW s \in Seq(S), NEW x \in S
  PROVE  ToSet(Append(s, x)) = ToSet(s) \cup {x}
<1>1. /\ Len(Append(s, x)) = Len(s) + 1 /\ Len(s) \in Nat
      /\ Append(s, x)[Len(s) + 1] = x
      /\ \A i \in 1 .. Len(s) : Append(s, x)[i] = s[i]
      /\ DOMAIN Append(s, x) = 1 .. Len(s) + 1 /\ DOMAIN s = 1 .. Len(s)
  BY AppendProperties, LenProperties
<1>2. \A y : y \in ToSet(Append(s, x)) <=> \E i \in 1 .. Len(s) + 1 : y = Append(s, x)[i]
  BY <1>1 DEF ToSet
<1>3. \A y : y \in ToSet(s) <=> \E i \in 1 .. Len(s) : y = s[i]
  BY <1>1 DEF ToSet
<1>4. 1 .. Len(s) + 1 = (1 .. Len(s)) \cup {Len(s) + 1}
  BY <1>1
<1> QED BY <1>1, <1>2, <1>3, <1>4

LEMMA ToSetSplits ==
  ASSUME NEW S, NEW s \in Seq(S), s # <<>>
  PROVE  ToSet(s) = {Head(s)} \cup ToSet(Tail(s))
<1>1. /\ Tail(s) \in Seq(S) /\ Len(Tail(s)) = Len(s) - 1 /\ Head(s) = s[1] /\ Len(s) \in Nat \ {0}
      /\ \A i \in 1 .. Len(Tail(s)) : Tail(s)[i] = s[i + 1]
      /\ DOMAIN Tail(s) = 1 .. Len(Tail(s)) /\ DOMAIN s = 1 .. Len(s)
  BY HeadTailProperties, LenProperties, EmptySeq
<1>2. \A y : y \in ToSet(Tail(s)) <=> \E i \in 1 .. Len(s) - 1 : y = s[i + 1]
  BY <1>1 DEF ToSet
<1>3. \A y : y \in ToSet(s) <=> \E i \in 1 .. Len(s) : y = s[i]
  BY <1>1 DEF ToSet
<1>4. \A i \in 1 .. Len(s) : i = 1 \/ \E j \in 1 .. Len(s) - 1 : i = j + 1
  <2> SUFFICES ASSUME NEW i \in 1 .. Len(s), i # 1 PROVE \E j \in 1 .. Len(s) - 1 : i = j + 1
    OBVIOUS
  <2>1. i - 1 \in 1 .. Len(s) - 1 /\ i = (i - 1) + 1
    BY <1>1
  <2> QED BY <2>1
<1>5. \A j \in 1 .. Len(s) - 1 : j + 1 \in 1 .. Len(s)
  BY <1>1
<1>6. 1 \in 1 .. Len(s)
  BY <1>1
<1>7. \A y : y \in ToSet(s) => y = s[1] \/ y \in ToSet(Tail(s))
  BY <1>2, <1>3, <1>4
<1>8. \A y : y = s[1] \/ y \in ToSet(Tail(s)) => y \in ToSet(s)
  BY <1>2, <1>3, <1>5, <1>6
<1> QED BY <1>1, <1>7, <1>8

LEMMA ToSetEmpty == ToSet(<<>>) = {}
BY EmptyIsZero DEF ToSet

LEMMA ToSetWithin ==
  ASSUME NEW S, NEW s \in Seq(S)
  PROVE  ToSet(s) \subseteq S
BY LenProperties, ElementOfSeq DEF ToSet

\* A longer type for the same sequences.
LEMMA WiderSeq ==
  ASSUME NEW n \in Nat, NEW s \in Seq(1 .. n)
  PROVE  s \in Seq(1 .. n + 1)
<1>1. 1 .. n \subseteq 1 .. n + 1
  OBVIOUS
<1> QED BY <1>1, SeqMonotonic

LEMMA InitManager == CleanupInit => ManagerInv
<1> SUFFICES ASSUME CleanupInit PROVE ManagerInv
  OBVIOUS
<1>1. /\ cleanupFunctions = <<>> /\ cleanupsRun = <<>> /\ registered = 0 /\ forgotten = {}
      /\ \A t \in Cleaners : cleanerBatch[t] = <<>> /\ cleanerPc[t] = "idle"
      /\ cleanerPc \in [Cleaners -> {"idle", "swap", "run", "clear"}]
      /\ cleanupInProgress = FALSE
  BY DEF CleanupInit
<1>2. cleanerBatch \in [Cleaners -> Seq(1 .. registered)]
  BY EmptySeq DEF CleanupInit
<1>3. 1 .. Len(<<>>) = {}
  BY EmptyIsZero
<1>4. CleanersInv
  BY <1>1 DEF CleanersInv, Busy
<1>5. OrderInv
  BY <1>1, <1>2, <1>3, EmptySeq, CleanupAssumption DEF OrderInv, Increasing, Below
<1>6. AccountInv
  BY <1>1 DEF AccountInv
<1> QED BY <1>4, <1>5, <1>6 DEF ManagerInv

\* registerCleanup() at the end of the list.
LEMMA RegisterKeepsManager ==
  ASSUME ManagerInv, NEW t \in Cleaners, RegisterCleanup(t)
  PROVE  ManagerInv'
<1>1. /\ registered' = registered + 1 /\ registered < MaxFunctions
      /\ cleanupFunctions' = Append(cleanupFunctions, registered + 1)
      /\ UNCHANGED <<cleanupInProgress, cleanerPc, cleanerBatch, resetAfter, cleanupsRun, forgotten>>
  BY DEF RegisterCleanup
<1>2. /\ registered \in Nat /\ MaxFunctions \in Nat
      /\ cleanupFunctions \in Seq(1 .. registered) /\ cleanupsRun \in Seq(1 .. registered)
      /\ \A u \in Cleaners : cleanerBatch[u] \in Seq(1 .. registered)
      /\ cleanerBatch \in [Cleaners -> Seq(1 .. registered)]
  BY CleanupAssumption DEF ManagerInv, OrderInv
<1>3. registered + 1 \in 1 .. registered + 1 /\ registered' \in 0 .. MaxFunctions
  BY <1>1, <1>2
<1>4. /\ cleanupFunctions \in Seq(1 .. registered') /\ cleanupsRun' \in Seq(1 .. registered')
      /\ \A u \in Cleaners : cleanerBatch'[u] \in Seq(1 .. registered')
  BY <1>1, <1>2, WiderSeq
<1>5. /\ cleanupFunctions' \in Seq(1 .. registered')
      /\ cleanerBatch' \in [Cleaners -> Seq(1 .. registered')]
      /\ Len(cleanupFunctions') = Len(cleanupFunctions) + 1 /\ Len(cleanupFunctions) \in Nat
      /\ cleanupFunctions'[Len(cleanupFunctions) + 1] = registered + 1
      /\ \A i \in 1 .. Len(cleanupFunctions) : cleanupFunctions'[i] = cleanupFunctions[i]
  BY <1>1, <1>2, <1>3, <1>4, AppendProperties, LenProperties
<1>6. \A j \in 1 .. Len(cleanupFunctions') :
         j = Len(cleanupFunctions) + 1 \/ j \in 1 .. Len(cleanupFunctions)
  BY <1>5
<1>7. ASSUME NEW s \in Seq(1 .. registered), Below(s, cleanupFunctions)
      PROVE  Below(s, cleanupFunctions')
  <2> SUFFICES ASSUME NEW i \in 1 .. Len(s), NEW j \in 1 .. Len(cleanupFunctions')
               PROVE  s[i] < cleanupFunctions'[j]
    BY DEF Below
  <2>1. s[i] \in 1 .. registered
    BY ElementOfSeq
  <2>2. CASE j = Len(cleanupFunctions) + 1
    BY <1>2, <1>5, <2>1, <2>2
  <2>3. CASE j # Len(cleanupFunctions) + 1
    <3>1. j \in 1 .. Len(cleanupFunctions)
      BY <1>6, <2>3
    <3> QED BY <1>5, <1>7, <3>1 DEF Below
  <2> QED BY <2>2, <2>3
<1>8. Increasing(cleanupFunctions')
  <2> SUFFICES ASSUME NEW i \in 1 .. Len(cleanupFunctions'), NEW j \in 1 .. Len(cleanupFunctions'), i < j
               PROVE  cleanupFunctions'[i] < cleanupFunctions'[j]
    BY DEF Increasing
  <2>1. i \in 1 .. Len(cleanupFunctions)
    BY <1>5
  <2>2. cleanupFunctions[i] \in 1 .. registered
    BY <1>2, <2>1, ElementOfSeq
  <2>3. CASE j = Len(cleanupFunctions) + 1
    BY <1>2, <1>5, <2>1, <2>2, <2>3
  <2>4. CASE j # Len(cleanupFunctions) + 1
    <3>1. j \in 1 .. Len(cleanupFunctions)
      BY <1>6, <2>4
    <3> QED BY <1>5, <2>1, <3>1 DEF ManagerInv, OrderInv, Increasing
  <2> QED BY <2>3, <2>4
<1>9. OrderInv'
  <2>1. Below(cleanupsRun', cleanupFunctions') /\ Increasing(cleanupsRun')
    BY <1>1, <1>2, <1>7 DEF ManagerInv, OrderInv, Increasing, Below
  <2>2. ASSUME NEW u \in Cleaners
        PROVE  /\ Increasing(cleanerBatch'[u]) /\ Below(cleanupsRun', cleanerBatch'[u])
               /\ Below(cleanerBatch'[u], cleanupFunctions')
    BY <1>1, <1>2, <1>7 DEF ManagerInv, OrderInv
  <2>3. \A i \in 1 .. Len(cleanupsRun') : cleanupsRun'[i] >= i
    BY <1>1 DEF ManagerInv, OrderInv
  <2> QED BY <1>3, <1>4, <1>5, <1>8, <2>1, <2>2, <2>3 DEF OrderInv
<1>10. AccountInv'
  <2>1. ToSet(cleanupFunctions') = ToSet(cleanupFunctions) \cup {registered + 1}
    <3>1. PICK S : S = 1 .. registered'
      OBVIOUS
    <3>2. PICK newest \in S : newest = registered + 1
      BY <1>1, <1>3, <3>1
    <3>3. cleanupFunctions \in Seq(S)
      BY <1>4, <3>1
    <3>4. ToSet(Append(cleanupFunctions, newest)) = ToSet(cleanupFunctions) \cup {newest}
      BY <3>3, ToSetGrows
    <3>5. ToSet(Append(cleanupFunctions, registered + 1)) = ToSet(cleanupFunctions) \cup {registered + 1}
      BY <3>2, <3>4
    <3> QED BY <1>1, <3>5
  <2>2. \A x \in 1 .. registered' : x \in 1 .. registered \/ x = registered + 1
    BY <1>1, <1>2
  <2>3. forgotten' \subseteq 1 .. registered'
    BY <1>1, <1>2 DEF ManagerInv, AccountInv
  <2> QED BY <1>1, <2>1, <2>2, <2>3 DEF ManagerInv, AccountInv
<1>11. CleanersInv'
  BY <1>1 DEF ManagerInv, CleanersInv, Busy
<1> QED BY <1>9, <1>10, <1>11 DEF ManagerInv

\* The holder of the batch calls its next function.
LEMMA RunKeepsManager ==
  ASSUME ManagerInv, NEW t \in Cleaners, RunCleanup(t)
  PROVE  ManagerInv'
<1> DEFINE batch == cleanerBatch[t]
<1>1. /\ cleanerPc[t] = "run" /\ batch # <<>>
      /\ cleanupsRun' = Append(cleanupsRun, Head(batch))
      /\ cleanerBatch' = [cleanerBatch EXCEPT ![t] = Tail(batch)]
      /\ UNCHANGED <<cleanupFunctions, cleanupInProgress, cleanerPc, resetAfter, registered, forgotten>>
  BY DEF RunCleanup
<1>2. /\ registered \in Nat /\ registered \in 0 .. MaxFunctions
      /\ cleanupFunctions \in Seq(1 .. registered) /\ cleanupsRun \in Seq(1 .. registered)
      /\ cleanerBatch \in [Cleaners -> Seq(1 .. registered)]
      /\ batch \in Seq(1 .. registered)
      /\ Increasing(cleanupsRun) /\ Increasing(batch)
      /\ Below(cleanupsRun, batch) /\ Below(batch, cleanupFunctions)
  BY CleanupAssumption DEF ManagerInv, OrderInv
<1>3. \A u \in Cleaners : u # t => cleanerBatch[u] = <<>>
  BY <1>1 DEF ManagerInv, CleanersInv, Busy
<1>4. /\ cleanerBatch'[t] = Tail(batch)
      /\ \A u \in Cleaners : u # t => cleanerBatch'[u] = <<>>
  BY <1>1, <1>2, <1>3
<1>5. /\ Head(batch) = batch[1] /\ Head(batch) \in 1 .. registered
      /\ Tail(batch) \in Seq(1 .. registered) /\ Len(Tail(batch)) = Len(batch) - 1
      /\ Len(batch) \in Nat \ {0}
      /\ \A i \in 1 .. Len(batch) - 1 : Tail(batch)[i] = batch[i + 1]
  BY <1>1, <1>2, HeadAndTail
<1>6. /\ cleanupsRun' \in Seq(1 .. registered)
      /\ Len(cleanupsRun') = Len(cleanupsRun) + 1 /\ Len(cleanupsRun) \in Nat
      /\ cleanupsRun'[Len(cleanupsRun) + 1] = batch[1]
      /\ \A i \in 1 .. Len(cleanupsRun) : cleanupsRun'[i] = cleanupsRun[i]
  BY <1>1, <1>2, <1>5, AppendProperties, LenProperties
<1>7. \A j \in 1 .. Len(cleanupsRun') : j = Len(cleanupsRun) + 1 \/ j \in 1 .. Len(cleanupsRun)
  BY <1>6
<1>8. /\ \A i \in 1 .. Len(cleanupsRun) : cleanupsRun[i] < batch[1] /\ cleanupsRun[i] \in 1 .. registered
      /\ batch[1] \in 1 .. registered /\ 1 \in 1 .. Len(batch)
  <2>1. 1 \in 1 .. Len(batch)
    BY <1>5
  <2>2. \A i \in 1 .. Len(cleanupsRun) : cleanupsRun[i] \in 1 .. registered
    BY <1>2, ElementOfSeq
  <2> QED BY <1>2, <1>5, <2>1, <2>2 DEF Below
<1>9. \A i \in 1 .. Len(Tail(batch)) :
        i + 1 \in 1 .. Len(batch) /\ Tail(batch)[i] = batch[i + 1] /\ 1 < i + 1
  BY <1>5
<1> HIDE DEF batch
<1>10. Increasing(cleanupsRun')
  <2> SUFFICES ASSUME NEW i \in 1 .. Len(cleanupsRun'), NEW j \in 1 .. Len(cleanupsRun'), i < j
               PROVE  cleanupsRun'[i] < cleanupsRun'[j]
    BY DEF Increasing
  <2>1. i \in 1 .. Len(cleanupsRun)
    BY <1>6
  <2>2. CASE j = Len(cleanupsRun) + 1
    BY <1>6, <1>8, <2>1, <2>2
  <2>3. CASE j \in 1 .. Len(cleanupsRun)
    BY <1>2, <1>6, <2>1, <2>3 DEF Increasing
  <2> QED BY <1>7, <2>2, <2>3
<1>11. \A i \in 1 .. Len(cleanupsRun') : cleanupsRun'[i] >= i
  <2> SUFFICES ASSUME NEW i \in 1 .. Len(cleanupsRun') PROVE cleanupsRun'[i] >= i
    OBVIOUS
  <2>1. \A j \in 1 .. Len(cleanupsRun) : cleanupsRun[j] >= j
    BY DEF ManagerInv, OrderInv
  <2>2. CASE i \in 1 .. Len(cleanupsRun)
    BY <1>6, <2>1, <2>2
  <2>3. CASE i = Len(cleanupsRun) + 1
    <3>1. CASE Len(cleanupsRun) = 0
      BY <1>6, <1>8, <2>3, <3>1
    <3>2. CASE Len(cleanupsRun) # 0
      <4>1. Len(cleanupsRun) \in 1 .. Len(cleanupsRun)
        BY <1>6, <3>2
      <4>2. PICK l \in 1 .. Len(cleanupsRun) : l = Len(cleanupsRun)
        BY <4>1
      <4>3. cleanupsRun[l] >= l /\ cleanupsRun[l] < batch[1]
        BY <1>8, <2>1
      <4>4. cleanupsRun[l] \in 1 .. registered /\ batch[1] \in 1 .. registered
        BY <1>8
      <4>5. cleanupsRun[l] \in Nat /\ batch[1] \in Nat
        BY <4>4
      <4> QED BY <1>6, <2>3, <4>2, <4>3, <4>5
    <3> QED BY <3>1, <3>2
  <2> QED BY <1>7, <2>2, <2>3
<1>12. Increasing(Tail(batch)) /\ Below(Tail(batch), cleanupFunctions)
  <2>1. ASSUME NEW i \in 1 .. Len(Tail(batch)), NEW j \in 1 .. Len(Tail(batch)), i < j
        PROVE  Tail(batch)[i] < Tail(batch)[j]
    <3>1. i + 1 < j + 1 /\ i + 1 \in 1 .. Len(batch) /\ j + 1 \in 1 .. Len(batch)
      BY <1>9, <2>1
    <3> QED BY <1>2, <1>9, <3>1 DEF Increasing
  <2>2. Below(Tail(batch), cleanupFunctions)
    BY <1>2, <1>9 DEF Below
  <2> QED BY <2>1, <2>2 DEF Increasing
<1>13. Below(cleanupsRun', Tail(batch))
  <2> SUFFICES ASSUME NEW i \in 1 .. Len(cleanupsRun'), NEW j \in 1 .. Len(Tail(batch))
               PROVE  cleanupsRun'[i] < Tail(batch)[j]
    BY DEF Below
  <2>1. j + 1 \in 1 .. Len(batch) /\ Tail(batch)[j] = batch[j + 1] /\ 1 < j + 1
    BY <1>9
  <2>2. CASE i \in 1 .. Len(cleanupsRun)
    BY <1>2, <1>6, <2>1, <2>2 DEF Below
  <2>3. CASE i = Len(cleanupsRun) + 1
    BY <1>2, <1>6, <1>8, <2>1, <2>3 DEF Increasing
  <2> QED BY <1>7, <2>2, <2>3
<1>14. Below(cleanupsRun', cleanupFunctions)
  <2> SUFFICES ASSUME NEW i \in 1 .. Len(cleanupsRun'), NEW j \in 1 .. Len(cleanupFunctions)
               PROVE  cleanupsRun'[i] < cleanupFunctions[j]
    BY DEF Below
  <2>1. Below(cleanupsRun, cleanupFunctions)
    BY DEF ManagerInv, OrderInv
  <2>2. CASE i \in 1 .. Len(cleanupsRun)
    BY <1>6, <2>1, <2>2 DEF Below
  <2>3. CASE i = Len(cleanupsRun) + 1
    BY <1>2, <1>6, <1>8, <2>3 DEF Below
  <2> QED BY <1>7, <2>2, <2>3
<1>15. ASSUME NEW s \in Seq(1 .. registered)
       PROVE  Increasing(<<>>) /\ Below(<<>>, s) /\ Below(s, <<>>)
  <2>1. 1 .. Len(<<>>) = {}
    BY EmptyIsZero
  <2> QED BY <2>1 DEF Increasing, Below
<1>16. OrderInv'
  <2>1. ASSUME NEW u \in Cleaners
        PROVE  /\ Increasing(cleanerBatch'[u]) /\ Below(cleanupsRun', cleanerBatch'[u])
               /\ Below(cleanerBatch'[u], cleanupFunctions')
    BY <1>1, <1>2, <1>4, <1>6, <1>12, <1>13, <1>15
  <2>2. cleanerBatch' \in [Cleaners -> Seq(1 .. registered)]
    BY <1>1, <1>2, <1>5
  <2>3. Increasing(cleanupFunctions)
    BY DEF ManagerInv, OrderInv
  <2> QED BY <1>1, <1>2, <1>6, <1>10, <1>11, <1>14, <2>1, <2>2, <2>3 DEF OrderInv
<1>17. AccountInv'
  <2>1. ToSet(Append(cleanupsRun, Head(batch))) = ToSet(cleanupsRun) \cup {Head(batch)}
    BY <1>2, <1>5, ToSetGrows
  <2>2. ToSet(cleanupsRun') = ToSet(cleanupsRun) \cup {Head(batch)}
    BY <1>1, <2>1
  <2>3. ToSet(batch) = {Head(batch)} \cup ToSet(Tail(batch))
    BY <1>1, <1>2, ToSetSplits
  <2>4. \A u \in Cleaners : ToSet(cleanerBatch[u]) \subseteq {Head(batch)} \cup ToSet(cleanerBatch'[u])
    <3> SUFFICES ASSUME NEW u \in Cleaners
                 PROVE  ToSet(cleanerBatch[u]) \subseteq {Head(batch)} \cup ToSet(cleanerBatch'[u])
      OBVIOUS
    <3>1. CASE u = t
      BY <1>4, <2>3, <3>1 DEF batch
    <3>2. CASE u # t
      BY <1>3, <1>4, <3>2, ToSetEmpty
    <3> QED BY <3>1, <3>2
  <2> QED BY <1>1, <2>2, <2>4 DEF ManagerInv, AccountInv
<1>18. CleanersInv'
  BY <1>1, <1>3, <1>4 DEF ManagerInv, CleanersInv, Busy
<1> QED BY <1>16, <1>17, <1>18 DEF ManagerInv

\* The batch takes the whole list.
LEMMA SwapKeepsManager ==
  ASSUME ManagerInv, NEW t \in Cleaners, SwapFunctions(t)
  PROVE  ManagerInv'
<1>1. /\ cleanerPc[t] = "swap" /\ cleanerPc' = [cleanerPc EXCEPT ![t] = "run"]
      /\ cleanerBatch' = [cleanerBatch EXCEPT ![t] = cleanupFunctions]
      /\ cleanupFunctions' = <<>>
      /\ UNCHANGED <<cleanupInProgress, resetAfter, registered, cleanupsRun, forgotten>>
  BY DEF SwapFunctions
<1>2. /\ cleanerPc \in [Cleaners -> {"idle", "swap", "run", "clear"}]
      /\ cleanerBatch \in [Cleaners -> Seq(1 .. registered)]
      /\ cleanupFunctions \in Seq(1 .. registered)
  BY DEF ManagerInv, CleanersInv, OrderInv
<1>3. /\ \A u \in Cleaners : cleanerBatch[u] = <<>>
      /\ \A u \in Cleaners : u # t => ~Busy(u)
  BY <1>1 DEF ManagerInv, CleanersInv, Busy
<1>4. /\ cleanerBatch'[t] = cleanupFunctions /\ cleanerPc'[t] = "run"
      /\ \A u \in Cleaners : u # t => cleanerBatch'[u] = <<>> /\ cleanerPc'[u] = cleanerPc[u]
  BY <1>1, <1>2, <1>3
<1>5. ASSUME NEW s \in Seq(1 .. registered)
      PROVE  Increasing(<<>>) /\ Below(<<>>, s) /\ Below(s, <<>>)
  <2>1. 1 .. Len(<<>>) = {}
    BY EmptyIsZero
  <2> QED BY <2>1 DEF Increasing, Below
<1>6. CleanersInv'
  BY <1>1, <1>2, <1>3, <1>4 DEF ManagerInv, CleanersInv, Busy
<1>7. OrderInv'
  <2>1. cleanupsRun \in Seq(1 .. registered) /\ <<>> \in Seq(1 .. registered)
    BY EmptySeq DEF ManagerInv, OrderInv
  <2>2. Increasing(<<>>) /\ Below(cleanupsRun', cleanupFunctions')
    BY <1>1, <1>5, <2>1
  <2>3. ASSUME NEW u \in Cleaners
        PROVE  /\ Increasing(cleanerBatch'[u]) /\ Below(cleanupsRun', cleanerBatch'[u])
               /\ Below(cleanerBatch'[u], cleanupFunctions')
    BY <1>1, <1>2, <1>4, <1>5, <2>1 DEF ManagerInv, OrderInv
  <2>4. cleanerBatch' \in [Cleaners -> Seq(1 .. registered)]
    BY <1>1, <1>2
  <2> QED BY <1>1, <2>1, <2>2, <2>3, <2>4 DEF ManagerInv, OrderInv
<1>8. AccountInv'
  BY <1>1, <1>3, <1>4, ToSetEmpty DEF ManagerInv, AccountInv
<1> QED BY <1>6, <1>7, <1>8 DEF ManagerInv

\* Taking the flag, giving it back and clearing the list.
LEMMA StepKeepsManager ==
  ASSUME ManagerInv, NEW t \in Cleaners,
         (\E reset \in BOOLEAN : PerformCleanup(t, reset)) \/ EndCleanup(t) \/ ClearFunctions(t)
  PROVE  ManagerInv'
<1>1. /\ cleanerPc \in [Cleaners -> {"idle", "swap", "run", "clear"}]
      /\ cleanupInProgress \in BOOLEAN
  BY DEF ManagerInv, CleanersInv
<1>2. ASSUME NEW reset \in BOOLEAN, PerformCleanup(t, reset) PROVE ManagerInv'
  <2>1. /\ cleanerPc[t] = "idle" /\ cleanupInProgress' = TRUE
        /\ UNCHANGED <<cleanupFunctions, cleanerBatch, registered, cleanupsRun, forgotten>>
    BY <1>2 DEF PerformCleanup
  <2>2. OrderInv' /\ AccountInv'
    BY <2>1 DEF ManagerInv, OrderInv, AccountInv
  <2>3. CASE cleanupInProgress
    <3>1. PICK nextPc \in {"clear", "idle"} : cleanerPc' = [cleanerPc EXCEPT ![t] = nextPc]
      BY <1>2, <2>3 DEF PerformCleanup
    <3>2. cleanerPc'[t] = nextPc /\ \A u \in Cleaners : u # t => cleanerPc'[u] = cleanerPc[u]
      BY <1>1, <3>1
    <3>3. CleanersInv'
      BY <1>1, <2>1, <2>3, <3>1, <3>2 DEF ManagerInv, CleanersInv, Busy
    <3> QED BY <2>2, <3>3 DEF ManagerInv
  <2>4. CASE ~cleanupInProgress
    <3>1. cleanerPc' = [cleanerPc EXCEPT ![t] = "swap"]
      BY <1>2, <2>4 DEF PerformCleanup
    <3>2. cleanerPc'[t] = "swap" /\ \A u \in Cleaners : u # t => cleanerPc'[u] = cleanerPc[u]
      BY <1>1, <3>1
    <3>3. \A u \in Cleaners : ~Busy(u)
      BY <2>4 DEF ManagerInv, CleanersInv
    <3>4. CleanersInv'
      BY <1>1, <2>1, <3>1, <3>2, <3>3 DEF ManagerInv, CleanersInv, Busy
    <3> QED BY <2>2, <3>4 DEF ManagerInv
  <2> QED BY <1>1, <2>3, <2>4
<1>3. CASE EndCleanup(t)
  <2>1. /\ cleanerPc[t] = "run" /\ cleanerBatch[t] = <<>> /\ cleanupInProgress' = FALSE
        /\ UNCHANGED <<cleanupFunctions, cleanerBatch, registered, cleanupsRun, forgotten>>
    BY <1>3 DEF EndCleanup
  <2>2. PICK nextPc \in {"clear", "idle"} : cleanerPc' = [cleanerPc EXCEPT ![t] = nextPc]
    BY <1>3 DEF EndCleanup
  <2>3. cleanerPc'[t] = nextPc /\ \A u \in Cleaners : u # t => cleanerPc'[u] = cleanerPc[u] /\ ~Busy(u)
    BY <1>1, <2>1, <2>2 DEF ManagerInv, CleanersInv, Busy
  <2>4. CleanersInv'
    BY <1>1, <2>1, <2>2, <2>3 DEF ManagerInv, CleanersInv, Busy
  <2>5. OrderInv' /\ AccountInv'
    BY <2>1 DEF ManagerInv, OrderInv, AccountInv
  <2> QED BY <2>4, <2>5 DEF ManagerInv
<1>4. CASE ClearFunctions(t)
  <2>1. /\ cleanerPc[t] = "clear" /\ cleanerPc' = [cleanerPc EXCEPT ![t] = "idle"]
        /\ cleanupFunctions' = <<>> /\ forgotten' = forgotten \cup ToSet(cleanupFunctions)
        /\ UNCHANGED <<cleanupInProgress, cleanerBatch, registered, cleanupsRun>>
    BY <1>4 DEF ClearFunctions
  <2>2. cleanerPc'[t] = "idle" /\ \A u \in Cleaners : u # t => cleanerPc'[u] = cleanerPc[u]
    BY <1>1, <2>1
  <2>3. CleanersInv'
    BY <1>1, <2>1, <2>2 DEF ManagerInv, CleanersInv, Busy
  <2>4. 1 .. Len(<<>>) = {} /\ <<>> \in Seq(1 .. registered)
    BY EmptyIsZero, EmptySeq
  <2>5. OrderInv'
    BY <2>1, <2>4 DEF ManagerInv, OrderInv, Increasing, Below
  <2>6. ToSet(cleanupFunctions) \subseteq 1 .. registered
    BY ToSetWithin DEF ManagerInv, OrderInv
  <2>7. AccountInv'
    BY <2>1, <2>6 DEF ManagerInv, AccountInv
  <2> QED BY <2>3, <2>5, <2>7 DEF ManagerInv
<1> QED BY <1>2, <1>3, <1>4

GuardEvents == {"closed", "close", "destroyed", "released"}

\* A guard still holds its descriptor only before anything happened to it or
\* after it was released; there is no second close.
GuardInv ==
  /\ guardFd \in {-1, 3} /\ guardActive \in BOOLEAN /\ guardLog \in Seq(GuardEvents)
  /\ guardFd = 3 /\ guardActive => guardLog = <<>>
  /\ guardFd = 3 /\ ~guardActive => guardLog # <<>> /\ guardLog[1] = "released"
  /\ guardFd = 3 => \A i \in 1 .. Len(guardLog) : guardLog[i] # "closed"
  /\ \A i, j \in 1 .. Len(guardLog) : guardLog[i] = "closed" /\ guardLog[j] = "closed" => i = j

LEMMA CloseKeepsGuard ==
  ASSUME GuardInv, NEW event \in {"close", "destroyed"}, CloseGuard(event)
  PROVE  GuardInv'
<1>1. CASE guardActive /\ guardFd >= 0
  <2>1. guardFd = 3 /\ guardLog = <<>> /\ guardLog \in Seq(GuardEvents)
    BY <1>1 DEF GuardInv
  <2>2. guardLog' = guardLog \o <<"closed", event>> /\ guardFd' = -1 /\ guardActive' = FALSE
    BY <1>1 DEF CloseGuard
  <2>3. <<"closed", event>> \in Seq(GuardEvents) /\ Len(<<"closed", event>>) = 2
        /\ <<"closed", event>>[1] = "closed" /\ <<"closed", event>>[2] = event
    BY DEF GuardEvents
  <2>4. guardLog' = <<"closed", event>>
    BY <2>1, <2>2, <2>3, ConcatProperties, EmptySeq
  <2>5. \A i \in 1 .. Len(guardLog') : guardLog'[i] = "closed" => i = 1
    <3> SUFFICES ASSUME NEW i \in 1 .. Len(guardLog'), i # 1 PROVE guardLog'[i] # "closed"
      OBVIOUS
    <3>1. i = 2
      BY <2>3, <2>4
    <3> QED BY <2>3, <2>4, <3>1
  <2>6. \A i, j \in 1 .. Len(guardLog') : guardLog'[i] = "closed" /\ guardLog'[j] = "closed" => i = j
    BY <2>5
  <2>7. /\ guardFd' \in {-1, 3} /\ guardFd' # 3
        /\ guardActive' \in BOOLEAN
    <3>1. guardFd' = -1 /\ guardActive' \in BOOLEAN
      BY <2>2
    <3> QED BY <3>1
  <2>8. guardLog' \in Seq(GuardEvents)
    BY <2>3, <2>4
  <2> QED BY <2>6, <2>7, <2>8 DEF GuardInv
<1>2. CASE ~(guardActive /\ guardFd >= 0)
  <2>1. guardLog' = Append(guardLog, event) /\ UNCHANGED <<guardFd, guardActive>>
    BY <1>2 DEF CloseGuard
  <2>2. guardLog \in Seq(GuardEvents) /\ event \in GuardEvents /\ guardFd \in {-1, 3}
    BY DEF GuardInv, GuardEvents
  <2>3. /\ guardLog' \in Seq(GuardEvents) /\ Len(guardLog') = Len(guardLog) + 1
        /\ Len(guardLog) \in Nat
        /\ guardLog'[Len(guardLog) + 1] = event
        /\ \A i \in 1 .. Len(guardLog) : guardLog'[i] = guardLog[i]
    BY <2>1, <2>2, AppendProperties, LenProperties
  <2>4. \A i \in 1 .. Len(guardLog') : guardLog'[i] = "closed" =>
          i \in 1 .. Len(guardLog) /\ guardLog[i] = "closed"
    <3> SUFFICES ASSUME NEW i \in 1 .. Len(guardLog'), guardLog'[i] = "closed"
                 PROVE  i \in 1 .. Len(guardLog) /\ guardLog[i] = "closed"
      OBVIOUS
    <3>1. i # Len(guardLog) + 1
      BY <2>3
    <3>2. i \in 1 .. Len(guardLog)
      BY <2>3, <3>1
    <3> QED BY <2>3, <3>2
  <2>5. guardFd = 3 => guardActive = FALSE
    BY <1>2 DEF GuardInv
  <2>6. guardFd = 3 => guardLog' # <<>> /\ guardLog'[1] = "released"
    <3> SUFFICES ASSUME guardFd = 3 PROVE guardLog' # <<>> /\ guardLog'[1] = "released"
      OBVIOUS
    <3>1. guardLog # <<>> /\ guardLog[1] = "released"
      BY <2>5 DEF GuardInv
    <3>2. 1 \in 1 .. Len(guardLog)
      BY <2>2, <3>1, EmptyIsZero
    <3>3. guardLog' # <<>>
      BY <2>3, EmptyIsZero
    <3> QED BY <2>3, <3>1, <3>2, <3>3
  <2> QED BY <2>1, <2>2, <2>3, <2>4, <2>5, <2>6 DEF GuardInv
<1> QED BY <1>1, <1>2

CleanupInv == ManagerInv /\ GuardInv

LEMMA InitCleanup == CleanupInit => CleanupInv
<1> SUFFICES ASSUME CleanupInit PROVE CleanupInv
  OBVIOUS
<1>1. 1 .. Len(<<>>) = {} /\ <<>> \in Seq(GuardEvents)
  BY EmptyIsZero, EmptySeq
<1>2. GuardInv
  BY <1>1 DEF CleanupInit, GuardInv
<1> QED BY <1>2, InitManager DEF CleanupInv

LEMMA NextCleanup == CleanupInv /\ [CleanupNext]_cleanupVars => CleanupInv'
<1> SUFFICES ASSUME CleanupInv, [CleanupNext]_cleanupVars PROVE CleanupInv'
  OBVIOUS
<1>1. ASSUME UNCHANGED managerVars PROVE ManagerInv'
  BY <1>1 DEF CleanupInv, managerVars, ManagerInv, CleanersInv, Busy, OrderInv, AccountInv
<1>2. ASSUME UNCHANGED guardVars PROVE GuardInv'
  BY <1>2 DEF CleanupInv, guardVars, GuardInv
<1>3. ASSUME NEW t \in Cleaners, RegisterCleanup(t) PROVE CleanupInv'
  BY <1>2, <1>3, RegisterKeepsManager DEF CleanupInv, RegisterCleanup
<1>4. ASSUME NEW t \in Cleaners, SwapFunctions(t) PROVE CleanupInv'
  BY <1>2, <1>4, SwapKeepsManager DEF CleanupInv, SwapFunctions
<1>5. ASSUME NEW t \in Cleaners, RunCleanup(t) PROVE CleanupInv'
  BY <1>2, <1>5, RunKeepsManager DEF CleanupInv, RunCleanup
<1>6. ASSUME NEW t \in Cleaners,
             (\E reset \in BOOLEAN : PerformCleanup(t, reset)) \/ EndCleanup(t) \/ ClearFunctions(t)
      PROVE  CleanupInv'
  <2>1. UNCHANGED guardVars
    BY <1>6 DEF PerformCleanup, EndCleanup, ClearFunctions
  <2>2. ManagerInv'
    BY <1>6, StepKeepsManager DEF CleanupInv
  <2> QED BY <1>2, <2>1, <2>2 DEF CleanupInv
<1>7. CASE GuardCloses \/ GuardDestroyed
  <2>1. PICK event \in {"close", "destroyed"} : CloseGuard(event) /\ UNCHANGED managerVars
    BY <1>7 DEF GuardCloses, GuardDestroyed
  <2> QED BY <1>1, <2>1, CloseKeepsGuard DEF CleanupInv
<1>8. CASE GuardReleases
  <2>1. /\ guardActive' = FALSE /\ guardLog' = <<"released">> /\ guardFd' = guardFd
        /\ UNCHANGED managerVars
    BY <1>8 DEF GuardReleases
  <2>2. <<"released">> \in Seq(GuardEvents) /\ <<"released">> # <<>> /\ <<"released">>[1] = "released"
        /\ Len(<<"released">>) = 1
    BY DEF GuardEvents
  <2>3. \A i \in 1 .. Len(guardLog') : guardLog'[i] = "released"
    BY <2>1, <2>2
  <2>4. \A i, j \in 1 .. Len(guardLog') : i = j
    BY <2>1, <2>2
  <2>5. GuardInv'
    BY <2>1, <2>2, <2>3, <2>4 DEF CleanupInv, GuardInv
  <2> QED BY <1>1, <2>1, <2>5 DEF CleanupInv
<1>9. CASE UNCHANGED cleanupVars
  BY <1>1, <1>2, <1>9 DEF CleanupInv, cleanupVars
<1> QED BY <1>3, <1>4, <1>5, <1>6, <1>7, <1>8, <1>9 DEF CleanupNext

LEMMA CleanupSafe ==
  CleanupSpec => [](CleanupTypeOK /\ OneCleanerInOrder /\ CleanupAccounted /\ ClosedByGuard)
<1>1. CleanupInv => CleanupTypeOK
  <2> SUFFICES ASSUME CleanupInv PROVE CleanupTypeOK
    OBVIOUS
  <2>1. /\ cleanupsRun \in Seq(1 .. registered) /\ registered \in 0 .. MaxFunctions
        /\ MaxFunctions \in Nat /\ forgotten \subseteq 1 .. registered
    BY CleanupAssumption DEF CleanupInv, ManagerInv, OrderInv, AccountInv
  <2>2. Len(cleanupsRun) \in Nat
    BY <2>1, EmptyIsZero
  <2>3. Len(cleanupsRun) <= MaxFunctions
    <3>1. CASE Len(cleanupsRun) = 0
      BY <2>1, <3>1
    <3>2. CASE Len(cleanupsRun) # 0
      <4>1. Len(cleanupsRun) \in 1 .. Len(cleanupsRun)
        BY <2>2, <3>2
      <4>2. PICK i \in 1 .. Len(cleanupsRun) : i = Len(cleanupsRun)
        BY <4>1
      <4>3. cleanupsRun[i] >= i /\ cleanupsRun[i] \in 1 .. registered
        BY <2>1, ElementOfSeq DEF CleanupInv, ManagerInv, OrderInv
      <4> QED BY <2>1, <4>2, <4>3
    <3> QED BY <3>1, <3>2
  <2>4. forgotten \subseteq 1 .. MaxFunctions
    BY <2>1
  <2> QED BY <2>3, <2>4 DEF CleanupInv, ManagerInv, CleanersInv, GuardInv, CleanupTypeOK
<1>2. CleanupInv => OneCleanerInOrder
  <2> SUFFICES ASSUME CleanupInv PROVE OneCleanerInOrder
    OBVIOUS
  <2>1. DOMAIN cleanupsRun = 1 .. Len(cleanupsRun)
    BY LenProperties DEF CleanupInv, ManagerInv, OrderInv
  <2>2. \A i, j \in DOMAIN cleanupsRun : i < j => cleanupsRun[i] < cleanupsRun[j]
    BY <2>1 DEF CleanupInv, ManagerInv, OrderInv, Increasing
  <2> DEFINE holders == {t \in Cleaners : cleanerPc[t] \in {"swap", "run"}}
  <2>3. Cardinality(holders) = IF cleanupInProgress THEN 1 ELSE 0
    <3>1. CASE cleanupInProgress
      <4>1. PICK t \in Cleaners : Busy(t)
        BY <3>1 DEF CleanupInv, ManagerInv, CleanersInv
      <4>2. holders = {t}
        BY <4>1 DEF CleanupInv, ManagerInv, CleanersInv, Busy
      <4> QED BY <3>1, <4>2, FS_Singleton
    <3>2. CASE ~cleanupInProgress
      <4>1. holders = {}
        BY <3>2 DEF CleanupInv, ManagerInv, CleanersInv, Busy
      <4> QED BY <3>2, <4>1, FS_EmptySet
    <3> QED BY <3>1, <3>2
  <2> QED BY <2>2, <2>3 DEF OneCleanerInOrder
<1>3. CleanupInv => CleanupAccounted
  <2> SUFFICES ASSUME CleanupInv PROVE CleanupAccounted
    OBVIOUS
  <2>1. /\ cleanupsRun \in Seq(1 .. registered) /\ cleanupFunctions \in Seq(1 .. registered)
        /\ \A t \in Cleaners : cleanerBatch[t] \in Seq(1 .. registered)
        /\ forgotten \subseteq 1 .. registered
    BY DEF CleanupInv, ManagerInv, OrderInv, AccountInv
  <2>2. /\ ToSet(cleanupsRun) \subseteq 1 .. registered
        /\ ToSet(cleanupFunctions) \subseteq 1 .. registered
        /\ \A t \in Cleaners : ToSet(cleanerBatch[t]) \subseteq 1 .. registered
    BY <2>1, ToSetWithin
  <2>3. \A x \in 1 .. registered :
          \/ x \in ToSet(cleanupFunctions) \/ x \in ToSet(cleanupsRun) \/ x \in forgotten
          \/ \E t \in Cleaners : x \in ToSet(cleanerBatch[t])
    BY DEF CleanupInv, ManagerInv, AccountInv
  <2> QED BY <2>1, <2>2, <2>3 DEF CleanupAccounted
<1>4. CleanupInv => ClosedByGuard
  <2> SUFFICES ASSUME CleanupInv PROVE ClosedByGuard
    OBVIOUS
  <2>1. guardLog \in Seq(GuardEvents) /\ DOMAIN guardLog = 1 .. Len(guardLog)
    BY LenProperties DEF CleanupInv, GuardInv
  <2> DEFINE closes == {i \in DOMAIN guardLog : guardLog[i] = "closed"}
  <2>2. Cardinality(closes) <= 1
    <3>1. CASE closes = {}
      BY <3>1, FS_EmptySet
    <3>2. CASE closes # {}
      <4>1. PICK i : i \in closes
        BY <3>2
      <4>2. closes = {i}
        BY <2>1, <4>1 DEF CleanupInv, GuardInv
      <4>3. Cardinality(closes) = 1
        BY <4>2, FS_Singleton
      <4> QED BY <4>3
    <3> QED BY <3>1, <3>2
  <2>3. ASSUME guardFd = 3, Last(<<"new">> \o guardLog) = "destroyed" PROVE guardLog[1] = "released"
    <3>1. CASE guardLog = <<>>
      <4>1. Len(<<"new">>) = 1 /\ <<"new">>[1] = "new"
        OBVIOUS
      <4>2. <<"new">> \in Seq({"new"}) /\ <<>> \in Seq({"new"}) /\ Len(<<>>) = 0
        BY EmptySeq
      <4>3. <<"new">> \o guardLog = <<"new">>
        BY <3>1, <4>2, ConcatProperties
      <4>4. Last(<<"new">>) = "new"
        BY <4>1 DEF Last
      <4> QED BY <2>3, <4>3, <4>4
    <3>2. CASE guardLog # <<>>
      BY <2>3, <3>2 DEF CleanupInv, GuardInv
    <3> QED BY <3>1, <3>2
  <2> QED BY <2>2, <2>3 DEF ClosedByGuard
<1> QED BY <1>1, <1>2, <1>3, <1>4, InitCleanup, NextCleanup, PTL DEF CleanupSpec

\* Every registered clean-up function runs once and in order, waits or was
\* dropped by a reset, however many threads clean up; a SocketGuard closes once;
\* no recovery of NetworkErrorHandler or ErrorRecoveryManager follows the last
\* one too soon (ResourceCleanupManager, NetworkErrorHandler, ErrorRecoveryManager).
THEOREM ErrorsHandled == ServicesSpec => []ErrorHandlingSafe
BY EachComponentRuns, CleanupSafe, HandlerSafe, RecoverySafe, PTL DEF ErrorHandlingSafe

\* The connections of a service that runs beside the others: RTSPClient's answers
\* and RTPSocket's descriptors.
THEOREM ConnectionsHold == ServicesSpec => []ConnectionsSafe
BY EachComponentRuns, AnswersBelong, SocketsClean, PTL DEF ConnectionsSafe

\* PTPSlave's moving average, beside the other components.
THEOREM FilterHolds == ServicesSpec => []FilterSafe
BY EachComponentRuns, AverageInRange, PTL DEF FilterSafe

\* The clock side beside the other components: PTPClock's references and media
\* lock, and the slave behind PTPDInterface's lock.
THEOREM TimingHolds == ServicesSpec => []TimingConsistent
BY EachComponentRuns, MediaClockIsSafe, ReferencesExact, SlaveBehindTime, PTL DEF TimingConsistent

-----------------------------------------------------------------------------
(* LockFreePacketPool: the free list as a set                               *)

HeadTyped ==
  freeHead \in [ptr : 0 .. PoolSize, tag : Nat] /\ poolNext \in [Nodes -> 0 .. PoolSize]

\* No node of the list leads to its head, and no two to the same node.
Linked ==
  /\ \A i \in FreeNodes : poolNext[i] = freeHead.ptr => poolNext[i] = 0
  /\ \A i, j \in FreeNodes : poolNext[i] = poolNext[j] /\ poolNext[i] # 0 => i = j

LEMMA NodesAreNumbers ==
  /\ 0 \notin Nodes /\ Nodes \subseteq Nat /\ IsFiniteSet(Nodes) /\ Cardinality(Nodes) = PoolSize
  /\ \A i : i \in 0 .. PoolSize <=> i = 0 \/ i \in Nodes
  /\ PoolSize \in Nodes /\ PoolSize \in Nat
<1>1. PoolSize \in Nat \ {0}
  BY PoolAssumption
<1>2. IsFiniteSet(1 .. PoolSize) /\ Cardinality(1 .. PoolSize) = PoolSize
  BY <1>1, FS_Interval
<1> QED BY <1>1, <1>2 DEF Nodes

LEMMA ListLeast == \A S \in SUBSET Nodes : Closed(S) => FreeNodes \subseteq S
BY DEF FreeNodes

LEMMA ListClosed == HeadTyped => FreeNodes \subseteq Nodes /\ Closed(FreeNodes)
<1> SUFFICES ASSUME HeadTyped PROVE FreeNodes \subseteq Nodes /\ Closed(FreeNodes)
  OBVIOUS
<1>1. freeHead.ptr \in 0 .. PoolSize /\ \A i \in Nodes : poolNext[i] \in 0 .. PoolSize
  BY DEF HeadTyped
<1>2. freeHead.ptr \in FreeNodes \cup {0}
  BY <1>1, NodesAreNumbers DEF FreeNodes, Closed
<1>3. ASSUME NEW i \in FreeNodes PROVE poolNext[i] \in FreeNodes \cup {0}
  <2>1. poolNext[i] = 0 \/ poolNext[i] \in Nodes
    BY <1>1, NodesAreNumbers DEF FreeNodes
  <2>2. \A S \in SUBSET Nodes : Closed(S) => poolNext[i] \in S \cup {0}
    BY DEF FreeNodes, Closed
  <2> QED BY <2>1, <2>2 DEF FreeNodes
<1> QED BY <1>2, <1>3 DEF FreeNodes, Closed

\* The same after a step.
LEMMA ListAfter ==
  /\ (\A S \in SUBSET Nodes : Closed(S) => FreeNodes \subseteq S)'
  /\ (HeadTyped => FreeNodes \subseteq Nodes /\ Closed(FreeNodes))'
BY ListLeast, ListClosed, PTL

\* The head is replaced by the node after it.
LEMMA PopList ==
  ASSUME HeadTyped, HeadTyped', Linked, freeHead.ptr # 0,
         poolNext' = poolNext, freeHead'.ptr = poolNext[freeHead.ptr]
  PROVE  FreeNodes' = FreeNodes \ {freeHead.ptr} /\ freeHead.ptr \in FreeNodes /\ Linked'
<1> DEFINE top == freeHead.ptr
<1>1. FreeNodes \subseteq Nodes /\ Closed(FreeNodes) /\ FreeNodes' \subseteq Nodes /\ Closed(FreeNodes)'
  BY ListClosed, ListAfter
<1>2. top \in FreeNodes /\ poolNext[top] \in FreeNodes \cup {0}
  BY <1>1 DEF Closed
<1>3. \A i \in FreeNodes : poolNext[i] # top
  BY <1>1 DEF Linked
<1>4. FreeNodes' \subseteq FreeNodes \ {top}
  <2>1. ASSUME NEW S \in SUBSET Nodes, S = FreeNodes \ {top} PROVE FreeNodes' \subseteq S
    <3>1. Closed(S)'
      BY <1>1, <1>2, <1>3, <2>1 DEF Closed
    <3> QED BY <3>1, ListAfter
  <2> QED BY <1>1, <2>1
<1>5. FreeNodes \subseteq FreeNodes' \cup {top}
  <2>1. FreeNodes' \cup {top} \in SUBSET Nodes
    BY <1>1, <1>2
  <2>2. PICK S \in SUBSET Nodes : S = FreeNodes' \cup {top}
    BY <2>1
  <2>3. Closed(S)
    BY <1>1, <2>2 DEF Closed
  <2> QED BY <2>2, <2>3, ListLeast
<1>6. Linked'
  BY <1>2, <1>4 DEF Linked
<1> QED BY <1>2, <1>4, <1>5, <1>6

\* A node that leads to the head becomes the head.
LEMMA PushList ==
  ASSUME HeadTyped, HeadTyped', Linked, NEW node \in Nodes \ FreeNodes,
         poolNext[node] = freeHead.ptr, poolNext' = poolNext, freeHead'.ptr = node
  PROVE  FreeNodes' = FreeNodes \cup {node} /\ Linked'
<1>1. FreeNodes \subseteq Nodes /\ Closed(FreeNodes) /\ FreeNodes' \subseteq Nodes /\ Closed(FreeNodes)'
  BY ListClosed, ListAfter
<1>2. FreeNodes' \subseteq FreeNodes \cup {node}
  <2>1. FreeNodes \cup {node} \in SUBSET Nodes
    BY <1>1
  <2>2. PICK S \in SUBSET Nodes : S = FreeNodes \cup {node}
    BY <2>1
  <2>3. Closed(S)'
    BY <1>1, <2>2 DEF Closed
  <2> QED BY <2>2, <2>3, ListAfter
<1>3. node \in FreeNodes' /\ node # 0
  BY <1>1, NodesAreNumbers DEF Closed
<1>4. FreeNodes \subseteq FreeNodes'
  <2>1. ASSUME NEW S \in SUBSET Nodes, S = FreeNodes' PROVE FreeNodes \subseteq S
    <3>1. Closed(S)
      BY <1>1, <1>3, <2>1 DEF Closed
    <3> QED BY <3>1, ListLeast
  <2> QED BY <1>1, <2>1
<1>5. Linked'
  <2>1. \A i \in FreeNodes : poolNext[i] # node
    BY <1>1, <1>3 DEF Closed
  <2>2. poolNext[node] # node
    BY <1>1, <1>3 DEF Closed
  <2> QED BY <1>2, <2>1, <2>2 DEF Linked
<1> QED BY <1>2, <1>3, <1>4, <1>5

\* A node outside the list is linked to wherever the head was.
LEMMA LinkList ==
  ASSUME HeadTyped, HeadTyped', Linked, NEW node \in Nodes \ FreeNodes, NEW target,
         freeHead' = freeHead, poolNext' = [poolNext EXCEPT ![node] = target]
  PROVE  FreeNodes' = FreeNodes /\ Linked'
<1>1. FreeNodes \subseteq Nodes /\ Closed(FreeNodes) /\ FreeNodes' \subseteq Nodes /\ Closed(FreeNodes)'
  BY ListClosed, ListAfter
<1>2. \A i \in Nodes : i # node => poolNext'[i] = poolNext[i]
  BY DEF HeadTyped
<1>3. FreeNodes' \subseteq FreeNodes
  <2>1. ASSUME NEW S \in SUBSET Nodes, S = FreeNodes PROVE FreeNodes' \subseteq S
    <3>1. Closed(S)'
      BY <1>1, <1>2, <2>1 DEF Closed
    <3> QED BY <3>1, ListAfter
  <2> QED BY <1>1, <2>1
<1>4. FreeNodes \subseteq FreeNodes'
  <2>1. ASSUME NEW S \in SUBSET Nodes, S = FreeNodes' PROVE FreeNodes \subseteq S
    <3>1. Closed(S)
      BY <1>1, <1>2, <1>3, <2>1 DEF Closed
    <3> QED BY <3>1, ListLeast
  <2> QED BY <1>1, <2>1
<1>5. Linked'
  BY <1>1, <1>2, <1>3 DEF Linked
<1> QED BY <1>3, <1>4, <1>5

-----------------------------------------------------------------------------
(* LockFreePacketPool: owners, copies of the head and the count             *)

Mine(t) == poolHeld[t] \cup Owns(t)

PoolTyped ==
  /\ HeadTyped
  /\ inUseFlags \in [Nodes -> BOOLEAN] /\ availableCount \in Int
  /\ poolPc \in [PoolThreads -> PoolPcs]
  /\ oldHead \in [PoolThreads -> [ptr : 0 .. PoolSize, tag : Nat]]
  /\ newNext \in [PoolThreads -> 0 .. PoolSize] /\ poolNode \in [PoolThreads -> 0 .. PoolSize]
  /\ poolHeld \in [PoolThreads -> SUBSET Nodes]
  /\ \A t \in PoolThreads : Owns(t) \subseteq Nodes

\* Every node is on the list or has one owner, and what is handed out is in use.
OwnersInv ==
  /\ \A t, u \in PoolThreads : t # u => Mine(t) \cap Mine(u) = {}
  /\ \A t \in PoolThreads : FreeNodes \cap Mine(t) = {} /\ poolHeld[t] \cap Owns(t) = {}
  /\ \A i \in Nodes : i \in FreeNodes \/ \E t \in PoolThreads : i \in Mine(t)

FlagsInv ==
  \A t \in PoolThreads :
    /\ \A i \in poolHeld[t] : inUseFlags[i] = TRUE
    /\ poolPc[t] \in {"taken", "flag"} => inUseFlags[poolNode[t]] = TRUE

\* What a thread knows of the head it read: as long as the tag is the same the
\* head is, and so is what it leads to.
Recent(t) == /\ oldHead[t].tag <= freeHead.tag
             /\ oldHead[t].tag = freeHead.tag => oldHead[t].ptr = freeHead.ptr

KnowsHead(t) ==
  /\ poolPc[t] \in {"next", "pop", "push"} => Recent(t)
  /\ poolPc[t] \in {"next", "pop"} => oldHead[t].ptr \in Nodes
  /\ poolPc[t] = "pop" /\ oldHead[t] = freeHead => newNext[t] = poolNext[freeHead.ptr]
  /\ poolPc[t] = "push" => poolNext[poolNode[t]] = oldHead[t].ptr

HeadsInv == \A t \in PoolThreads : KnowsHead(t)

Taking  == {t \in PoolThreads : poolPc[t] \in {"mark", "taken"}}
Pushed  == {t \in PoolThreads : poolPc[t] \in {"pushed"}}
Started == {t \in PoolThreads : poolPc[t] \in {"next", "pop", "flag", "reset", "push"}}

\* The count lags behind the list by the calls that have not counted yet, and
\* each started call changes the tag once.
CountInv ==
  /\ availableCount = Cardinality(FreeNodes) + Cardinality(Taking) - Cardinality(Pushed)
  /\ freeHead.tag + Cardinality(Started) <= MaxTag + Cardinality(PoolThreads)

PoolInv == PoolTyped /\ Linked /\ OwnersInv /\ FlagsInv /\ HeadsInv /\ CountInv

LEMMA FiniteParts ==
  /\ IsFiniteSet(Taking) /\ IsFiniteSet(Pushed) /\ IsFiniteSet(Started)
  /\ IsFiniteSet(FreeNodes) /\ Cardinality(FreeNodes) \in Nat
  /\ Cardinality(Taking) \in Nat /\ Cardinality(Pushed) \in Nat /\ Cardinality(Started) \in Nat
  /\ Cardinality(PoolThreads) \in Nat /\ Cardinality(Started) <= Cardinality(PoolThreads)
  /\ Cardinality(Pushed) <= Cardinality(PoolThreads)
<1>1. IsFiniteSet(PoolThreads) /\ IsFiniteSet(Nodes)
  BY PoolAssumption, NodesAreNumbers
<1>2. Taking \in SUBSET PoolThreads /\ Pushed \in SUBSET PoolThreads /\ Started \in SUBSET PoolThreads
  BY DEF Taking, Pushed, Started
<1>3. FreeNodes \in SUBSET Nodes
  BY DEF FreeNodes
<1> QED BY <1>1, <1>2, <1>3, FS_Subset, FS_CardinalityType

LEMMA FinitePartsAfter ==
  (/\ IsFiniteSet(FreeNodes) /\ Cardinality(FreeNodes) \in Nat
   /\ Cardinality(Started) \in Nat /\ Cardinality(Started) <= Cardinality(PoolThreads))'
BY FiniteParts, PTL

\* One thread moves from one place to another.
LEMMA ThreadMoves ==
  ASSUME NEW t \in PoolThreads, NEW from \in PoolPcs, NEW to \in PoolPcs,
         poolPc \in [PoolThreads -> PoolPcs], poolPc[t] = from,
         poolPc' = [poolPc EXCEPT ![t] = to]
  PROVE  /\ poolPc' \in [PoolThreads -> PoolPcs] /\ poolPc'[t] = to
         /\ \A u \in PoolThreads : u # t => poolPc'[u] = poolPc[u]
OBVIOUS

\* The owners do not change when no node changes hands.
LEMMA SameOwners ==
  ASSUME OwnersInv, FreeNodes' = FreeNodes,
         \A t \in PoolThreads : poolHeld'[t] = poolHeld[t] /\ Owns(t)' = Owns(t)
  PROVE  OwnersInv'
BY DEF OwnersInv, Mine

LEMMA InitPool == PoolInit => PoolInv
<1> SUFFICES ASSUME PoolInit PROVE PoolInv
  OBVIOUS
<1>1. /\ freeHead = [ptr |-> PoolSize, tag |-> PoolSize] /\ poolNext = [i \in Nodes |-> i - 1]
      /\ \A t \in PoolThreads : poolPc[t] = "idle" /\ poolHeld[t] = {}
  BY DEF PoolInit
<1>2. PoolSize \in Nat \ {0} /\ MaxTag \in Nat /\ PoolSize <= MaxTag
  BY PoolAssumption
<1>3. HeadTyped
  BY <1>1, <1>2 DEF HeadTyped, Nodes
<1>4. PoolTyped
  BY <1>1, <1>2, <1>3 DEF PoolInit, PoolTyped, PoolPcs, Owns
<1>5. Linked
  BY <1>1, <1>2 DEF Linked, FreeNodes, Nodes
<1>6. FreeNodes = Nodes
  <2> SUFFICES ASSUME NEW S \in SUBSET Nodes, Closed(S), NEW i \in Nodes, i \notin S PROVE FALSE
    BY DEF FreeNodes
  <2> DEFINE outside == {j \in Nodes : j \notin S}
  <2>1. IsFiniteSet(outside) /\ i \in outside
    BY NodesAreNumbers, FS_Subset
  <2>2. \A j \in outside : j + 1 \in outside
    <3> SUFFICES ASSUME NEW j \in Nodes, j \notin S PROVE j + 1 \in Nodes /\ j + 1 \notin S
      OBVIOUS
    <3>1. j # PoolSize /\ j \in 1 .. PoolSize
      BY <1>1, <1>2 DEF Closed, Nodes
    <3>2. j + 1 \in Nodes /\ (j + 1) - 1 = j
      BY <1>2, <3>1 DEF Nodes
    <3>3. poolNext[j + 1] = j
      BY <1>1, <3>2
    <3> QED BY <3>1, <3>2, <3>3 DEF Closed
  <2>3. PoolSize - i \in Nat /\ PoolSize - (PoolSize - i) = i
    BY <1>2 DEF Nodes
  <2> DEFINE T == {k \in Nat : PoolSize - k \in outside}
  <2>4. PoolSize - i \in T
    BY <2>1, <2>3
  <2>5. PICK m \in T : \A k \in T : m <= k
    BY <2>4, LeastNumber
  <2>6. PoolSize - m \in outside /\ m \in Nat
    OBVIOUS
  <2>7. (PoolSize - m) + 1 \in outside
    BY <2>2, <2>6
  <2>8. m # 0
    BY <1>2, <2>7 DEF Nodes
  <2>9. m - 1 \in Nat /\ PoolSize - (m - 1) = (PoolSize - m) + 1
    BY <1>2, <2>6, <2>8
  <2>10. m - 1 \in T
    BY <2>7, <2>9
  <2> QED BY <2>5, <2>6, <2>10
<1>7. OwnersInv /\ FlagsInv /\ HeadsInv
  BY <1>1, <1>6 DEF OwnersInv, FlagsInv, HeadsInv, KnowsHead, Mine, Owns
<1>8. Taking = {} /\ Pushed = {} /\ Started = {}
  BY <1>1 DEF Taking, Pushed, Started
<1>9. CountInv
  <2>1. Cardinality({}) = 0 /\ Cardinality(FreeNodes) = PoolSize
    BY <1>6, FS_EmptySet, NodesAreNumbers
  <2>2. availableCount = PoolSize /\ freeHead.tag = PoolSize
    BY <1>1 DEF PoolInit
  <2>3. Cardinality(PoolThreads) \in Nat
    BY FiniteParts
  <2> QED BY <1>2, <1>8, <2>1, <2>2, <2>3 DEF CountInv
<1> QED BY <1>4, <1>5, <1>7, <1>9 DEF PoolInv

One(x, P) == IF x \in P THEN 1 ELSE 0

\* How many threads are at one of some places, after one of them moved.
LEMMA PlacesMove ==
  ASSUME NEW t \in PoolThreads, NEW P, NEW to, poolPc \in [PoolThreads -> PoolPcs],
         poolPc' = [poolPc EXCEPT ![t] = to]
  PROVE  Cardinality({u \in PoolThreads : poolPc'[u] \in P}) =
           Cardinality({u \in PoolThreads : poolPc[u] \in P}) + One(to, P) - One(poolPc[t], P)
<1> DEFINE before == {u \in PoolThreads : poolPc[u] \in P}
           after  == {u \in PoolThreads : poolPc'[u] \in P}
<1>1. IsFiniteSet(before) /\ Cardinality(before) \in Nat
  BY PoolAssumption, FS_Subset, FS_CardinalityType
<1>2. poolPc'[t] = to /\ \A u \in PoolThreads : u # t => poolPc'[u] = poolPc[u]
  OBVIOUS
<1>3. CASE to \in P /\ poolPc[t] \in P
  <2>1. after = before
    BY <1>2, <1>3
  <2> HIDE DEF after, before
  <2>2. Cardinality(after) = Cardinality(before) + One(to, P) - One(poolPc[t], P)
    BY <1>1, <1>3, <2>1 DEF One
  <2> QED BY <2>2 DEF after, before
<1>4. CASE to \notin P /\ poolPc[t] \notin P
  <2>1. after = before
    BY <1>2, <1>4
  <2> HIDE DEF after, before
  <2>2. Cardinality(after) = Cardinality(before) + One(to, P) - One(poolPc[t], P)
    BY <1>1, <1>4, <2>1 DEF One
  <2> QED BY <2>2 DEF after, before
<1>5. CASE to \in P /\ poolPc[t] \notin P
  <2>1. after = before \cup {t} /\ t \notin before
    BY <1>2, <1>5
  <2>2. Cardinality(after) = Cardinality(before) + 1
    BY <1>1, <2>1, FS_AddElement
  <2> HIDE DEF after, before
  <2>3. One(to, P) = 1 /\ One(poolPc[t], P) = 0
    BY <1>5 DEF One
  <2>4. Cardinality(after) = Cardinality(before) + One(to, P) - One(poolPc[t], P)
    BY <1>1, <2>2, <2>3
  <2> QED BY <2>4 DEF after, before
<1>6. CASE to \notin P /\ poolPc[t] \in P
  <2>1. after = before \ {t} /\ t \in before
    BY <1>2, <1>6
  <2>2. Cardinality(after) = Cardinality(before) - 1
    BY <1>1, <2>1, FS_RemoveElement
  <2> HIDE DEF after, before
  <2>3. Cardinality(after) = Cardinality(before) + One(to, P) - One(poolPc[t], P)
    BY <1>1, <1>6, <2>2 DEF One
  <2> QED BY <2>3 DEF after, before
<1> QED BY <1>3, <1>4, <1>5, <1>6

LEMMA CountsMove ==
  ASSUME NEW t \in PoolThreads, NEW to, poolPc \in [PoolThreads -> PoolPcs],
         poolPc' = [poolPc EXCEPT ![t] = to]
  PROVE  /\ Cardinality(Taking') = Cardinality(Taking) + One(to, {"mark", "taken"})
                                     - One(poolPc[t], {"mark", "taken"})
         /\ Cardinality(Pushed') = Cardinality(Pushed) + One(to, {"pushed"})
                                     - One(poolPc[t], {"pushed"})
         /\ Cardinality(Started') = Cardinality(Started)
                                     + One(to, {"next", "pop", "flag", "reset", "push"})
                                     - One(poolPc[t], {"next", "pop", "flag", "reset", "push"})
BY PlacesMove DEF Taking, Pushed, Started

\* What the other threads know of the head, after a step that leaves the head and
\* its node alone or that changes the tag.
LEMMA OthersKnow ==
  ASSUME PoolTyped, HeadsInv, NEW t \in PoolThreads, NEW u \in PoolThreads, u # t,
         poolPc'[u] = poolPc[u], oldHead'[u] = oldHead[u], newNext'[u] = newNext[u],
         poolNode'[u] = poolNode[u],
         \/ freeHead' = freeHead
         \/ freeHead'.tag = freeHead.tag + 1,
         freeHead' = freeHead /\ freeHead.ptr # 0 => poolNext'[freeHead.ptr] = poolNext[freeHead.ptr],
         poolPc[u] = "push" => poolNext'[poolNode[u]] = poolNext[poolNode[u]]
  PROVE  KnowsHead(u)'
<1>1. oldHead[u].tag \in Nat /\ freeHead.tag \in Nat
  BY DEF PoolTyped, HeadTyped
<1>2. KnowsHead(u)
  BY DEF HeadsInv
<1>3. CASE freeHead' = freeHead
  <2>1. poolPc[u] = "pop" /\ oldHead[u] = freeHead => freeHead.ptr # 0
    BY <1>2, NodesAreNumbers DEF KnowsHead
  <2> QED BY <1>2, <1>3, <2>1 DEF KnowsHead, Recent
<1>4. CASE freeHead'.tag = freeHead.tag + 1
  <2>1. Recent(u) => Recent(u)' /\ oldHead[u].tag # freeHead'.tag
    BY <1>1, <1>4 DEF Recent
  <2> QED BY <1>2, <2>1 DEF KnowsHead
<1> QED BY <1>3, <1>4

InCall == {"next", "pop", "flag", "reset", "push"}

\* The counts after a step of one thread: the list is d nodes longer, and the tag
\* is changed only by a thread that leaves its call.
LEMMA CountStep ==
  ASSUME PoolInv, NEW t \in PoolThreads, NEW to \in PoolPcs, NEW d \in {-1, 0, 1},
         poolPc' = [poolPc EXCEPT ![t] = to],
         Cardinality(FreeNodes') = Cardinality(FreeNodes) + d,
         availableCount' = availableCount + d
                             + One(to, {"mark", "taken"}) - One(poolPc[t], {"mark", "taken"})
                             - One(to, {"pushed"}) + One(poolPc[t], {"pushed"}),
         \/ freeHead'.tag = freeHead.tag /\ (to \notin InCall \/ poolPc[t] \in InCall \/ freeHead.tag < MaxTag)
         \/ freeHead'.tag = freeHead.tag + 1 /\ to \notin InCall /\ poolPc[t] \in InCall
  PROVE  CountInv'
<1>1. /\ poolPc \in [PoolThreads -> PoolPcs] /\ availableCount \in Int /\ MaxTag \in Nat
      /\ freeHead.tag \in Nat
  BY PoolAssumption DEF PoolInv, PoolTyped, HeadTyped
<1>2. /\ Cardinality(FreeNodes) \in Nat /\ Cardinality(Taking) \in Nat
      /\ Cardinality(Pushed) \in Nat /\ Cardinality(Started) \in Nat
      /\ Cardinality(PoolThreads) \in Nat
      /\ Cardinality(Started') \in Nat /\ Cardinality(Started') <= Cardinality(PoolThreads)
  BY FiniteParts, FinitePartsAfter
<1>3. /\ Cardinality(Taking') = Cardinality(Taking) + One(to, {"mark", "taken"})
                                  - One(poolPc[t], {"mark", "taken"})
      /\ Cardinality(Pushed') = Cardinality(Pushed) + One(to, {"pushed"}) - One(poolPc[t], {"pushed"})
      /\ Cardinality(Started') = Cardinality(Started) + One(to, InCall) - One(poolPc[t], InCall)
  BY <1>1, CountsMove DEF InCall
<1>4. \A x, P : One(x, P) \in {0, 1} /\ (x \in P <=> One(x, P) = 1)
  BY DEF One
<1>5. availableCount' = Cardinality(FreeNodes') + Cardinality(Taking') - Cardinality(Pushed')
  <2>1. availableCount = Cardinality(FreeNodes) + Cardinality(Taking) - Cardinality(Pushed)
    BY DEF PoolInv, CountInv
  <2> QED BY <1>2, <1>3, <1>4, <2>1
<1>6. freeHead'.tag + Cardinality(Started') <= MaxTag + Cardinality(PoolThreads)
  <2>1. freeHead.tag + Cardinality(Started) <= MaxTag + Cardinality(PoolThreads)
    BY DEF PoolInv, CountInv
  <2>2. CASE freeHead'.tag = freeHead.tag /\ freeHead.tag < MaxTag
    BY <1>1, <1>2, <2>2
  <2>3. CASE freeHead'.tag = freeHead.tag /\ One(to, InCall) <= One(poolPc[t], InCall)
    BY <1>1, <1>2, <1>3, <1>4, <2>1, <2>3
  <2>4. CASE freeHead'.tag = freeHead.tag + 1 /\ One(to, InCall) = 0 /\ One(poolPc[t], InCall) = 1
    BY <1>1, <1>2, <1>3, <2>1, <2>4
  <2>5. One(to, InCall) \in {0, 1} /\ (to \in InCall <=> One(to, InCall) = 1)
        /\ One(poolPc[t], InCall) \in {0, 1} /\ (poolPc[t] \in InCall <=> One(poolPc[t], InCall) = 1)
    BY <1>4
  <2>6. (to \notin InCall \/ poolPc[t] \in InCall)
        => One(to, InCall) <= One(poolPc[t], InCall)
    BY <2>5
  <2> QED BY <2>2, <2>3, <2>4, <2>5, <2>6
<1> QED BY <1>5, <1>6 DEF CountInv

\* Steps of acquire().
LEMMA LoadKeepsPool ==
  ASSUME PoolInv, NEW t \in PoolThreads, AcquireLoad(t)
  PROVE  PoolInv'
<1>1. /\ poolPc[t] = "idle" /\ freeHead.tag < MaxTag
      /\ oldHead' = [oldHead EXCEPT ![t] = freeHead]
      /\ UNCHANGED <<freeHead, poolNext, inUseFlags, availableCount, newNext, poolNode, poolHeld>>
  BY DEF AcquireLoad
<1>2. PICK to \in {"idle", "next"} :
        poolPc' = [poolPc EXCEPT ![t] = to] /\ (to = "next" => freeHead.ptr # 0)
  BY DEF AcquireLoad
<1>3. /\ poolPc \in [PoolThreads -> PoolPcs] /\ freeHead \in [ptr : 0 .. PoolSize, tag : Nat]
      /\ oldHead \in [PoolThreads -> [ptr : 0 .. PoolSize, tag : Nat]]
      /\ availableCount \in Int /\ MaxTag \in Nat
  BY PoolAssumption DEF PoolInv, PoolTyped, HeadTyped
<1>4. /\ poolPc' \in [PoolThreads -> PoolPcs] /\ poolPc'[t] = to /\ oldHead'[t] = freeHead
      /\ oldHead' \in [PoolThreads -> [ptr : 0 .. PoolSize, tag : Nat]]
      /\ \A u \in PoolThreads : u # t => poolPc'[u] = poolPc[u] /\ oldHead'[u] = oldHead[u]
  BY <1>1, <1>2, <1>3 DEF PoolPcs
<1>5. FreeNodes' = FreeNodes /\ Linked' /\ HeadTyped'
  BY <1>1 DEF PoolInv, PoolTyped, HeadTyped, FreeNodes, Closed, Linked
<1>6. \A u \in PoolThreads : Owns(u)' = Owns(u) /\ poolHeld'[u] = poolHeld[u]
  BY <1>1, <1>4 DEF Owns
<1>7. OwnersInv'
  BY <1>5, <1>6, SameOwners DEF PoolInv
<1>8. FlagsInv'
  BY <1>1, <1>4 DEF PoolInv, FlagsInv
<1>9. PoolTyped'
  BY <1>1, <1>4, <1>5, <1>6 DEF PoolInv, PoolTyped
<1>10. HeadsInv'
  <2>1. ASSUME NEW u \in PoolThreads, u # t PROVE KnowsHead(u)'
    BY <1>1, <1>4, <2>1, OthersKnow DEF PoolInv
  <2>2. KnowsHead(t)'
    BY <1>1, <1>2, <1>3, <1>4, NodesAreNumbers DEF KnowsHead, Recent
  <2> QED BY <2>1, <2>2 DEF HeadsInv
<1>11. CountInv'
  <2>1. One(to, {"mark", "taken"}) = 0 /\ One(to, {"pushed"}) = 0
        /\ One(poolPc[t], {"mark", "taken"}) = 0 /\ One(poolPc[t], {"pushed"}) = 0
    BY <1>1, <1>2 DEF One
  <2>2. Cardinality(FreeNodes') = Cardinality(FreeNodes) + 0 /\ to \in PoolPcs
    BY <1>2, <1>5, FiniteParts DEF PoolPcs
  <2>3. availableCount' = availableCount + 0
                            + One(to, {"mark", "taken"}) - One(poolPc[t], {"mark", "taken"})
                            - One(to, {"pushed"}) + One(poolPc[t], {"pushed"})
    BY <1>1, <1>3, <2>1
  <2>4. freeHead'.tag = freeHead.tag /\ freeHead.tag < MaxTag
    BY <1>1
  <2>5. 0 \in {-1, 0, 1}
    OBVIOUS
  <2> QED BY <1>2, <2>2, <2>3, <2>4, <2>5, CountStep
<1> QED BY <1>5, <1>7, <1>8, <1>9, <1>10, <1>11 DEF PoolInv

\* A step that the count and the list do not see.
LEMMA CountQuiet ==
  ASSUME PoolInv, NEW t \in PoolThreads, NEW to \in PoolPcs,
         poolPc' = [poolPc EXCEPT ![t] = to], FreeNodes' = FreeNodes,
         availableCount' = availableCount, freeHead' = freeHead,
         to \in {"mark", "taken"} <=> poolPc[t] \in {"mark", "taken"},
         to # "pushed" /\ poolPc[t] # "pushed",
         to \notin InCall \/ poolPc[t] \in InCall \/ freeHead.tag < MaxTag
  PROVE  CountInv'
<1>1. /\ One(to, {"mark", "taken"}) = One(poolPc[t], {"mark", "taken"})
      /\ One(to, {"mark", "taken"}) \in {0, 1}
      /\ One(to, {"pushed"}) = 0 /\ One(poolPc[t], {"pushed"}) = 0
  BY DEF One
<1>2. availableCount \in Int /\ Cardinality(FreeNodes) \in Nat
  BY FiniteParts DEF PoolInv, PoolTyped
<1>3. availableCount' = availableCount + 0
                          + One(to, {"mark", "taken"}) - One(poolPc[t], {"mark", "taken"})
                          - One(to, {"pushed"}) + One(poolPc[t], {"pushed"})
  BY <1>1, <1>2
<1>4. Cardinality(FreeNodes') = Cardinality(FreeNodes) + 0 /\ 0 \in {-1, 0, 1}
  BY <1>2
<1>5. freeHead'.tag = freeHead.tag
  OBVIOUS
<1> QED BY <1>3, <1>4, <1>5, CountStep

\* A step that leaves the list alone.
LEMMA ListQuiet ==
  ASSUME PoolInv, freeHead' = freeHead, poolNext' = poolNext
  PROVE  FreeNodes' = FreeNodes /\ Linked' /\ HeadTyped'
BY DEF PoolInv, PoolTyped, HeadTyped, FreeNodes, Closed, Linked

LEMMA ReadNextKeepsPool ==
  ASSUME PoolInv, NEW t \in PoolThreads, AcquireNext(t)
  PROVE  PoolInv'
<1>1. /\ poolPc[t] = "next" /\ poolPc' = [poolPc EXCEPT ![t] = "pop"]
      /\ newNext' = [newNext EXCEPT ![t] = poolNext[oldHead[t].ptr]]
      /\ UNCHANGED <<freeHead, poolNext, inUseFlags, availableCount, oldHead, poolNode, poolHeld>>
  BY DEF AcquireNext, At
<1>2. /\ poolPc \in [PoolThreads -> PoolPcs] /\ newNext \in [PoolThreads -> 0 .. PoolSize]
      /\ poolNext \in [Nodes -> 0 .. PoolSize] /\ oldHead[t].ptr \in Nodes
      /\ Recent(t)
  BY <1>1 DEF PoolInv, PoolTyped, HeadTyped, HeadsInv, KnowsHead
<1>3. /\ poolPc' \in [PoolThreads -> PoolPcs] /\ poolPc'[t] = "pop"
      /\ newNext' \in [PoolThreads -> 0 .. PoolSize] /\ newNext'[t] = poolNext[oldHead[t].ptr]
      /\ \A u \in PoolThreads : u # t => poolPc'[u] = poolPc[u] /\ newNext'[u] = newNext[u]
  BY <1>1, <1>2 DEF PoolPcs
<1>4. FreeNodes' = FreeNodes /\ Linked' /\ HeadTyped'
  BY <1>1, ListQuiet
<1>5. \A u \in PoolThreads : Owns(u)' = Owns(u) /\ poolHeld'[u] = poolHeld[u]
  BY <1>1, <1>3 DEF Owns
<1>6. OwnersInv'
  BY <1>4, <1>5, SameOwners DEF PoolInv
<1>7. FlagsInv'
  BY <1>1, <1>3 DEF PoolInv, FlagsInv
<1>8. PoolTyped'
  BY <1>1, <1>3, <1>4, <1>5 DEF PoolInv, PoolTyped
<1>9. HeadsInv'
  <2>1. ASSUME NEW u \in PoolThreads, u # t PROVE KnowsHead(u)'
    BY <1>1, <1>3, <2>1, OthersKnow DEF PoolInv
  <2>2. KnowsHead(t)'
    BY <1>1, <1>2, <1>3 DEF KnowsHead, Recent
  <2> QED BY <2>1, <2>2 DEF HeadsInv
<1>10. CountInv'
  <2>1. "pop" \in PoolPcs /\ "pop" \notin {"mark", "taken"} /\ poolPc[t] \notin {"mark", "taken"}
        /\ poolPc[t] \in InCall
    BY <1>1 DEF PoolPcs, InCall
  <2> QED BY <1>1, <1>4, <2>1, CountQuiet
<1> QED BY <1>4, <1>6, <1>7, <1>8, <1>9, <1>10 DEF PoolInv

\* The exchange that takes the head, or fails.
LEMMA PopKeepsPool ==
  ASSUME PoolInv, NEW t \in PoolThreads, AcquireCas(t)
  PROVE  PoolInv'
<1>1. /\ poolPc[t] = "pop"
      /\ UNCHANGED <<poolNext, inUseFlags, availableCount, newNext, poolHeld>>
  BY DEF AcquireCas
<1>2. /\ poolPc \in [PoolThreads -> PoolPcs] /\ freeHead \in [ptr : 0 .. PoolSize, tag : Nat]
      /\ oldHead \in [PoolThreads -> [ptr : 0 .. PoolSize, tag : Nat]]
      /\ poolNode \in [PoolThreads -> 0 .. PoolSize] /\ newNext[t] \in 0 .. PoolSize
      /\ availableCount \in Int /\ HeadTyped
  BY DEF PoolInv, PoolTyped, HeadTyped
<1>3. CASE /\ freeHead = oldHead[t]
           /\ freeHead' = Tagged(newNext[t], oldHead[t].tag)
           /\ poolNode' = [poolNode EXCEPT ![t] = oldHead[t].ptr]
           /\ poolPc' = [poolPc EXCEPT ![t] = "mark"]
           /\ UNCHANGED oldHead
  <2> DEFINE top == freeHead.ptr
  <2>1. top \in Nodes /\ newNext[t] = poolNext[top] /\ top # 0 /\ freeHead.tag \in Nat
    BY <1>1, <1>2, <1>3, NodesAreNumbers DEF PoolInv, HeadsInv, KnowsHead
  <2>2. freeHead'.ptr = poolNext[top] /\ freeHead'.tag = freeHead.tag + 1 /\ HeadTyped'
    BY <1>1, <1>2, <1>3, <2>1 DEF Tagged, HeadTyped
  <2>3. FreeNodes' = FreeNodes \ {top} /\ top \in FreeNodes /\ Linked'
    BY <1>1, <1>2, <2>1, <2>2, PopList DEF PoolInv
  <2>4. /\ poolPc' \in [PoolThreads -> PoolPcs] /\ poolPc'[t] = "mark"
        /\ poolNode' \in [PoolThreads -> 0 .. PoolSize] /\ poolNode'[t] = top
        /\ \A u \in PoolThreads : u # t => poolPc'[u] = poolPc[u] /\ poolNode'[u] = poolNode[u]
    BY <1>2, <1>3 DEF PoolPcs
  <2>5. Owns(t) = {} /\ Owns(t)' = {top} /\ \A u \in PoolThreads : u # t => Owns(u)' = Owns(u)
    BY <1>1, <2>4 DEF Owns
  <2> HIDE DEF top
  <2>6. OwnersInv'
    <3>1. \A u \in PoolThreads : u # t => Mine(u)' = Mine(u)
      BY <1>1, <2>5 DEF Mine
    <3>2. Mine(t)' = Mine(t) \cup {top} /\ poolHeld'[t] = poolHeld[t]
      BY <1>1, <2>5 DEF Mine
    <3>3. \A u \in PoolThreads : top \notin Mine(u) /\ top \notin poolHeld[u]
      BY <2>3 DEF PoolInv, OwnersInv, Mine
    <3>4. \A u, v \in PoolThreads : u # v => Mine(u)' \cap Mine(v)' = {}
      BY <3>1, <3>2, <3>3 DEF PoolInv, OwnersInv
    <3>5. \A u \in PoolThreads : FreeNodes' \cap Mine(u)' = {} /\ poolHeld'[u] \cap Owns(u)' = {}
      BY <1>1, <2>3, <2>5, <3>1, <3>2, <3>3 DEF PoolInv, OwnersInv
    <3>6. \A i \in Nodes : i \in FreeNodes' \/ \E u \in PoolThreads : i \in Mine(u)'
      BY <2>3, <3>1, <3>2 DEF PoolInv, OwnersInv
    <3> QED BY <3>4, <3>5, <3>6 DEF OwnersInv
  <2>7. FlagsInv'
    BY <1>1, <2>4 DEF PoolInv, FlagsInv
  <2>8. PoolTyped'
    BY <1>1, <1>3, <2>1, <2>2, <2>4, <2>5 DEF PoolInv, PoolTyped
  <2>9. HeadsInv'
    <3>1. ASSUME NEW u \in PoolThreads, u # t PROVE KnowsHead(u)'
      <4>1. freeHead' # freeHead
        BY <2>1, <2>2
      <4> QED BY <1>1, <1>3, <2>2, <2>4, <3>1, <4>1, OthersKnow DEF PoolInv
    <3>2. KnowsHead(t)'
      BY <2>4 DEF KnowsHead
    <3> QED BY <3>1, <3>2 DEF HeadsInv
  <2>10. CountInv'
    <3>1. One("mark", {"mark", "taken"}) = 1 /\ One("mark", {"pushed"}) = 0
          /\ One("pop", {"mark", "taken"}) = 0 /\ One("pop", {"pushed"}) = 0
      BY DEF One
    <3>2. Cardinality(FreeNodes') = Cardinality(FreeNodes) + (-1)
      BY <2>3, FiniteParts, FS_RemoveElement
    <3>3. "mark" \in PoolPcs /\ "mark" \notin InCall /\ poolPc[t] \in InCall
      BY <1>1 DEF PoolPcs, InCall
    <3>4. availableCount' = availableCount + (-1)
                              + One("mark", {"mark", "taken"}) - One(poolPc[t], {"mark", "taken"})
                              - One("mark", {"pushed"}) + One(poolPc[t], {"pushed"})
      BY <1>1, <1>2, <3>1
    <3>5. -1 \in {-1, 0, 1}
      OBVIOUS
    <3> QED BY <1>3, <2>2, <3>2, <3>3, <3>4, <3>5, CountStep
  <2> QED BY <2>3, <2>6, <2>7, <2>8, <2>9, <2>10 DEF PoolInv
<1>4. CASE /\ oldHead' = [oldHead EXCEPT ![t] = freeHead]
           /\ poolPc' = [poolPc EXCEPT ![t] = IF freeHead.ptr = 0 THEN "idle" ELSE "next"]
           /\ UNCHANGED <<freeHead, poolNode>>
  <2>1. PICK to \in {"idle", "next"} :
          poolPc' = [poolPc EXCEPT ![t] = to] /\ (to = "next" => freeHead.ptr # 0)
    BY <1>4
  <2>2. /\ poolPc' \in [PoolThreads -> PoolPcs] /\ poolPc'[t] = to /\ oldHead'[t] = freeHead
        /\ oldHead' \in [PoolThreads -> [ptr : 0 .. PoolSize, tag : Nat]]
        /\ \A u \in PoolThreads : u # t => poolPc'[u] = poolPc[u] /\ oldHead'[u] = oldHead[u]
    BY <1>2, <1>4, <2>1 DEF PoolPcs
  <2>3. FreeNodes' = FreeNodes /\ Linked' /\ HeadTyped'
    BY <1>1, <1>4, ListQuiet
  <2>4. \A u \in PoolThreads : Owns(u)' = Owns(u) /\ poolHeld'[u] = poolHeld[u]
    BY <1>1, <1>4, <2>2 DEF Owns
  <2>5. OwnersInv'
    BY <2>3, <2>4, SameOwners DEF PoolInv
  <2>6. FlagsInv'
    BY <1>1, <1>4, <2>2 DEF PoolInv, FlagsInv
  <2>7. PoolTyped'
    BY <1>1, <1>4, <2>2, <2>3, <2>4 DEF PoolInv, PoolTyped
  <2>8. HeadsInv'
    <3>1. ASSUME NEW u \in PoolThreads, u # t PROVE KnowsHead(u)'
      BY <1>1, <1>4, <2>2, <3>1, OthersKnow DEF PoolInv
    <3>2. KnowsHead(t)'
      BY <1>2, <1>4, <2>1, <2>2, NodesAreNumbers DEF KnowsHead, Recent
    <3> QED BY <3>1, <3>2 DEF HeadsInv
  <2>9. CountInv'
    <3>1. to \in PoolPcs /\ to \notin {"mark", "taken"} /\ poolPc[t] \notin {"mark", "taken"}
          /\ poolPc[t] \in InCall /\ to # "pushed" /\ poolPc[t] # "pushed"
      BY <1>1, <2>1 DEF PoolPcs, InCall
    <3> QED BY <1>1, <1>4, <2>1, <2>3, <3>1, CountQuiet
  <2> QED BY <2>3, <2>5, <2>6, <2>7, <2>8, <2>9 DEF PoolInv
<1> QED BY <1>3, <1>4 DEF AcquireCas

\* setting the flag of the node taken, and handing it out.
LEMMA MarkKeepsPool ==
  ASSUME PoolInv, NEW t \in PoolThreads, AcquireMark(t)
  PROVE  PoolInv'
<1>1. /\ poolPc[t] = "mark" /\ poolPc' = [poolPc EXCEPT ![t] = "taken"]
      /\ inUseFlags' = [inUseFlags EXCEPT ![poolNode[t]] = TRUE]
      /\ UNCHANGED <<freeHead, poolNext, availableCount, oldHead, newNext, poolNode, poolHeld>>
  BY DEF AcquireMark, At
<1>2. /\ poolPc \in [PoolThreads -> PoolPcs] /\ inUseFlags \in [Nodes -> BOOLEAN]
      /\ poolNode[t] \in Nodes /\ poolHeld \in [PoolThreads -> SUBSET Nodes]
  BY <1>1 DEF PoolInv, PoolTyped, Owns
<1>3. /\ poolPc' \in [PoolThreads -> PoolPcs] /\ poolPc'[t] = "taken"
      /\ \A u \in PoolThreads : u # t => poolPc'[u] = poolPc[u]
      /\ inUseFlags' \in [Nodes -> BOOLEAN] /\ inUseFlags'[poolNode[t]] = TRUE
      /\ \A i \in Nodes : inUseFlags[i] = TRUE => inUseFlags'[i] = TRUE
  BY <1>1, <1>2 DEF PoolPcs
<1>4. FreeNodes' = FreeNodes /\ Linked' /\ HeadTyped'
  BY <1>1, ListQuiet
<1>5. \A u \in PoolThreads : Owns(u)' = Owns(u) /\ poolHeld'[u] = poolHeld[u]
  BY <1>1, <1>3 DEF Owns
<1>6. OwnersInv'
  BY <1>4, <1>5, SameOwners DEF PoolInv
<1>7. FlagsInv'
  <2> SUFFICES ASSUME NEW u \in PoolThreads
               PROVE  /\ \A i \in poolHeld[u] : inUseFlags'[i] = TRUE
                      /\ poolPc'[u] \in {"taken", "flag"} => inUseFlags'[poolNode[u]] = TRUE
    BY <1>1 DEF FlagsInv
  <2>1. \A i \in poolHeld[u] : i \in Nodes /\ inUseFlags[i] = TRUE
    BY <1>2 DEF PoolInv, FlagsInv
  <2>2. ASSUME u # t, poolPc[u] \in {"taken", "flag"} PROVE inUseFlags'[poolNode[u]] = TRUE
    <3>1. poolNode[u] \in Nodes /\ inUseFlags[poolNode[u]] = TRUE
      BY <2>2 DEF PoolInv, PoolTyped, Owns, FlagsInv
    <3> QED BY <1>3, <3>1
  <2> QED BY <1>3, <2>1, <2>2
<1>8. PoolTyped'
  BY <1>1, <1>3, <1>4, <1>5 DEF PoolInv, PoolTyped
<1>9. HeadsInv'
  <2>1. ASSUME NEW u \in PoolThreads, u # t PROVE KnowsHead(u)'
    BY <1>1, <1>3, <2>1, OthersKnow DEF PoolInv
  <2>2. KnowsHead(t)'
    BY <1>3 DEF KnowsHead
  <2> QED BY <2>1, <2>2 DEF HeadsInv
<1>10. CountInv'
  <2>1. "taken" \in PoolPcs /\ poolPc[t] \in {"mark", "taken"} /\ "taken" \notin InCall
    BY <1>1 DEF PoolPcs, InCall
  <2> QED BY <1>1, <1>4, <2>1, CountQuiet
<1> QED BY <1>4, <1>6, <1>7, <1>8, <1>9, <1>10 DEF PoolInv

LEMMA ReturnKeepsPool ==
  ASSUME PoolInv, NEW t \in PoolThreads, AcquireReturn(t)
  PROVE  PoolInv'
<1>1. /\ poolPc[t] = "taken" /\ poolPc' = [poolPc EXCEPT ![t] = "idle"]
      /\ availableCount' = availableCount - 1
      /\ poolHeld' = [poolHeld EXCEPT ![t] = poolHeld[t] \cup {poolNode[t]}]
      /\ UNCHANGED <<freeHead, poolNext, inUseFlags, oldHead, newNext, poolNode>>
  BY DEF AcquireReturn, At
<1>2. /\ poolPc \in [PoolThreads -> PoolPcs] /\ poolHeld \in [PoolThreads -> SUBSET Nodes]
      /\ poolNode[t] \in Nodes /\ availableCount \in Int /\ inUseFlags[poolNode[t]] = TRUE
  BY <1>1 DEF PoolInv, PoolTyped, Owns, FlagsInv
<1>3. /\ poolPc' \in [PoolThreads -> PoolPcs] /\ poolPc'[t] = "idle"
      /\ poolHeld' \in [PoolThreads -> SUBSET Nodes] /\ poolHeld'[t] = poolHeld[t] \cup {poolNode[t]}
      /\ \A u \in PoolThreads : u # t => poolPc'[u] = poolPc[u] /\ poolHeld'[u] = poolHeld[u]
  BY <1>1, <1>2 DEF PoolPcs
<1>4. FreeNodes' = FreeNodes /\ Linked' /\ HeadTyped'
  BY <1>1, ListQuiet
<1>5. /\ Owns(t) = {poolNode[t]} /\ Owns(t)' = {}
      /\ \A u \in PoolThreads : u # t => Owns(u)' = Owns(u)
  BY <1>1, <1>3 DEF Owns
<1>6. OwnersInv'
  <2>1. \A u \in PoolThreads : Mine(u)' = Mine(u)
    BY <1>3, <1>5 DEF Mine
  <2>2. \A u \in PoolThreads : poolHeld'[u] \cap Owns(u)' = {}
    BY <1>3, <1>5 DEF PoolInv, OwnersInv
  <2> QED BY <1>4, <2>1, <2>2 DEF PoolInv, OwnersInv
<1>7. FlagsInv'
  BY <1>1, <1>2, <1>3 DEF PoolInv, FlagsInv
<1>8. PoolTyped'
  BY <1>1, <1>2, <1>3, <1>4, <1>5 DEF PoolInv, PoolTyped
<1>9. HeadsInv'
  <2>1. ASSUME NEW u \in PoolThreads, u # t PROVE KnowsHead(u)'
    BY <1>1, <1>3, <2>1, OthersKnow DEF PoolInv
  <2>2. KnowsHead(t)'
    BY <1>3 DEF KnowsHead
  <2> QED BY <2>1, <2>2 DEF HeadsInv
<1>10. CountInv'
  <2>1. One("idle", {"mark", "taken"}) = 0 /\ One("idle", {"pushed"}) = 0
        /\ One(poolPc[t], {"mark", "taken"}) = 1 /\ One(poolPc[t], {"pushed"}) = 0
    BY <1>1 DEF One
  <2>2. "idle" \in PoolPcs /\ "idle" \notin InCall /\ 0 \in {-1, 0, 1} /\ freeHead'.tag = freeHead.tag
    BY <1>1 DEF PoolPcs, InCall
  <2>3. Cardinality(FreeNodes') = Cardinality(FreeNodes) + 0
    BY <1>4, FiniteParts
  <2>4. availableCount' = availableCount + 0
                            + One("idle", {"mark", "taken"}) - One(poolPc[t], {"mark", "taken"})
                            - One("idle", {"pushed"}) + One(poolPc[t], {"pushed"})
    BY <1>1, <1>2, <2>1
  <2> QED BY <1>1, <2>2, <2>3, <2>4, CountStep
<1> QED BY <1>4, <1>6, <1>7, <1>8, <1>9, <1>10 DEF PoolInv

\* Steps of release(), of packets that are released once.
LEMMA CallKeepsPool ==
  ASSUME PoolInv, DoubleFree = FALSE, NEW t \in PoolThreads, NEW i \in Nodes, ReleaseCall(t, i)
  PROVE  PoolInv'
<1>1. /\ poolPc[t] = "idle" /\ poolPc' = [poolPc EXCEPT ![t] = "flag"] /\ freeHead.tag < MaxTag
      /\ poolNode' = [poolNode EXCEPT ![t] = i]
      /\ UNCHANGED <<freeHead, poolNext, inUseFlags, availableCount, oldHead, newNext>>
  BY DEF ReleaseCall, At
<1>2. PICK w \in PoolThreads : i \in poolHeld[w] /\ poolHeld' = [poolHeld EXCEPT ![w] = poolHeld[w] \ {i}]
  BY DEF ReleaseCall
<1>3. /\ poolPc \in [PoolThreads -> PoolPcs] /\ poolHeld \in [PoolThreads -> SUBSET Nodes]
      /\ poolNode \in [PoolThreads -> 0 .. PoolSize] /\ inUseFlags[i] = TRUE
  BY <1>2 DEF PoolInv, PoolTyped, FlagsInv
<1>4. /\ poolPc' \in [PoolThreads -> PoolPcs] /\ poolPc'[t] = "flag"
      /\ poolHeld' \in [PoolThreads -> SUBSET Nodes] /\ poolHeld'[w] = poolHeld[w] \ {i}
      /\ poolNode'[t] = i /\ poolNode' \in [PoolThreads -> 0 .. PoolSize]
      /\ \A u \in PoolThreads : u # t => poolPc'[u] = poolPc[u] /\ poolNode'[u] = poolNode[u]
      /\ \A u \in PoolThreads : u # w => poolHeld'[u] = poolHeld[u]
      /\ \A u \in PoolThreads : poolHeld'[u] \subseteq poolHeld[u]
  BY <1>1, <1>2, <1>3, NodesAreNumbers DEF PoolPcs
<1>5. FreeNodes' = FreeNodes /\ Linked' /\ HeadTyped'
  BY <1>1, ListQuiet
<1>6. /\ Owns(t) = {} /\ Owns(t)' = {i}
      /\ \A u \in PoolThreads : u # t => Owns(u)' = Owns(u)
  BY <1>1, <1>4 DEF Owns
<1>7. OwnersInv'
  <2>1. i \in Mine(w) /\ i \notin Owns(w) /\ i \notin FreeNodes
        /\ \A u \in PoolThreads : u # w => i \notin Mine(u)
    BY <1>2 DEF PoolInv, OwnersInv, Mine
  <2>2. \A u \in PoolThreads : i \notin poolHeld'[u]
    BY <1>4, <2>1 DEF Mine
  <2>3. \A u \in PoolThreads : u # t => Mine(u)' = Mine(u) \ {i}
    <3> SUFFICES ASSUME NEW u \in PoolThreads, u # t PROVE Mine(u)' = Mine(u) \ {i}
      OBVIOUS
    <3>1. CASE u = w
      BY <1>4, <1>6, <2>1, <3>1 DEF Mine
    <3>2. CASE u # w
      BY <1>4, <1>6, <2>1, <3>2 DEF Mine
    <3> QED BY <3>1, <3>2
  <2>4. Mine(t)' = Mine(t) \cup {i}
    <3>1. CASE t = w
      BY <1>2, <1>4, <1>6, <3>1 DEF Mine
    <3>2. CASE t # w
      BY <1>4, <1>6, <3>2 DEF Mine
    <3> QED BY <3>1, <3>2
  <2>5. \A u, v \in PoolThreads : u # v => Mine(u)' \cap Mine(v)' = {}
    BY <2>3, <2>4 DEF PoolInv, OwnersInv
  <2>6. \A u \in PoolThreads : FreeNodes' \cap Mine(u)' = {}
    BY <1>5, <2>1, <2>3, <2>4 DEF PoolInv, OwnersInv
  <2>7. \A u \in PoolThreads : poolHeld'[u] \cap Owns(u)' = {}
    <3> SUFFICES ASSUME NEW u \in PoolThreads PROVE poolHeld'[u] \cap Owns(u)' = {}
      OBVIOUS
    <3>1. poolHeld[u] \cap Owns(u) = {}
      BY DEF PoolInv, OwnersInv
    <3>2. Owns(u)' = Owns(u) \/ Owns(u)' = {i}
      BY <1>6
    <3> QED BY <1>4, <2>2, <3>1, <3>2
  <2>8. \A j \in Nodes : j \in FreeNodes' \/ \E u \in PoolThreads : j \in Mine(u)'
    <3> SUFFICES ASSUME NEW j \in Nodes, j \notin FreeNodes' PROVE \E u \in PoolThreads : j \in Mine(u)'
      OBVIOUS
    <3>1. PICK u \in PoolThreads : j \in Mine(u)
      BY <1>5 DEF PoolInv, OwnersInv
    <3>2. CASE j = i
      BY <2>4, <3>2
    <3>3. CASE j # i
      BY <2>3, <2>4, <3>1, <3>3
    <3> QED BY <3>2, <3>3
  <2> QED BY <2>5, <2>6, <2>7, <2>8 DEF OwnersInv
<1>8. FlagsInv'
  BY <1>1, <1>3, <1>4 DEF PoolInv, FlagsInv
<1>9. PoolTyped'
  BY <1>1, <1>4, <1>5, <1>6 DEF PoolInv, PoolTyped
<1>10. HeadsInv'
  <2>1. ASSUME NEW u \in PoolThreads, u # t PROVE KnowsHead(u)'
    BY <1>1, <1>4, <2>1, OthersKnow DEF PoolInv
  <2>2. KnowsHead(t)'
    BY <1>4 DEF KnowsHead
  <2> QED BY <2>1, <2>2 DEF HeadsInv
<1>11. CountInv'
  <2>1. "flag" \in PoolPcs /\ "flag" \notin {"mark", "taken"} /\ poolPc[t] \notin {"mark", "taken"}
        /\ poolPc[t] # "pushed" /\ "flag" # "pushed"
    BY <1>1 DEF PoolPcs
  <2> QED BY <1>1, <1>5, <2>1, CountQuiet
<1> QED BY <1>5, <1>7, <1>8, <1>9, <1>10, <1>11 DEF PoolInv

LEMMA FlagKeepsPool ==
  ASSUME PoolInv, NEW t \in PoolThreads, ReleaseFlag(t)
  PROVE  PoolInv'
<1>1. /\ poolPc[t] = "flag"
      /\ inUseFlags' = [inUseFlags EXCEPT ![poolNode[t]] = FALSE]
      /\ UNCHANGED <<freeHead, poolNext, availableCount, oldHead, newNext, poolNode, poolHeld>>
  BY DEF ReleaseFlag
<1>2. /\ poolPc \in [PoolThreads -> PoolPcs] /\ inUseFlags \in [Nodes -> BOOLEAN]
      /\ poolNode[t] \in Nodes /\ inUseFlags[poolNode[t]] = TRUE
      /\ poolHeld \in [PoolThreads -> SUBSET Nodes]
  BY <1>1 DEF PoolInv, PoolTyped, Owns, FlagsInv
<1>3. poolPc' = [poolPc EXCEPT ![t] = "reset"]
  BY <1>2 DEF ReleaseFlag
<1>4. /\ poolPc' \in [PoolThreads -> PoolPcs] /\ poolPc'[t] = "reset"
      /\ \A u \in PoolThreads : u # t => poolPc'[u] = poolPc[u]
      /\ inUseFlags' \in [Nodes -> BOOLEAN]
      /\ \A i \in Nodes : i # poolNode[t] => inUseFlags'[i] = inUseFlags[i]
  BY <1>1, <1>2, <1>3 DEF PoolPcs
<1>5. FreeNodes' = FreeNodes /\ Linked' /\ HeadTyped'
  BY <1>1, ListQuiet
<1>6. \A u \in PoolThreads : Owns(u)' = Owns(u) /\ poolHeld'[u] = poolHeld[u]
  BY <1>1, <1>4 DEF Owns
<1>7. OwnersInv'
  BY <1>5, <1>6, SameOwners DEF PoolInv
<1>8. FlagsInv'
  <2> SUFFICES ASSUME NEW u \in PoolThreads
               PROVE  /\ \A i \in poolHeld[u] : inUseFlags'[i] = TRUE
                      /\ poolPc'[u] \in {"taken", "flag"} => inUseFlags'[poolNode[u]] = TRUE
    BY <1>1 DEF FlagsInv
  <2>1. poolNode[t] \in Owns(t)
    BY <1>1 DEF Owns
  <2>2. poolNode[t] \notin poolHeld[u]
    BY <2>1 DEF PoolInv, OwnersInv, Mine
  <2>3. \A i \in poolHeld[u] : i \in Nodes /\ inUseFlags[i] = TRUE
    BY <1>2 DEF PoolInv, FlagsInv
  <2>4. ASSUME u # t, poolPc[u] \in {"taken", "flag"} PROVE inUseFlags'[poolNode[u]] = TRUE
    <3>1. poolNode[u] \in Nodes /\ inUseFlags[poolNode[u]] = TRUE /\ poolNode[u] \in Owns(u)
      BY <2>4 DEF PoolInv, PoolTyped, Owns, FlagsInv
    <3>2. poolNode[u] # poolNode[t]
      BY <2>1, <2>4, <3>1 DEF PoolInv, OwnersInv, Mine
    <3> QED BY <1>4, <3>1, <3>2
  <2> QED BY <1>4, <2>2, <2>3, <2>4
<1>9. PoolTyped'
  BY <1>1, <1>4, <1>5, <1>6 DEF PoolInv, PoolTyped
<1>10. HeadsInv'
  <2>1. ASSUME NEW u \in PoolThreads, u # t PROVE KnowsHead(u)'
    BY <1>1, <1>4, <2>1, OthersKnow DEF PoolInv
  <2>2. KnowsHead(t)'
    BY <1>4 DEF KnowsHead
  <2> QED BY <2>1, <2>2 DEF HeadsInv
<1>11. CountInv'
  <2>1. "reset" \in PoolPcs /\ "reset" \notin {"mark", "taken"} /\ poolPc[t] \notin {"mark", "taken"}
        /\ poolPc[t] # "pushed" /\ "reset" # "pushed" /\ poolPc[t] \in InCall
    BY <1>1 DEF PoolPcs, InCall
  <2> QED BY <1>1, <1>3, <1>5, <2>1, CountQuiet
<1> QED BY <1>5, <1>7, <1>8, <1>9, <1>10, <1>11 DEF PoolInv

\* Loading the head and linking the owned node to it.
LEMMA LinkKeepsPool ==
  ASSUME PoolInv, NEW t \in PoolThreads, poolPc[t] \in {"reset", "push"},
         poolPc' = [poolPc EXCEPT ![t] = "push"], LoadAndLink(t),
         UNCHANGED <<freeHead, inUseFlags, availableCount, newNext, poolNode, poolHeld>>
  PROVE  PoolInv'
<1> DEFINE node == poolNode[t]
<1>1. /\ oldHead' = [oldHead EXCEPT ![t] = freeHead]
      /\ poolNext' = [poolNext EXCEPT ![node] = freeHead.ptr]
  BY DEF LoadAndLink
<1>2. /\ poolPc \in [PoolThreads -> PoolPcs] /\ freeHead \in [ptr : 0 .. PoolSize, tag : Nat]
      /\ oldHead \in [PoolThreads -> [ptr : 0 .. PoolSize, tag : Nat]]
      /\ poolNext \in [Nodes -> 0 .. PoolSize] /\ HeadTyped /\ Linked
  BY DEF PoolInv, PoolTyped, HeadTyped
<1>3. Owns(t) = {node} /\ node \in Mine(t) /\ node \in Nodes
  BY DEF PoolInv, PoolTyped, Owns, Mine
<1>4. node \notin FreeNodes /\ \A u \in PoolThreads : u # t => node \notin Mine(u)
  BY <1>3 DEF PoolInv, OwnersInv
<1> HIDE DEF node
<1>5. /\ poolPc' \in [PoolThreads -> PoolPcs] /\ poolPc'[t] = "push" /\ oldHead'[t] = freeHead
      /\ oldHead' \in [PoolThreads -> [ptr : 0 .. PoolSize, tag : Nat]]
      /\ \A u \in PoolThreads : u # t => poolPc'[u] = poolPc[u] /\ oldHead'[u] = oldHead[u]
  BY <1>1, <1>2 DEF PoolPcs
<1>6. /\ poolNext' \in [Nodes -> 0 .. PoolSize] /\ poolNext'[node] = freeHead.ptr
      /\ \A i \in Nodes : i # node => poolNext'[i] = poolNext[i]
  BY <1>1, <1>2, <1>3
<1>7. HeadTyped'
  BY <1>2, <1>6 DEF HeadTyped
<1>8. FreeNodes' = FreeNodes /\ Linked'
  BY <1>1, <1>2, <1>3, <1>4, <1>7, LinkList
<1>9. \A u \in PoolThreads : Owns(u)' = Owns(u) /\ poolHeld'[u] = poolHeld[u]
  BY <1>5 DEF Owns
<1>10. OwnersInv'
  BY <1>8, <1>9, SameOwners DEF PoolInv
<1>11. FlagsInv'
  BY <1>5 DEF PoolInv, FlagsInv
<1>12. PoolTyped'
  BY <1>5, <1>7, <1>9 DEF PoolInv, PoolTyped
<1>13. HeadsInv'
  <2>1. freeHead.ptr # 0 => poolNext'[freeHead.ptr] = poolNext[freeHead.ptr]
    <3>1. freeHead.ptr # 0 => freeHead.ptr \in FreeNodes /\ freeHead.ptr \in Nodes
      BY <1>2, ListClosed DEF Closed
    <3> QED BY <1>4, <1>6, <3>1
  <2>2. ASSUME NEW u \in PoolThreads, u # t PROVE KnowsHead(u)'
    <3>1. poolPc[u] = "push" => poolNext'[poolNode[u]] = poolNext[poolNode[u]]
      <4> SUFFICES ASSUME poolPc[u] = "push" PROVE poolNext'[poolNode[u]] = poolNext[poolNode[u]]
        OBVIOUS
      <4>1. poolNode[u] \in Mine(u) /\ poolNode[u] \in Nodes
        BY DEF PoolInv, PoolTyped, Owns, Mine
      <4> QED BY <1>4, <1>6, <2>2, <4>1
    <3> QED BY <1>5, <2>1, <2>2, <3>1, OthersKnow DEF PoolInv
  <2>3. KnowsHead(t)'
    BY <1>2, <1>5, <1>6 DEF KnowsHead, Recent, node
  <2> QED BY <2>2, <2>3 DEF HeadsInv
<1>14. CountInv'
  <2>1. "push" \in PoolPcs /\ "push" \notin {"mark", "taken"} /\ poolPc[t] \notin {"mark", "taken"}
        /\ poolPc[t] # "pushed" /\ "push" # "pushed" /\ poolPc[t] \in InCall
    BY DEF PoolPcs, InCall
  <2> QED BY <1>8, <2>1, CountQuiet
<1> QED BY <1>8, <1>10, <1>11, <1>12, <1>13, <1>14 DEF PoolInv

\* The exchange that puts the node back.
LEMMA PushKeepsPool ==
  ASSUME PoolInv, NEW t \in PoolThreads, poolPc[t] = "push", freeHead = oldHead[t],
         freeHead' = Tagged(poolNode[t], oldHead[t].tag),
         poolPc' = [poolPc EXCEPT ![t] = "pushed"],
         UNCHANGED <<oldHead, poolNext, inUseFlags, availableCount, newNext, poolNode, poolHeld>>
  PROVE  PoolInv'
<1> DEFINE node == poolNode[t]
<1>1. /\ poolPc \in [PoolThreads -> PoolPcs] /\ freeHead.tag \in Nat
      /\ poolNext \in [Nodes -> 0 .. PoolSize] /\ HeadTyped /\ Linked /\ availableCount \in Int
  BY DEF PoolInv, PoolTyped, HeadTyped
<1>2. Owns(t) = {node} /\ node \in Mine(t) /\ node \in Nodes /\ poolNext[node] = freeHead.ptr
  BY DEF PoolInv, PoolTyped, Owns, Mine, HeadsInv, KnowsHead
<1>3. node \notin FreeNodes /\ node \notin poolHeld[t]
      /\ \A u \in PoolThreads : u # t => node \notin Mine(u)
  BY <1>2 DEF PoolInv, OwnersInv
<1>4. freeHead'.ptr = node /\ freeHead'.tag = freeHead.tag + 1
      /\ freeHead' = [ptr |-> node, tag |-> freeHead.tag + 1]
  BY DEF Tagged
<1> HIDE DEF node
<1>5. HeadTyped'
  BY <1>1, <1>2, <1>4, NodesAreNumbers DEF HeadTyped
<1>6. FreeNodes' = FreeNodes \cup {node} /\ Linked'
  BY <1>1, <1>2, <1>3, <1>4, <1>5, PushList
<1>7. /\ poolPc' \in [PoolThreads -> PoolPcs] /\ poolPc'[t] = "pushed"
      /\ \A u \in PoolThreads : u # t => poolPc'[u] = poolPc[u]
  BY <1>1 DEF PoolPcs
<1>8. Owns(t)' = {} /\ \A u \in PoolThreads : u # t => Owns(u)' = Owns(u)
  BY <1>7 DEF Owns
<1>9. OwnersInv'
  <2>1. \A u \in PoolThreads : u # t => Mine(u)' = Mine(u)
    BY <1>8 DEF Mine
  <2>2. Mine(t)' = Mine(t) \ {node}
    BY <1>2, <1>3, <1>8 DEF Mine
  <2>3. \A u, v \in PoolThreads : u # v => Mine(u)' \cap Mine(v)' = {}
    BY <2>1, <2>2 DEF PoolInv, OwnersInv
  <2>4. \A u \in PoolThreads : FreeNodes' \cap Mine(u)' = {} /\ poolHeld'[u] \cap Owns(u)' = {}
    BY <1>3, <1>6, <1>8, <2>1, <2>2 DEF PoolInv, OwnersInv
  <2>5. \A i \in Nodes : i \in FreeNodes' \/ \E u \in PoolThreads : i \in Mine(u)'
    BY <1>6, <2>1, <2>2 DEF PoolInv, OwnersInv
  <2> QED BY <2>3, <2>4, <2>5 DEF OwnersInv
<1>10. FlagsInv'
  BY <1>7 DEF PoolInv, FlagsInv
<1>11. PoolTyped'
  BY <1>5, <1>7, <1>8 DEF PoolInv, PoolTyped
<1>12. HeadsInv'
  <2>1. ASSUME NEW u \in PoolThreads, u # t PROVE KnowsHead(u)'
    <3>1. freeHead' # freeHead
      BY <1>1, <1>4
    <3> QED BY <1>4, <1>7, <2>1, <3>1, OthersKnow DEF PoolInv
  <2>2. KnowsHead(t)'
    BY <1>7 DEF KnowsHead
  <2> QED BY <2>1, <2>2 DEF HeadsInv
<1>13. CountInv'
  <2>1. One("pushed", {"mark", "taken"}) = 0 /\ One("pushed", {"pushed"}) = 1
        /\ One(poolPc[t], {"mark", "taken"}) = 0 /\ One(poolPc[t], {"pushed"}) = 0
    BY DEF One
  <2>2. "pushed" \in PoolPcs /\ "pushed" \notin InCall /\ poolPc[t] \in InCall /\ 1 \in {-1, 0, 1}
    BY DEF PoolPcs, InCall
  <2>3. Cardinality(FreeNodes') = Cardinality(FreeNodes) + 1
    BY <1>3, <1>6, FiniteParts, FS_AddElement
  <2>4. availableCount' = availableCount + 1
                            + One("pushed", {"mark", "taken"}) - One(poolPc[t], {"mark", "taken"})
                            - One("pushed", {"pushed"}) + One(poolPc[t], {"pushed"})
    BY <1>1, <2>1
  <2> QED BY <1>4, <2>2, <2>3, <2>4, CountStep
<1> QED BY <1>6, <1>9, <1>10, <1>11, <1>12, <1>13 DEF PoolInv

LEMMA CountKeepsPool ==
  ASSUME PoolInv, NEW t \in PoolThreads, ReleaseCount(t)
  PROVE  PoolInv'
<1>1. /\ poolPc[t] = "pushed" /\ poolPc' = [poolPc EXCEPT ![t] = "idle"]
      /\ availableCount' = availableCount + 1
      /\ UNCHANGED <<freeHead, poolNext, inUseFlags, oldHead, newNext, poolNode, poolHeld>>
  BY DEF ReleaseCount, At
<1>2. poolPc \in [PoolThreads -> PoolPcs] /\ availableCount \in Int
  BY DEF PoolInv, PoolTyped
<1>3. /\ poolPc' \in [PoolThreads -> PoolPcs] /\ poolPc'[t] = "idle"
      /\ \A u \in PoolThreads : u # t => poolPc'[u] = poolPc[u]
  BY <1>1, <1>2 DEF PoolPcs
<1>4. FreeNodes' = FreeNodes /\ Linked' /\ HeadTyped'
  BY <1>1, ListQuiet
<1>5. \A u \in PoolThreads : Owns(u)' = Owns(u) /\ poolHeld'[u] = poolHeld[u]
  BY <1>1, <1>3 DEF Owns
<1>6. OwnersInv'
  BY <1>4, <1>5, SameOwners DEF PoolInv
<1>7. FlagsInv'
  BY <1>1, <1>3 DEF PoolInv, FlagsInv
<1>8. PoolTyped'
  BY <1>1, <1>2, <1>3, <1>4, <1>5 DEF PoolInv, PoolTyped
<1>9. HeadsInv'
  <2>1. ASSUME NEW u \in PoolThreads, u # t PROVE KnowsHead(u)'
    BY <1>1, <1>3, <2>1, OthersKnow DEF PoolInv
  <2>2. KnowsHead(t)'
    BY <1>3 DEF KnowsHead
  <2> QED BY <2>1, <2>2 DEF HeadsInv
<1>10. CountInv'
  <2>1. One("idle", {"mark", "taken"}) = 0 /\ One("idle", {"pushed"}) = 0
        /\ One(poolPc[t], {"mark", "taken"}) = 0 /\ One(poolPc[t], {"pushed"}) = 1
    BY <1>1 DEF One
  <2>2. "idle" \in PoolPcs /\ "idle" \notin InCall /\ 0 \in {-1, 0, 1} /\ freeHead'.tag = freeHead.tag
    BY <1>1 DEF PoolPcs, InCall
  <2>3. Cardinality(FreeNodes') = Cardinality(FreeNodes) + 0
    BY <1>4, FiniteParts
  <2>4. availableCount' = availableCount + 0
                            + One("idle", {"mark", "taken"}) - One(poolPc[t], {"mark", "taken"})
                            - One("idle", {"pushed"}) + One(poolPc[t], {"pushed"})
    BY <1>1, <1>2, <2>1
  <2> QED BY <1>1, <2>2, <2>3, <2>4, CountStep
<1> QED BY <1>4, <1>6, <1>7, <1>8, <1>9, <1>10 DEF PoolInv

LEMMA NextPool == DoubleFree = FALSE => (PoolInv /\ [PoolNextStep]_poolVars => PoolInv')
<1> SUFFICES ASSUME DoubleFree = FALSE, PoolInv, [PoolNextStep]_poolVars PROVE PoolInv'
  OBVIOUS
<1>1. ASSUME NEW t \in PoolThreads, ReleaseLink(t) PROVE PoolInv'
  BY <1>1, LinkKeepsPool DEF ReleaseLink, At
<1>2. ASSUME NEW t \in PoolThreads, ReleaseCas(t) PROVE PoolInv'
  <2>1. poolPc[t] = "push" /\ UNCHANGED <<inUseFlags, availableCount, newNext, poolNode, poolHeld>>
    BY <1>2 DEF ReleaseCas
  <2>2. CASE /\ freeHead = oldHead[t] /\ freeHead' = Tagged(poolNode[t], oldHead[t].tag)
             /\ poolPc' = [poolPc EXCEPT ![t] = "pushed"] /\ UNCHANGED <<oldHead, poolNext>>
    BY <2>1, <2>2, PushKeepsPool
  <2>3. CASE LoadAndLink(t) /\ UNCHANGED <<freeHead, poolPc>>
    <3>1. poolPc' = [poolPc EXCEPT ![t] = "push"]
      BY <2>1, <2>3 DEF PoolInv, PoolTyped
    <3> QED BY <2>1, <2>3, <3>1, LinkKeepsPool
  <2> QED BY <1>2, <2>2, <2>3 DEF ReleaseCas
<1>3. CASE UNCHANGED poolVars
  <2>1. FreeNodes' = FreeNodes /\ Linked' /\ HeadTyped'
    BY <1>3, ListQuiet DEF poolVars
  <2>2. \A u \in PoolThreads : Owns(u)' = Owns(u) /\ poolHeld'[u] = poolHeld[u]
    BY <1>3 DEF poolVars, Owns
  <2>3. OwnersInv'
    BY <2>1, <2>2, SameOwners DEF PoolInv
  <2>4. FlagsInv' /\ HeadsInv'
    BY <1>3 DEF poolVars, PoolInv, FlagsInv, HeadsInv, KnowsHead, Recent
  <2>5. PoolTyped'
    BY <1>3, <2>1, <2>2 DEF poolVars, PoolInv, PoolTyped
  <2>6. CountInv'
    BY <1>3, <2>1 DEF poolVars, PoolInv, CountInv, Taking, Pushed, Started
  <2> QED BY <2>1, <2>3, <2>4, <2>5, <2>6 DEF PoolInv
<1>4. CASE PoolNextStep
  <2>1. PICK t \in PoolThreads :
          \/ AcquireLoad(t) \/ AcquireNext(t) \/ AcquireCas(t)
          \/ AcquireMark(t) \/ AcquireReturn(t)
          \/ \E i \in Nodes : ReleaseCall(t, i)
          \/ ReleaseFlag(t) \/ ReleaseLink(t) \/ ReleaseCas(t) \/ ReleaseCount(t)
    BY <1>4 DEF PoolNextStep
  <2>2. ASSUME NEW i \in Nodes, ReleaseCall(t, i) PROVE PoolInv'
    BY <2>2, CallKeepsPool
  <2> QED BY <1>1, <1>2, <2>1, <2>2, LoadKeepsPool, ReadNextKeepsPool, PopKeepsPool,
             MarkKeepsPool, ReturnKeepsPool, FlagKeepsPool, CountKeepsPool
<1> QED BY <1>3, <1>4

\* Packets between the list and a caller are different ones, so that those and
\* the free ones together are no more than there are.
LEMMA TakingFits ==
  ASSUME PoolInv
  PROVE  Cardinality(FreeNodes) + Cardinality(Taking) <= PoolSize
<1>1. /\ IsFiniteSet(Nodes \ FreeNodes)
      /\ Cardinality(Nodes \ FreeNodes) = PoolSize - Cardinality(FreeNodes)
  <2>1. FreeNodes \subseteq Nodes /\ Nodes \cap FreeNodes = FreeNodes
    BY DEF FreeNodes
  <2>2. /\ IsFiniteSet(Nodes \ FreeNodes)
        /\ Cardinality(Nodes \ FreeNodes) = Cardinality(Nodes) - Cardinality(Nodes \cap FreeNodes)
    BY NodesAreNumbers, FS_Difference
  <2> QED BY <2>1, <2>2, NodesAreNumbers
<1>2. \A t \in Taking : t \in PoolThreads /\ Owns(t) = {poolNode[t]} /\ poolNode[t] \in Nodes \ FreeNodes
  <2> SUFFICES ASSUME NEW t \in Taking
               PROVE  t \in PoolThreads /\ Owns(t) = {poolNode[t]} /\ poolNode[t] \in Nodes \ FreeNodes
    OBVIOUS
  <2>1. t \in PoolThreads /\ Owns(t) = {poolNode[t]} /\ poolNode[t] \in Mine(t)
    BY DEF Taking, Owns, Mine
  <2> QED BY <2>1 DEF PoolInv, PoolTyped, OwnersInv
<1> DEFINE f == [t \in Taking |-> poolNode[t]]
<1>3. \A t, u \in Taking : poolNode[t] = poolNode[u] => t = u
  <2> SUFFICES ASSUME NEW t \in Taking, NEW u \in Taking, t # u PROVE poolNode[t] # poolNode[u]
    OBVIOUS
  <2>1. poolNode[t] \in Mine(t) /\ poolNode[u] \in Mine(u)
    BY <1>2 DEF Mine
  <2> QED BY <1>2, <2>1 DEF PoolInv, OwnersInv
<1>4. f \in [Taking -> Nodes \ FreeNodes] /\ \A t, u \in Taking : f[t] = f[u] => t = u
  BY <1>2, <1>3
<1> HIDE DEF f
<1>5. f \in Injection(Taking, Nodes \ FreeNodes)
  BY <1>4 DEF Injection, IsInjective
<1>6. Cardinality(Taking) <= Cardinality(Nodes \ FreeNodes)
  BY <1>1, <1>5, FS_Injection
<1> QED BY <1>1, <1>6, FiniteParts, NodesAreNumbers

\* LockFreePacketPool, for any number of threads and packets, as long as nobody
\* releases a packet twice: every packet is free or has one owner, none is lost,
\* although heads are exchanged between loads (the tag in freeListHead_), and the
\* count is the free packets' when no call is under way.
THEOREM PacketsOwned ==
  ASSUME DoubleFree = FALSE
  PROVE  PoolSpec => []PoolSafe
<1>1. PoolInv => PoolSafe
  <2> SUFFICES ASSUME PoolInv PROVE PoolSafe
    OBVIOUS
  <2>1. PoolTypeOK
    <3>1. /\ Cardinality(FreeNodes) \in Nat /\ Cardinality(Taking) \in Nat
          /\ Cardinality(Pushed) \in Nat /\ Cardinality(Started) \in Nat
          /\ Cardinality(PoolThreads) \in Nat /\ Cardinality(Pushed) <= Cardinality(PoolThreads)
          /\ Cardinality(FreeNodes) + Cardinality(Taking) <= PoolSize
          /\ PoolSize \in Nat /\ MaxTag \in Nat
      BY FiniteParts, TakingFits, PoolAssumption
    <3>2. /\ availableCount = Cardinality(FreeNodes) + Cardinality(Taking) - Cardinality(Pushed)
          /\ freeHead.tag + Cardinality(Started) <= MaxTag + Cardinality(PoolThreads)
          /\ freeHead \in [ptr : 0 .. PoolSize, tag : Nat]
      BY DEF PoolInv, CountInv, PoolTyped, HeadTyped
    <3>3. availableCount \in -Cardinality(PoolThreads) .. PoolSize
      BY <3>1, <3>2
    <3>4. freeHead.tag \in 0 .. MaxTag + Cardinality(PoolThreads)
      BY <3>1, <3>2
    <3>5. freeHead \in [ptr : 0 .. PoolSize, tag : 0 .. MaxTag + Cardinality(PoolThreads)]
      BY <3>2, <3>4
    <3> QED BY <3>3, <3>5 DEF PoolInv, PoolTyped, HeadTyped, PoolTypeOK
  <2>2. OneOwner
    BY DEF PoolInv, OwnersInv, Mine, OneOwner
  <2>3. NoneLeaks
    <3>1. Nodes = FreeNodes \cup UNION {poolHeld[t] \cup Owns(t) : t \in PoolThreads}
      <4>1. FreeNodes \subseteq Nodes
        BY DEF FreeNodes
      <4>2. \A t \in PoolThreads : poolHeld[t] \cup Owns(t) \subseteq Nodes
        BY DEF PoolInv, PoolTyped
      <4>3. \A i \in Nodes : i \in FreeNodes \/ \E t \in PoolThreads : i \in poolHeld[t] \cup Owns(t)
        BY DEF PoolInv, OwnersInv, Mine
      <4> QED BY <4>1, <4>2, <4>3
    <3>2. ASSUME \A t \in PoolThreads : poolPc[t] = "idle" PROVE availableCount = Cardinality(FreeNodes)
      <4>1. Taking = {} /\ Pushed = {}
        BY <3>2 DEF Taking, Pushed
      <4>2. Cardinality(Taking) = 0 /\ Cardinality(Pushed) = 0
        BY <4>1, FS_EmptySet
      <4> QED BY <4>2, FiniteParts DEF PoolInv, CountInv
    <3> QED BY <3>1, <3>2 DEF NoneLeaks
  <2> QED BY <2>1, <2>2, <2>3 DEF PoolSafe
<1>2. PoolInv /\ [PoolNextStep]_poolVars => PoolInv'
  BY NextPool
<1> QED BY <1>1, <1>2, InitPool, PTL DEF PoolSpec

-----------------------------------------------------------------------------
(* DoPDecoder: DSD in PCM samples                                           *)

Markers == {Marker1, Marker2}

\* Every sample carries its two bytes of the stream; without an odd block the
\* markers alternate from the first sample on.
DoPInv ==
  /\ dsd \in Seq(DsdBytes) /\ dop \in Seq(Markers \X DsdBytes \X DsdBytes)
  /\ Len(dsd) = 2 * Len(dop) /\ oddBlock \in BOOLEAN
  /\ \A i \in 1 .. Len(dop) : dop[i][2] = dsd[2 * i - 1] /\ dop[i][3] = dsd[2 * i]
  /\ ~oddBlock => \A i \in 1 .. Len(dop) : dop[i][1] = MarkerOf(i - 1)

\* A function on 1 .. n is a sequence of n elements.
LEMMA FunctionIsSeq ==
  ASSUME NEW S, NEW n \in Nat, NEW s \in [1 .. n -> S]
  PROVE  s \in Seq(S) /\ Len(s) = n /\ DOMAIN s = 1 .. n
<1>1. s \in Seq(S)
  BY SeqDef
<1>2. DOMAIN s = 1 .. n /\ DOMAIN s = 1 .. Len(s) /\ Len(s) \in Nat
  BY <1>1, LenProperties
<1> QED BY <1>1, <1>2

\* What encode() makes of a block.
LEMMA EncodedBlock ==
  ASSUME NEW n \in Nat, NEW block \in [1 .. 2 * n -> DsdBytes]
  PROVE  /\ block \in Seq(DsdBytes) /\ Len(block) = 2 * n
         /\ EncodeDsd(block) \in Seq(Markers \X DsdBytes \X DsdBytes) /\ Len(EncodeDsd(block)) = n
         /\ \A i \in 1 .. n : /\ EncodeDsd(block)[i][1] = MarkerOf(i - 1)
                              /\ EncodeDsd(block)[i][2] = block[2 * i - 1]
                              /\ EncodeDsd(block)[i][3] = block[2 * i]
<1>1. 2 * n \in Nat /\ (2 * n) \div 2 = n
  OBVIOUS
<1>2. block \in Seq(DsdBytes) /\ Len(block) = 2 * n
  BY <1>1, FunctionIsSeq
<1>3. EncodeDsd(block) = [i \in 1 .. n |-> <<MarkerOf(i - 1), block[2 * i - 1], block[2 * i]>>]
  BY <1>1, <1>2 DEF EncodeDsd
<1>4. \A i \in 1 .. n : /\ MarkerOf(i - 1) \in Markers
                        /\ block[2 * i - 1] \in DsdBytes /\ block[2 * i] \in DsdBytes
  BY DEF MarkerOf, Markers
<1>5. EncodeDsd(block) \in [1 .. n -> Markers \X DsdBytes \X DsdBytes]
  BY <1>3, <1>4
<1>6. EncodeDsd(block) \in Seq(Markers \X DsdBytes \X DsdBytes) /\ Len(EncodeDsd(block)) = n
  BY <1>5, FunctionIsSeq
<1> QED BY <1>2, <1>3, <1>6

LEMMA InitDoP == DoPInit => DoPInv
<1> SUFFICES ASSUME DoPInit PROVE DoPInv
  OBVIOUS
<1>1. dsd = <<>> /\ dop = <<>> /\ oddBlock = FALSE
  BY DEF DoPInit
<1>2. dsd \in Seq(DsdBytes) /\ dop \in Seq(Markers \X DsdBytes \X DsdBytes)
  BY <1>1, EmptySeq
<1>3. Len(dsd) = 0 /\ Len(dop) = 0 /\ 1 .. Len(dop) = {}
  BY <1>1, EmptySeq
<1>4. Len(dsd) = 2 * Len(dop)
  BY <1>3
<1> QED BY <1>1, <1>2, <1>3, <1>4 DEF DoPInv

LEMMA BlockKeepsDoP ==
  ASSUME DoPInv, NEW n \in Nat \ {0}, NEW block \in [1 .. 2 * n -> DsdBytes], EncodeBlock(block)
  PROVE  DoPInv'
<1> DEFINE carried == EncodeDsd(block)
<1>1. dsd' = dsd \o block /\ dop' = dop \o carried /\ oddBlock' = (oddBlock \/ Len(dop) % 2 = 1)
  BY DEF EncodeBlock
<1>2. /\ dsd \in Seq(DsdBytes) /\ dop \in Seq(Markers \X DsdBytes \X DsdBytes)
      /\ Len(dop) \in Nat /\ oddBlock \in BOOLEAN
  BY LenProperties DEF DoPInv
<1>3. PICK m \in Nat : m = Len(dop)
  BY <1>2
<1>4. /\ Len(dsd) = 2 * m
      /\ \A i \in 1 .. m : dop[i][2] = dsd[2 * i - 1] /\ dop[i][3] = dsd[2 * i]
      /\ ~oddBlock => \A i \in 1 .. m : dop[i][1] = MarkerOf(i - 1)
  BY <1>3 DEF DoPInv
<1>5. /\ block \in Seq(DsdBytes) /\ Len(block) = 2 * n
      /\ carried \in Seq(Markers \X DsdBytes \X DsdBytes) /\ Len(carried) = n
      /\ \A i \in 1 .. n : /\ carried[i][1] = MarkerOf(i - 1)
                           /\ carried[i][2] = block[2 * i - 1] /\ carried[i][3] = block[2 * i]
  BY EncodedBlock
<1> HIDE DEF carried, Markers
<1>6. /\ dsd' \in Seq(DsdBytes) /\ Len(dsd') = Len(dsd) + Len(block)
      /\ \A i \in 1 .. Len(dsd) + Len(block) :
           dsd'[i] = IF i <= Len(dsd) THEN dsd[i] ELSE block[i - Len(dsd)]
  BY <1>1, <1>2, <1>5, ConcatProperties
<1>7. /\ dop' \in Seq(Markers \X DsdBytes \X DsdBytes) /\ Len(dop') = m + n
      /\ \A i \in 1 .. m + n : dop'[i] = IF i <= m THEN dop[i] ELSE carried[i - m]
  <2>1. /\ dop' \in Seq(Markers \X DsdBytes \X DsdBytes) /\ Len(dop') = Len(dop) + Len(carried)
        /\ \A i \in 1 .. Len(dop) + Len(carried) :
             dop'[i] = IF i <= Len(dop) THEN dop[i] ELSE carried[i - Len(dop)]
    <3>1. PICK u, v \in Seq(Markers \X DsdBytes \X DsdBytes) : u = dop /\ v = carried
      BY <1>2, <1>5
    <3>2. dop' = u \o v
      BY <1>1, <3>1
    <3> QED BY <3>1, <3>2, ConcatProperties
  <2>2. Len(dop) = m /\ Len(carried) = n
    BY <1>3, <1>5
  <2> QED BY <2>1, <2>2
<1>8. /\ Len(dsd') = 2 * (m + n)
      /\ \A i \in 1 .. 2 * (m + n) : dsd'[i] = IF i <= 2 * m THEN dsd[i] ELSE block[i - 2 * m]
  <2>1. Len(dsd) + Len(block) = 2 * (m + n)
    BY <1>4, <1>5
  <2> QED BY <1>4, <1>6, <2>1
<1>9. ASSUME NEW i \in 1 .. m + n
      PROVE  /\ dop'[i][2] = dsd'[2 * i - 1] /\ dop'[i][3] = dsd'[2 * i]
             /\ ~oddBlock' => dop'[i][1] = MarkerOf(i - 1)
  <2>0. 2 * i - 1 \in 1 .. 2 * (m + n) /\ 2 * i \in 1 .. 2 * (m + n)
    OBVIOUS
  <2>1. CASE i \in 1 .. m
    <3>1. i <= m /\ 2 * i - 1 <= 2 * m /\ 2 * i <= 2 * m
      BY <2>1
    <3>2. dop'[i] = dop[i] /\ dsd'[2 * i - 1] = dsd[2 * i - 1] /\ dsd'[2 * i] = dsd[2 * i]
      BY <1>7, <1>8, <2>0, <3>1
    <3> QED BY <1>1, <1>4, <2>1, <3>2
  <2>2. CASE i \notin 1 .. m
    <3>1. PICK j \in 1 .. n : j = i - m
      BY <2>2
    <3>2. ~(i <= m) /\ ~(2 * i - 1 <= 2 * m) /\ ~(2 * i <= 2 * m)
      BY <2>2
    <3>3. dop'[i] = carried[j]
      BY <1>7, <3>1, <3>2
    <3>4. 2 * i - 1 - 2 * m = 2 * j - 1 /\ 2 * i - 2 * m = 2 * j
      BY <3>1
    <3>5. dsd'[2 * i - 1] = block[2 * i - 1 - 2 * m] /\ dsd'[2 * i] = block[2 * i - 2 * m]
      BY <1>8, <2>0, <3>2
    <3>6. ASSUME ~oddBlock' PROVE MarkerOf(j - 1) = MarkerOf(i - 1)
      <4>1. m % 2 # 1
        BY <1>1, <1>3, <3>6
      <4>2. PICK half \in Nat : m = 2 * half
        BY <4>1
      <4>3. (j - 1) % 2 = (i - 1) % 2
        BY <3>1, <4>2
      <4> QED BY <4>3 DEF MarkerOf
    <3> QED BY <1>5, <3>3, <3>4, <3>5, <3>6
  <2> QED BY <2>1, <2>2
<1>10. oddBlock' \in BOOLEAN
  BY <1>1
<1>11. Len(dsd') = 2 * Len(dop')
  BY <1>7, <1>8
<1> QED BY <1>6, <1>7, <1>9, <1>10, <1>11 DEF DoPInv

LEMMA NextDoP == DoPInv /\ [DoPNext]_dopVars => DoPInv'
<1> SUFFICES ASSUME DoPInv, [DoPNext]_dopVars PROVE DoPInv'
  OBVIOUS
<1>1. CASE DoPNext
  <2>1. PICK n \in BlockFrames : \E block \in [1 .. 2 * n -> DsdBytes] : EncodeBlock(block)
    BY <1>1 DEF DoPNext
  <2>2. PICK block \in [1 .. 2 * n -> DsdBytes] : EncodeBlock(block)
    BY <2>1
  <2>3. n \in Nat \ {0}
    BY DoPAssumption
  <2> QED BY <2>2, <2>3, BlockKeepsDoP
<1>2. CASE UNCHANGED dopVars
  BY <1>2 DEF dopVars, DoPInv
<1> QED BY <1>1, <1>2

\* The rates of DSD64, DSD128 and DSD256 and of their containers.
LEMMA RatesHold == RatesInvert
<1>1. DOMAIN DoPRates = {2822400, 5644800, 11289600}
  BY DEF DoPRates
<1>2. DoPRates[2822400] = 176400 /\ DoPRates[5644800] = 352800 /\ DoPRates[11289600] = 705600
  BY DEF DoPRates
<1>3. ASSUME NEW r \in DOMAIN DoPRates PROVE GetDSDRate(GetDoPSampleRate(r)) = r
  <2>1. \A d \in DOMAIN DoPRates : DoPRates[d] = DoPRates[r] <=> d = r
    BY <1>1, <1>2
  <2>2. GetDSDRate(DoPRates[r]) = r
    BY <2>1 DEF GetDSDRate
  <2> QED BY <2>2 DEF GetDoPSampleRate
<1>4. ASSUME NEW r \in DOMAIN DoPRates PROVE r = 16 * GetDoPSampleRate(r)
  <2>1. r = 16 * DoPRates[r]
    BY <1>1, <1>2
  <2> QED BY <2>1 DEF GetDoPSampleRate
<1> QED BY <1>3, <1>4 DEF RatesInvert

\* A receiver that joins at sample k.
LEMMA JoinedAt ==
  ASSUME DoPInv, NEW k \in 1 .. Len(dop)
  PROVE  /\ Len(Join(k)) = Len(dop) - k + 1 /\ DOMAIN Join(k) = 1 .. Len(dop) - k + 1
         /\ \A i \in 1 .. Len(dop) - k + 1 : Join(k)[i] = dop[k + i - 1]
<1>1. dop \in Seq(Markers \X DsdBytes \X DsdBytes) /\ Len(dop) \in Nat
  BY LenProperties DEF DoPInv
<1>2. \A i \in k .. Len(dop) : dop[i] \in Markers \X DsdBytes \X DsdBytes
  BY <1>1, ElementOfSeq
<1>3. /\ Join(k) \in Seq(Markers \X DsdBytes \X DsdBytes)
      /\ Len(Join(k)) = Len(dop) - k + 1
      /\ \A i \in 1 .. Len(dop) - k + 1 : Join(k)[i] = dop[k + i - 1]
  <2> PICK S : S = Markers \X DsdBytes \X DsdBytes
    OBVIOUS
  <2> PICK n \in Nat : n = Len(dop)
    BY <1>1
  <2>1. \A i \in k .. n : dop[i] \in S
    BY <1>2
  <2>2. /\ SubSeq(dop, k, n) \in Seq(S)
        /\ Len(SubSeq(dop, k, n)) = IF k <= n THEN n - k + 1 ELSE 0
        /\ \A i \in 1 .. n - k + 1 : SubSeq(dop, k, n)[i] = dop[k + i - 1]
    BY <2>1, SubSeqProperties
  <2> QED BY <2>2 DEF Join
<1> QED BY <1>3, LenProperties

LEMMA JoinDecodes ==
  ASSUME DoPInv, NEW k \in 1 .. Len(dop)
  PROVE  DecodeDop(Join(k)) = SubSeq(dsd, 2 * k - 1, Len(dsd))
<1>1. /\ dsd \in Seq(DsdBytes) /\ Len(dop) \in Nat /\ Len(dsd) = 2 * Len(dop)
      /\ \A i \in 1 .. Len(dop) : dop[i][2] = dsd[2 * i - 1] /\ dop[i][3] = dsd[2 * i]
  BY LenProperties DEF DoPInv
<1> DEFINE rest == SubSeq(dsd, 2 * k - 1, Len(dsd))
           size == 2 * (Len(dop) - k + 1)
<1>2. \A i \in 2 * k - 1 .. Len(dsd) : dsd[i] \in DsdBytes
  BY <1>1, ElementOfSeq
<1>3. 2 * k - 1 \in Int /\ Len(dsd) \in Int /\ size \in Nat /\ Len(dsd) - (2 * k - 1) + 1 = size
  BY <1>1
<1>4. /\ rest \in Seq(DsdBytes) /\ Len(rest) = size
      /\ \A i \in 1 .. size : rest[i] = dsd[(2 * k - 1) + i - 1]
  BY <1>2, <1>3, SubSeqProperties
<1>5. DecodeDop(Join(k)) =
        [i \in 1 .. size |-> Join(k)[(i + 1) \div 2][2 + ((i - 1) % 2)]]
  BY JoinedAt DEF DecodeDop
<1>6. ASSUME NEW i \in 1 .. size
      PROVE  Join(k)[(i + 1) \div 2][2 + ((i - 1) % 2)] = dsd[(2 * k - 1) + i - 1]
  <2>1. PICK j \in 1 .. Len(dop) - k + 1 : i = 2 * j - 1 \/ i = 2 * j
    <3>1. (i + 1) \div 2 \in 1 .. Len(dop) - k + 1
      BY <1>1
    <3>2. i = 2 * ((i + 1) \div 2) - 1 \/ i = 2 * ((i + 1) \div 2)
      BY <1>3
    <3> QED BY <3>1, <3>2
  <2>2. (i + 1) \div 2 = j
    BY <1>1, <2>1
  <2>3. PICK l \in 1 .. Len(dop) : l = k + j - 1
    BY <1>1
  <2>4. Join(k)[j] = dop[l]
    BY <2>3, JoinedAt
  <2>5. CASE i = 2 * j - 1
    <3>1. 2 + ((i - 1) % 2) = 2 /\ (2 * k - 1) + i - 1 = 2 * l - 1
      BY <1>1, <2>3, <2>5
    <3> QED BY <1>1, <2>2, <2>4, <3>1
  <2>6. CASE i = 2 * j
    <3>1. 2 + ((i - 1) % 2) = 3 /\ (2 * k - 1) + i - 1 = 2 * l
      BY <1>1, <2>3, <2>6
    <3> QED BY <1>1, <2>2, <2>4, <3>1
  <2> QED BY <2>1, <2>5, <2>6
<1>7. DOMAIN rest = 1 .. size /\ rest \in [1 .. size -> DsdBytes]
  BY <1>4, LenProperties
<1> HIDE DEF rest, size
<1>8. rest = [i \in 1 .. size |-> rest[i]]
  BY <1>7
<1>9. \A i \in 1 .. size : rest[i] = Join(k)[(i + 1) \div 2][2 + ((i - 1) % 2)]
  BY <1>4, <1>6
<1>10. rest = DecodeDop(Join(k))
  BY <1>5, <1>8, <1>9
<1> QED BY <1>10 DEF rest

\* The markers, as long as the blocks were even.
LEMMA JoinRecognised ==
  ASSUME DoPInv, ~oddBlock, NEW k \in 1 .. Len(dop), k < Len(dop)
  PROVE  IsDoPStream(Join(k)) /\ (ValidateDoPMarkers(Join(k)) <=> k % 2 = 1)
<1>1. Len(dop) \in Nat /\ \A i \in 1 .. Len(dop) : dop[i][1] = MarkerOf(i - 1)
  BY LenProperties DEF DoPInv
<1>2. ASSUME NEW i \in 1 .. Len(dop) - k + 1
      PROVE  Join(k)[i][1] = MarkerOf(k + i - 2)
  <2>1. PICK l \in 1 .. Len(dop) : l = k + i - 1
    BY <1>1
  <2>2. Join(k)[i] = dop[l] /\ l - 1 = k + i - 2
    BY <1>1, <2>1, JoinedAt
  <2> QED BY <1>1, <2>2
<1>3. /\ 1 \in 1 .. Len(dop) - k + 1 /\ 2 \in 1 .. Len(dop) - k + 1
      /\ Len(Join(k)) = Len(dop) - k + 1 /\ Len(dop) - k + 1 >= 2
  BY <1>1, JoinedAt
<1>4. Join(k)[1][1] = MarkerOf(k - 1) /\ Join(k)[2][1] = MarkerOf(k)
  BY <1>2, <1>3
<1>5. {MarkerOf(k - 1), MarkerOf(k)} = {Marker1, Marker2}
  BY DEF MarkerOf
<1>6. IsDoPStream(Join(k))
  BY <1>3, <1>4, <1>5 DEF IsDoPStream
<1>7. ASSUME k % 2 = 1, NEW i \in 1 .. Len(dop) - k + 1
      PROVE  MarkerOf(k + i - 2) = MarkerOf(i - 1)
  <2>1. PICK half \in Nat : k = 2 * half + 1
    BY <1>7
  <2>2. k + i - 2 = 2 * half + (i - 1) /\ i - 1 \in Nat
    BY <2>1
  <2>3. (k + i - 2) % 2 = (i - 1) % 2
    BY <2>2
  <2> QED BY <2>3 DEF MarkerOf
<1>8. ASSUME k % 2 # 1 PROVE MarkerOf(k - 1) # MarkerOf(0)
  <2>1. (k - 1) % 2 = 1 /\ 0 % 2 = 0
    BY <1>8
  <2> QED BY <2>1 DEF MarkerOf, Marker1, Marker2
<1>9. ValidateDoPMarkers(Join(k)) <=>
        \A i \in 1 .. Len(dop) - k + 1 : MarkerOf(k + i - 2) = MarkerOf(i - 1)
  <2>1. DOMAIN Join(k) = 1 .. Len(dop) - k + 1 /\ Len(Join(k)) > 0
    BY <1>3, JoinedAt
  <2> QED BY <1>2, <2>1 DEF ValidateDoPMarkers
<1>10. ValidateDoPMarkers(Join(k)) => MarkerOf(k + 1 - 2) = MarkerOf(1 - 1)
  BY <1>3, <1>9
<1>11. k + 1 - 2 = k - 1 /\ 1 - 1 = 0
  OBVIOUS
<1>12. k % 2 # 1 => ~ValidateDoPMarkers(Join(k))
  BY <1>8, <1>10, <1>11
<1>13. k % 2 = 1 => ValidateDoPMarkers(Join(k))
  BY <1>7, <1>9
<1> QED BY <1>6, <1>12, <1>13

LEMMA DoPSafe == DoPSpec => [](DoPTypeOK /\ JoinAnywhere)
<1>1. ASSUME DoPInv PROVE DoPTypeOK /\ JoinAnywhere
  <2>1. DoPTypeOK
    <3>1. Len(dsd) = 2 * Len(dop) /\ DOMAIN dop = 1 .. Len(dop)
      BY <1>1, LenProperties DEF DoPInv
    <3>2. \A i \in 1 .. Len(dop) : dop[i] \in Markers \X DsdBytes \X DsdBytes
      BY <1>1, ElementOfSeq DEF DoPInv
    <3>3. \A i \in 1 .. Len(dop) : dop[i][1] \in Markers
      BY <3>2
    <3> QED BY <3>1, <3>3 DEF DoPTypeOK, Markers
  <2> QED BY <1>1, <2>1, RatesHold, JoinDecodes, JoinRecognised DEF JoinAnywhere
<1> QED BY <1>1, InitDoP, NextDoP, PTL DEF DoPSpec

-----------------------------------------------------------------------------
(* AudioWire: encoding, interleaving and decoding                           *)

\* Products.
LEMMA TimesMonotone ==
  ASSUME NEW a \in Int, NEW d \in Int, NEW m \in Nat, a <= d
  PROVE  a * m <= d * m
OBVIOUS

LEMMA TimesCancel ==
  ASSUME NEW a \in Int, NEW d \in Int, NEW m \in Nat \ {0}, a * m < d * m
  PROVE  a < d
<1>1. ASSUME d <= a PROVE FALSE
  <2>1. d * m <= a * m
    BY <1>1, TimesMonotone
  <2> QED BY <2>1
<1> QED BY <1>1

\* The quotient of a number given by quotient and rest.
LEMMA QuotientIs ==
  ASSUME NEW m \in Nat \ {0}, NEW q \in Int, NEW r \in 0 .. m - 1
  PROVE  (m * q + r) \div m = q /\ (m * q + r) % m = r
<1>1. (m * q + r) % m = r
  BY RestIsTheRest
<1>2. PICK z \in Int : z = m * q + r
  OBVIOUS
<1>3. z = m * (z \div m) + (z % m) /\ z \div m \in Int
  BY Divides
<1>4. PICK p \in Int : p = z \div m
  BY <1>3
<1>5. p * m = q * m
  BY <1>1, <1>2, <1>3, <1>4
<1>6. p = q
  BY <1>5, TimesCancel
<1> QED BY <1>1, <1>2, <1>4, <1>6

\* The place of a sample in the interleaved payload.
LEMMA CellPlace ==
  ASSUME NEW n \in Nat, NEW f \in 1 .. n, NEW c \in 1 .. Channels
  PROVE  LET j == (f - 1) * Channels + c - 1
         IN  j \in 0 .. n * Channels - 1 /\ j \div Channels = f - 1 /\ j % Channels = c - 1
<1> DEFINE j == (f - 1) * Channels + c - 1
<1>0. Channels \in Nat \ {0}
  BY AudioWireAssumption
<1>1. j = Channels * (f - 1) + (c - 1) /\ f - 1 \in Nat /\ c - 1 \in 0 .. Channels - 1
  BY <1>0
<1>2. j \div Channels = f - 1 /\ j % Channels = c - 1
  <2>1. PICK q \in Int, r \in 0 .. Channels - 1 : q = f - 1 /\ r = c - 1
    BY <1>1
  <2>2. (Channels * q + r) \div Channels = q /\ (Channels * q + r) % Channels = r
    BY <1>0, QuotientIs
  <2>3. j = Channels * q + r
    BY <1>1, <2>1
  <2> HIDE DEF j
  <2> QED BY <2>1, <2>2, <2>3
<1>3. f * Channels <= n * Channels /\ 0 * Channels <= (f - 1) * Channels
  BY <1>0, TimesMonotone
<1>4. (f - 1) * Channels = f * Channels - Channels /\ f * Channels \in Int /\ n * Channels \in Int
  BY <1>0
<1>5. j \in 0 .. n * Channels - 1
  BY <1>0, <1>3, <1>4
<1> QED BY <1>2, <1>5

LEMMA CellOf ==
  ASSUME NEW n \in Nat, NEW j \in 0 .. n * Channels - 1
  PROVE  j \div Channels + 1 \in 1 .. n /\ (j % Channels) + 1 \in 1 .. Channels
<1>0. Channels \in Nat \ {0}
  BY AudioWireAssumption
<1>1. j \in Nat /\ n * Channels \in Int
  BY <1>0
<1>2. j = Channels * (j \div Channels) + (j % Channels) /\ j % Channels \in 0 .. Channels - 1
      /\ j \div Channels \in Int
  BY <1>0, <1>1, Divides
<1>3. PICK q \in Int : q = j \div Channels
  BY <1>2
<1>4. q * Channels < n * Channels
  BY <1>0, <1>1, <1>2, <1>3
<1>5. q < n
  BY <1>0, <1>4, TimesCancel
<1>6. (-1) * Channels < q * Channels
  BY <1>0, <1>1, <1>2, <1>3
<1>7. -1 < q
  BY <1>0, <1>6, TimesCancel
<1> QED BY <1>0, <1>2, <1>3, <1>5, <1>7

\* A cast rounds towards zero by less than one.
LEMMA TruncateNear ==
  ASSUME NEW x \in Int, NEW d \in Nat \ {0}
  PROVE  /\ Truncate(x, d) \in Int
         /\ x >= 0 => /\ Truncate(x, d) * d <= x /\ x < Truncate(x, d) * d + d
                      /\ Truncate(x, d) >= 0
         /\ x < 0 => /\ Truncate(x, d) * d >= x /\ x > Truncate(x, d) * d - d
                     /\ Truncate(x, d) <= 0
<1>1. ASSUME NEW y \in Nat
      PROVE  /\ y \div d \in Nat /\ (y \div d) * d <= y /\ y < (y \div d) * d + d
  <2>1. y = d * (y \div d) + (y % d) /\ y % d \in 0 .. d - 1 /\ y \div d \in Int
    BY Divides
  <2>2. PICK q \in Int : q = y \div d
    BY <2>1
  <2>3. (-1) * d < q * d
    BY <2>1, <2>2
  <2>4. -1 < q
    BY <2>3, TimesCancel
  <2> QED BY <2>1, <2>2, <2>4
<1>2. CASE x >= 0
  BY <1>1, <1>2 DEF Truncate
<1>3. CASE x < 0
  <2>1. PICK q \in Nat : /\ q = (-x) \div d /\ q * d <= -x /\ -x < q * d + d
    <3>1. -x \in Nat
      BY <1>3
    <3> QED BY <1>1, <3>1
  <2>2. Truncate(x, d) = -q
    BY <1>3, <2>1 DEF Truncate
  <2>3. (-q) * d = -(q * d) /\ q * d \in Int
    OBVIOUS
  <2> QED BY <1>3, <2>1, <2>2, <2>3
<1> QED BY <1>2, <1>3

LEMMA ClampIs == ASSUME NEW x \in Int PROVE Clamp(x) \in -Den .. Den
BY AudioWireAssumption DEF Clamp

LEMMA ScaleIs == \A b \in {2, 3} : Scale(b) \in Nat /\ Scale(b) > 1
BY SMT DEF Scale

\* A sample's word: within its range, less than two steps from the sample.
LEMMA PcmNear ==
  ASSUME NEW x \in Int, NEW b \in {2, 3}
  PROVE  /\ ToPcm(x, b) \in 1 - Scale(b) .. Scale(b) - 1
         /\ AbsVal(ToPcm(x, b) * Den - Clamp(x) * Scale(b)) < 2 * Den
         /\ Clamp(x) > 0 => ToPcm(x, b) >= 0
         /\ Clamp(x) < 0 => ToPcm(x, b) <= 0
<1>1. PICK v \in -Den .. Den : v = Clamp(x)
  BY ClampIs
<1>2. PICK s \in Nat : s = Scale(b) /\ s > 1
  BY ScaleIs
<1>3. Den \in Nat \ {0} /\ v \in Int
  BY AudioWireAssumption
<1>4. PICK z \in Int : z = v * (s - 1) /\ z = v * s - v
  BY <1>3
<1>5. PICK t \in Int : t = Truncate(z, Den)
  BY <1>3, TruncateNear
<1>6. ToPcm(x, b) = t
  BY <1>1, <1>2, <1>4, <1>5 DEF ToPcm
<1>7. PICK y \in Int : y = t * Den
  BY <1>3
<1>8. /\ z >= 0 => y <= z /\ z < y + Den /\ t >= 0
      /\ z < 0 => y >= z /\ z > y - Den /\ t <= 0
  BY <1>3, <1>5, <1>7, TruncateNear
<1>9. /\ v >= 0 => z >= 0 /\ z <= Den * (s - 1)
      /\ v < 0 => z < 0 /\ z >= -(Den * (s - 1))
  <2>1. ASSUME v >= 0 PROVE z >= 0 /\ z <= Den * (s - 1)
    <3>1. s - 1 \in Nat /\ v <= Den /\ 0 <= v /\ Den \in Int
      BY <1>2, <1>3, <2>1
    <3>2. 0 * (s - 1) <= v * (s - 1) /\ v * (s - 1) <= Den * (s - 1)
      BY <1>3, <3>1, TimesMonotone
    <3> QED BY <1>4, <3>2, <3>1
  <2>2. ASSUME v < 0 PROVE z < 0 /\ z >= -(Den * (s - 1))
    <3>1. s - 1 \in Nat /\ v <= -1 /\ -Den <= v /\ -Den \in Int
      BY <1>2, <1>3, <2>2
    <3>2. v * (s - 1) <= (-1) * (s - 1) /\ (-Den) * (s - 1) <= v * (s - 1)
      BY <1>3, <3>1, TimesMonotone
    <3>3. (-1) * (s - 1) < 0 /\ (-Den) * (s - 1) = -(Den * (s - 1))
      BY <1>2, <1>3
    <3> QED BY <1>4, <3>2, <3>3, <1>3
  <2> QED BY <2>1, <2>2
<1>10. t \in 1 - s .. s - 1
  <2>1. Den * (s - 1) = (s - 1) * Den /\ s * Den = (s - 1) * Den + Den
        /\ (-s) * Den = -((s - 1) * Den) - Den /\ (s - 1) * Den \in Int
    BY <1>3
  <2>2. t * Den < s * Den /\ (-s) * Den < t * Den
    BY <1>3, <1>7, <1>8, <1>9, <2>1
  <2>3. t < s /\ -s < t
    BY <1>3, <2>2, TimesCancel
  <2> QED BY <2>3
<1>11. AbsVal(y - v * s) < 2 * Den
  <2>1. PICK u \in Int : u = v * s /\ z = u - v
    BY <1>3, <1>4
  <2>2. y - u < 2 * Den /\ u - y < 2 * Den
    BY <1>3, <1>8, <1>9, <2>1
  <2> QED BY <2>1, <2>2 DEF AbsVal
<1>12. (v > 0 => t >= 0) /\ (v < 0 => t <= 0)
  BY <1>8, <1>9
<1> QED BY <1>1, <1>2, <1>6, <1>7, <1>10, <1>11, <1>12

\* A word of b bytes, the receiver's decoder and the codec's.
ByteWords(b) == {w \in Seq(0 .. 255) : Len(w) = b}

LEMMA WordBytes ==
  ASSUME NEW b \in {2, 3}, NEW w \in ByteWords(b)
  PROVE  w[1] \in 0 .. 255 /\ w[2] \in 0 .. 255 /\ (b = 3 => w[3] \in 0 .. 255)
<1>1. w \in Seq(0 .. 255) /\ Len(w) = b
  BY DEF ByteWords
<1>2. \A i \in 1 .. Len(w) : w[i] \in 0 .. 255
  BY <1>1, ElementOfSeq
<1>3. 1 \in 1 .. b /\ 2 \in 1 .. b /\ (b = 3 => 3 \in 1 .. b)
  OBVIOUS
<1> QED BY <1>1, <1>2, <1>3

LEMMA Scales == Scale(2) = 32768 /\ Scale(3) = 8388608
BY SMT DEF Scale

\* A word by its bytes, signed.
LEMMA DecodeTwo ==
  ASSUME NEW w, Len(w) = 2, w[1] \in 0 .. 255, w[2] \in 0 .. 255
  PROVE  ReceiverDecode(w) = Signed8(w[1]) * 256 + w[2] /\ CodecDecode(w) = ReceiverDecode(w)
<1>0. PICK x \in 0 .. 255, y \in 0 .. 255 : x = w[1] /\ y = w[2]
  OBVIOUS
<1>1. ReceiverDecode(w) = Signed8(x) * 256 + y
  BY SMT, <1>0 DEF ReceiverDecode
<1>2. CodecDecode(w) = IF x >= 128 THEN x * 256 + y - 65536 ELSE x * 256 + y
  BY SMT, <1>0 DEF CodecDecode, Unsigned, Scale
<1>3. (IF x >= 128 THEN x * 256 + y - 65536 ELSE x * 256 + y) = Signed8(x) * 256 + y
  BY SMT DEF Signed8
<1> QED BY <1>0, <1>1, <1>2, <1>3

LEMMA DecodeThree ==
  ASSUME NEW w, Len(w) = 3, w[1] \in 0 .. 255, w[2] \in 0 .. 255, w[3] \in 0 .. 255
  PROVE  /\ ReceiverDecode(w) = Signed8(w[1]) * 65536 + w[2] * 256 + w[3]
         /\ CodecDecode(w) = ReceiverDecode(w)
<1>0. PICK x \in 0 .. 255, y \in 0 .. 255, z \in 0 .. 255 : x = w[1] /\ y = w[2] /\ z = w[3]
  OBVIOUS
<1>1. PICK s \in Int : s = Signed8(x) /\ s = IF x >= 128 THEN x - 256 ELSE x
  BY DEF Signed8
<1>2. ReceiverDecode(w) = (s * 16777216 + y * 65536 + z * 256) \div 256
  BY SMT, <1>0, <1>1 DEF ReceiverDecode
<1>3. (s * 16777216 + y * 65536 + z * 256) \div 256 = s * 65536 + y * 256 + z
  BY SMT
<1>4. CodecDecode(w) = IF x >= 128 THEN (x * 256 + y) * 256 + z - 16777216
                       ELSE (x * 256 + y) * 256 + z
  BY SMT, <1>0 DEF CodecDecode, Unsigned, Scale
<1>5. CodecDecode(w) = s * 65536 + y * 256 + z
  BY SMT, <1>1, <1>4
<1>6. ReceiverDecode(w) = s * 65536 + y * 256 + z
  BY SMT, <1>2, <1>3
<1> QED BY SMT, <1>0, <1>1, <1>5, <1>6

LEMMA SignedByte == \A x \in 0 .. 255 : -128 <= Signed8(x) /\ Signed8(x) <= 127 /\ Signed8(x) \in Int
BY DEF Signed8

LEMMA DecodersEqual ==
  ASSUME NEW b \in {2, 3}, NEW w \in ByteWords(b)
  PROVE  /\ CodecDecode(w) = ReceiverDecode(w)
         /\ ReceiverDecode(w) \in -Scale(b) .. Scale(b) - 1
<1>1. w[1] \in 0 .. 255 /\ w[2] \in 0 .. 255 /\ (b = 3 => w[3] \in 0 .. 255) /\ Len(w) = b
  <2>1. Len(w) = b
    BY DEF ByteWords
  <2>2. w[1] \in 0 .. 255 /\ w[2] \in 0 .. 255 /\ (b = 3 => w[3] \in 0 .. 255)
    BY WordBytes
  <2> QED BY <2>1, <2>2
<1>2. PICK x \in 0 .. 255, y \in 0 .. 255 : w[1] = x /\ w[2] = y
  BY <1>1
<1>3. PICK s \in Int : s = Signed8(x) /\ -128 <= s /\ s <= 127
  BY SignedByte
<1>4. CASE b = 2
  <2>1. Len(w) = 2
    BY <1>1, <1>4
  <2>2. CodecDecode(w) = ReceiverDecode(w) /\ ReceiverDecode(w) = Signed8(w[1]) * 256 + w[2]
    BY <1>1, <2>1, DecodeTwo
  <2>3. PICK v \in Int : v = s * 256 + y /\ -32768 <= v /\ v <= 32767
    BY SMT, <1>3
  <2>4. Scale(b) = Scale(2)
    BY <1>4
  <2>5. v \in -Scale(2) .. Scale(2) - 1
    BY SMT, <2>3, Scales
  <2>6. ReceiverDecode(w) = v
    BY <1>2, <1>3, <2>2, <2>3
  <2> QED BY <2>2, <2>4, <2>5, <2>6
<1>5. CASE b = 3
  <2>0. PICK z \in 0 .. 255 : w[3] = z
    BY <1>1, <1>5
  <2>1. Len(w) = 3
    BY <1>1, <1>5
  <2>2. /\ CodecDecode(w) = ReceiverDecode(w)
        /\ ReceiverDecode(w) = Signed8(w[1]) * 65536 + w[2] * 256 + w[3]
    BY SMT, <1>1, <2>0, <2>1, DecodeThree
  <2>3. PICK v \in Int : v = s * 65536 + y * 256 + z /\ -8388608 <= v /\ v <= 8388607
    BY SMT, <1>3
  <2>4. Scale(b) = Scale(3)
    BY <1>5
  <2>5. v \in -Scale(3) .. Scale(3) - 1
    BY SMT, <2>3, Scales
  <2>6. ReceiverDecode(w) = v
    BY SMT, <1>2, <1>3, <2>0, <2>2, <2>3
  <2> QED BY <2>2, <2>4, <2>5, <2>6
<1> QED BY <1>4, <1>5

\* A number's bytes and back.
LEMMA TwoBytesBack ==
  ASSUME NEW v \in Int, -32768 <= v, v <= 32767
  PROVE  /\ (v \div 256) % 256 \in 0 .. 255 /\ v % 256 \in 0 .. 255
         /\ Signed8((v \div 256) % 256) * 256 + (v % 256) = v
<1>1. PICK h \in Int, l \in Int : h = v \div 256 /\ l = v % 256
  BY SMT
<1>2. v = 256 * h + l /\ 0 <= l /\ l <= 255
  BY SMT, <1>1
<1>3. -128 <= h /\ h <= 127
  BY SMT, <1>2
<1>4. h % 256 = IF h < 0 THEN h + 256 ELSE h
  BY SMT, <1>3
<1>5. Signed8(h % 256) = h /\ h % 256 \in 0 .. 255
  BY SMT, <1>3, <1>4 DEF Signed8
<1>6. h * 256 + l = v
  BY SMT, <1>2
<1>7. l \in 0 .. 255
  BY <1>2
<1> QED BY <1>1, <1>5, <1>6, <1>7

LEMMA ThreeBytesBack ==
  ASSUME NEW v \in Int, -8388608 <= v, v <= 8388607
  PROVE  /\ (v \div 65536) % 256 \in 0 .. 255 /\ (v \div 256) % 256 \in 0 .. 255
         /\ v % 256 \in 0 .. 255
         /\ Signed8((v \div 65536) % 256) * 65536 + ((v \div 256) % 256) * 256 + (v % 256) = v
<1>1. PICK y \in Int, l \in Int : y = v \div 256 /\ l = v % 256
  BY SMT
<1>2. v = 256 * y + l /\ 0 <= l /\ l <= 255
  BY SMT, <1>1
<1>3. PICK h \in Int, k \in Int : h = y \div 256 /\ k = y % 256
  BY SMT
<1>4. y = 256 * h + k /\ 0 <= k /\ k <= 255
  BY SMT, <1>3
<1>5. v = 65536 * h + 256 * k + l
  BY SMT, <1>2, <1>4
<1>6. -128 <= h /\ h <= 127
  BY SMT, <1>2, <1>4, <1>5
<1>7. v \div 65536 = h
  BY SMT, <1>2, <1>4, <1>5
<1>8. h % 256 = IF h < 0 THEN h + 256 ELSE h
  BY SMT, <1>6
<1>9. Signed8(h % 256) = h /\ h % 256 \in 0 .. 255
  BY SMT, <1>6, <1>8 DEF Signed8
<1>10. h * 65536 + k * 256 + l = v
  BY SMT, <1>5
<1>11. l \in 0 .. 255 /\ k \in 0 .. 255
  BY <1>2, <1>4
<1> QED BY SMT, <1>1, <1>3, <1>7, <1>9, <1>10, <1>11

\* What is encoded is bytes, and is decoded to what it was.
LEMMA EncodedBytes ==
  ASSUME NEW v \in Int
  PROVE  /\ ToBytes(v, 2)[1] = (v \div 256) % 256 /\ ToBytes(v, 2)[2] = v % 256
         /\ ToBytes(v, 3)[1] = (v \div 65536) % 256 /\ ToBytes(v, 3)[2] = (v \div 256) % 256
         /\ ToBytes(v, 3)[3] = v % 256
<1>1. v \div 1 = v
  BY SMT
<1>2. ToBytes(v, 2)[1] = (v \div 256) % 256 /\ ToBytes(v, 2)[2] = (v \div 1) % 256
  BY SMT DEF ToBytes
<1>3. /\ ToBytes(v, 3)[1] = (v \div 65536) % 256 /\ ToBytes(v, 3)[2] = (v \div 256) % 256
      /\ ToBytes(v, 3)[3] = (v \div 1) % 256
  BY SMT DEF ToBytes
<1> QED BY SMT, <1>1, <1>2, <1>3

LEMMA BytesAreBytes ==
  ASSUME NEW v \in Int, NEW b \in {2, 3}, NEW m \in 1 .. b
  PROVE  ToBytes(v, b)[m] \in 0 .. 255
<1>1. PICK d \in {1, 256, 65536} : ToBytes(v, b)[m] = (v \div d) % 256
  BY SMT DEF ToBytes
<1>2. (v \div d) % 256 \in 0 .. 255
  <2>1. v \div d \in Int
    BY SMT
  <2> QED BY SMT, <2>1
<1> QED BY SMT, <1>1, <1>2

LEMMA BytesBack ==
  ASSUME NEW b \in {2, 3}, NEW v \in Int, -Scale(b) <= v, v <= Scale(b) - 1, NEW w, Len(w) = b,
         \A m \in 1 .. b : w[m] = ToBytes(v, b)[m]
  PROVE  ReceiverDecode(w) = v
<1>1. CASE b = 2
  <2>0. 1 \in 1 .. b /\ 2 \in 1 .. b
    BY <1>1
  <2>1. -32768 <= v /\ v <= 32767
    BY SMT, <1>1, Scales
  <2>2. /\ (v \div 256) % 256 \in 0 .. 255 /\ v % 256 \in 0 .. 255
        /\ Signed8((v \div 256) % 256) * 256 + (v % 256) = v
    BY SMT, <2>1, TwoBytesBack
  <2>3. w[1] = ToBytes(v, 2)[1] /\ w[2] = ToBytes(v, 2)[2]
    BY <1>1, <2>0
  <2>4. w[1] = (v \div 256) % 256 /\ w[2] = v % 256
    BY <2>3, EncodedBytes
  <2>5. ReceiverDecode(w) = Signed8(w[1]) * 256 + w[2]
    BY <1>1, <2>2, <2>4, DecodeTwo
  <2> QED BY <2>2, <2>4, <2>5
<1>2. CASE b = 3
  <2>0. 1 \in 1 .. b /\ 2 \in 1 .. b /\ 3 \in 1 .. b
    BY <1>2
  <2>1. -8388608 <= v /\ v <= 8388607
    BY SMT, <1>2, Scales
  <2>2. /\ (v \div 65536) % 256 \in 0 .. 255 /\ (v \div 256) % 256 \in 0 .. 255
        /\ v % 256 \in 0 .. 255
        /\ Signed8((v \div 65536) % 256) * 65536 + ((v \div 256) % 256) * 256 + (v % 256) = v
    BY SMT, <2>1, ThreeBytesBack
  <2>3. w[1] = ToBytes(v, 3)[1] /\ w[2] = ToBytes(v, 3)[2] /\ w[3] = ToBytes(v, 3)[3]
    BY <1>2, <2>0
  <2>4. w[1] = (v \div 65536) % 256 /\ w[2] = (v \div 256) % 256 /\ w[3] = v % 256
    BY SMT, <2>3, EncodedBytes
  <2>5. ReceiverDecode(w) = Signed8(w[1]) * 65536 + w[2] * 256 + w[3]
    BY SMT, <1>2, <2>2, <2>4, DecodeThree
  <2> QED BY SMT, <2>2, <2>4, <2>5
<1> QED BY <1>1, <1>2

\* The bytes of the samples, in order.
LEMMA BytePlace ==
  ASSUME NEW n \in Nat, NEW b \in {2, 3}, NEW i \in 1 .. n * b
  PROVE  (i - 1) \div b \in 0 .. n - 1 /\ ((i - 1) % b) + 1 \in 1 .. b
<1>1. CASE b = 2
  BY <1>1
<1>2. CASE b = 3
  BY <1>2
<1> QED BY <1>1, <1>2

LEMMA ByteOf ==
  ASSUME NEW n \in Nat, NEW b \in {2, 3}, NEW j \in 0 .. n - 1, NEW m \in 1 .. b
  PROVE  /\ j * b + m \in 1 .. n * b
         /\ (j * b + m - 1) \div b = j /\ ((j * b + m - 1) % b) + 1 = m
<1>1. CASE b = 2
  BY <1>1
<1>2. CASE b = 3
  BY <1>2
<1> QED BY <1>1, <1>2

FramesOf(n) == [1 .. n -> [1 .. Channels -> Samples]]

LEMMA EncodeIs ==
  ASSUME NEW n \in Nat, NEW frames \in FramesOf(n), NEW b \in {2, 3}
  PROVE  /\ Encode(frames, b) \in Seq(0 .. 255) /\ Len(Encode(frames, b)) = n * Channels * b
         /\ \A j \in 0 .. n * Channels - 1, m \in 1 .. b :
              Encode(frames, b)[j * b + m] =
                ToBytes(ToPcm(frames[j \div Channels + 1][(j % Channels) + 1], b), b)[m]
<1> DEFINE Cell(j) == frames[j \div Channels + 1][(j % Channels) + 1]
           Pcm(j) == ToPcm(Cell(j), b)
           ByteAt(i) == ToBytes(Pcm((i - 1) \div b), b)[((i - 1) % b) + 1]
<1>1. PICK cells \in Nat : cells = n * Channels
  BY AudioWireAssumption
<1>2. Len(frames) = n
  BY FunctionIsSeq DEF FramesOf
<1>3. ASSUME NEW j \in 0 .. cells - 1 PROVE Pcm(j) \in Int
  <2>1. j \div Channels + 1 \in 1 .. n /\ (j % Channels) + 1 \in 1 .. Channels
    BY <1>1, CellOf
  <2>2. Cell(j) \in Samples /\ Samples \subseteq Int
    BY <2>1, AudioWireAssumption DEF FramesOf
  <2>3. Cell(j) \in Int
    BY <2>2
  <2>4. ToPcm(Cell(j), b) \in 1 - Scale(b) .. Scale(b) - 1
    <3> HIDE DEF Cell
    <3> QED BY <2>3, PcmNear
  <2>5. Scale(b) \in Int
    BY ScaleIs
  <2> QED BY <2>4, <2>5
<1>4. Encode(frames, b) = [i \in 1 .. cells * b |-> ByteAt(i)]
  BY <1>1, <1>2 DEF Encode
<1>5. ASSUME NEW i \in 1 .. cells * b PROVE ByteAt(i) \in 0 .. 255
  <2>1. PICK j \in 0 .. cells - 1, m \in 1 .. b : j = (i - 1) \div b /\ m = ((i - 1) % b) + 1
    BY <1>1, BytePlace
  <2>2. Pcm(j) \in Int
    BY <1>3
  <2>3. ToBytes(Pcm(j), b)[m] \in 0 .. 255
    <3> HIDE DEF Pcm
    <3> QED BY <2>2, BytesAreBytes
  <2> QED BY <2>1, <2>3
<1>6. ASSUME NEW j \in 0 .. cells - 1, NEW m \in 1 .. b
      PROVE  Encode(frames, b)[j * b + m] = ToBytes(Pcm(j), b)[m]
  <2>1. /\ j * b + m \in 1 .. cells * b
        /\ (j * b + m - 1) \div b = j /\ ((j * b + m - 1) % b) + 1 = m
    BY <1>1, ByteOf
  <2>2. ByteAt(j * b + m) = ToBytes(Pcm(j), b)[m]
    <3> HIDE DEF Pcm
    <3> QED BY <2>1
  <2> HIDE DEF ByteAt, Pcm
  <2> QED BY <1>4, <2>1, <2>2
<1>7. cells * b \in Nat
  BY <1>1
<1> HIDE DEF ByteAt
<1>8. Encode(frames, b) \in [1 .. cells * b -> 0 .. 255]
  BY <1>4, <1>5
<1>9. Encode(frames, b) \in Seq(0 .. 255) /\ Len(Encode(frames, b)) = cells * b
  BY <1>7, <1>8, FunctionIsSeq
<1> QED BY <1>1, <1>6, <1>9

\* A word of the payload.
LEMMA WordOf ==
  ASSUME NEW p \in Seq(0 .. 255), NEW b \in {2, 3}, NEW i \in Nat, (i + 1) * b <= Len(p)
  PROVE  /\ Word(p, b, i) \in ByteWords(b)
         /\ \A m \in 1 .. b : Word(p, b, i)[m] = p[i * b + m]
<1>1. PICK first \in Int, last \in Int :
           /\ first = i * b + 1 /\ last = (i + 1) * b /\ last - first + 1 = b
           /\ 1 <= first /\ first <= last /\ last <= Len(p)
  <2>1. CASE b = 2
    BY <2>1
  <2>2. CASE b = 3
    BY <2>2
  <2> QED BY <2>1, <2>2
<1>2. \A k \in first .. last : p[k] \in 0 .. 255
  <2>1. \A k \in first .. last : k \in 1 .. Len(p)
    BY <1>1, LenProperties
  <2> QED BY <2>1, ElementOfSeq
<1>3. /\ SubSeq(p, first, last) \in Seq(0 .. 255)
      /\ Len(SubSeq(p, first, last)) = last - first + 1
      /\ \A m \in 1 .. last - first + 1 : SubSeq(p, first, last)[m] = p[first + m - 1]
  <2>1. PICK S : S = 0 .. 255
    OBVIOUS
  <2>2. \A k \in first .. last : p[k] \in S
    BY <1>2, <2>1
  <2>3. /\ SubSeq(p, first, last) \in Seq(S)
        /\ Len(SubSeq(p, first, last)) = IF first <= last THEN last - first + 1 ELSE 0
        /\ \A m \in 1 .. last - first + 1 : SubSeq(p, first, last)[m] = p[first + m - 1]
    BY <2>2, SubSeqProperties
  <2> QED BY <1>1, <2>1, <2>3
<1>4. Word(p, b, i) = SubSeq(p, first, last)
  BY <1>1 DEF Word
<1>5. \A m \in 1 .. b : first + m - 1 = i * b + m
  BY <1>1
<1> QED BY <1>1, <1>3, <1>4, <1>5 DEF ByteWords

\* The words of a whole frame are all there.
LEMMA FrameThere ==
  ASSUME NEW p \in Seq(0 .. 255), NEW b \in {2, 3},
         NEW f \in 1 .. FramesIn(p, b), NEW c \in 1 .. Channels
  PROVE  /\ (f - 1) * Channels + c - 1 \in Nat
         /\ ((f - 1) * Channels + c - 1 + 1) * b <= Len(p)
<1>0. Channels \in Nat \ {0} /\ Len(p) \in Nat
  BY AudioWireAssumption, LenProperties
<1>1. PICK size \in Nat \ {0} : size = b * Channels
  <2>1. CASE b = 2
    BY <1>0, <2>1
  <2>2. CASE b = 3
    BY <1>0, <2>2
  <2> QED BY <2>1, <2>2
<1>2. /\ Len(p) = size * (Len(p) \div size) + (Len(p) % size)
      /\ Len(p) % size \in 0 .. size - 1 /\ Len(p) \div size \in Int
  BY <1>0, Divides
<1>3. PICK n \in Int : n = FramesIn(p, b) /\ size * n <= Len(p)
  BY <1>0, <1>1, <1>2 DEF FramesIn
<1>4. n \in Nat /\ f \in 1 .. n
  <2>1. n = FramesIn(p, b)
    BY <1>3
  <2>2. f \in 1 .. n
    BY <2>1
  <2> QED BY <2>2
<1>5. PICK j \in Int : j = (f - 1) * Channels + c - 1 /\ j \in 0 .. n * Channels - 1
  <2>1. PICK j : j = (f - 1) * Channels + c - 1
    OBVIOUS
  <2>2. j \in 0 .. n * Channels - 1
    BY <1>4, <2>1, CellPlace, Zenon
  <2>3. j \in Int
    BY <2>2
  <2> QED BY <2>1, <2>2, <2>3
<1>6. PICK cells \in Int : cells = n * Channels /\ j + 1 <= cells /\ 0 <= j
  BY <1>0, <1>4, <1>5
<1>7. (j + 1) * b <= cells * b
  BY <1>6, TimesMonotone
<1>8. cells * b = size * n
  <2>1. CASE b = 2
    BY <1>0, <1>1, <1>6, <2>1
  <2>2. CASE b = 3
    BY <1>0, <1>1, <1>6, <2>2
  <2> QED BY <2>1, <2>2
<1>9. (j + 1) * b <= Len(p)
  BY <1>3, <1>7, <1>8
<1> QED BY <1>5, <1>6, <1>9

\* What the receiver makes of any payload.
LEMMA DecodedFrame ==
  ASSUME NEW p \in Seq(0 .. 255), NEW b \in {2, 3},
         NEW f \in 1 .. FramesIn(p, b), NEW c \in 1 .. Channels
  PROVE  LET j == (f - 1) * Channels + c - 1
         IN  /\ Decode(p, b)[f][c] = ReceiverDecode(Word(p, b, j))
             /\ Word(p, b, j) \in ByteWords(b)
             /\ \A m \in 1 .. b : Word(p, b, j)[m] = p[j * b + m]
<1>1. PICK j \in Nat : j = (f - 1) * Channels + c - 1 /\ (j + 1) * b <= Len(p)
  BY FrameThere
<1>2. Word(p, b, j) \in ByteWords(b) /\ \A m \in 1 .. b : Word(p, b, j)[m] = p[j * b + m]
  BY <1>1, WordOf
<1>3. Decode(p, b)[f][c] = ReceiverDecode(Word(p, b, j))
  BY <1>1 DEF Decode
<1> QED BY <1>1, <1>2, <1>3

\* A payload that is the beginning of an encoded block.
BeginsBlock(p, frames, n, b) ==
  Len(p) <= n * Channels * b /\ \A i \in 1 .. Len(p) : p[i] = Encode(frames, b)[i]

LEMMA HeardSample ==
  ASSUME NEW n \in Nat, NEW frames \in FramesOf(n), NEW b \in {2, 3},
         NEW p \in Seq(0 .. 255), BeginsBlock(p, frames, n, b),
         NEW f \in 1 .. FramesIn(p, b), NEW c \in 1 .. Channels
  PROVE  f \in 1 .. n /\ Decode(p, b)[f][c] = ToPcm(frames[f][c], b)
<1>0. Channels \in Nat \ {0} /\ Len(p) \in Nat
  BY AudioWireAssumption, LenProperties
<1>1. PICK j \in Nat : j = (f - 1) * Channels + c - 1 /\ (j + 1) * b <= Len(p)
  BY FrameThere
<1>2. PICK cells \in Nat : cells = n * Channels
  BY <1>0
<1>3. (j + 1) * b <= cells * b
  <2>1. Len(p) <= cells * b
    BY <1>2 DEF BeginsBlock
  <2>2. PICK x \in Int, y \in Int : x = (j + 1) * b /\ y = cells * b
    BY <1>1, <1>2
  <2> QED BY <1>0, <1>1, <2>1, <2>2
<1>4. j < cells
  <2>1. CASE b = 2
    BY <1>3, <2>1
  <2>2. CASE b = 3
    BY <1>3, <2>2
  <2> QED BY <2>1, <2>2
<1>5. f \in 1 .. n
  <2>1. PICK q \in Int : q = f - 1 /\ f \in Int /\ f >= 1
    OBVIOUS
  <2>2. q * Channels \in Int /\ j = q * Channels + c - 1
    BY <1>0, <1>1, <2>1
  <2>3. q * Channels < n * Channels
    BY <1>0, <1>2, <1>4, <2>2
  <2>4. q < n
    BY <1>0, <2>1, <2>3, TimesCancel
  <2> QED BY <2>1, <2>4
<1>6. j \in 0 .. cells - 1 /\ j \div Channels = f - 1 /\ j % Channels = c - 1
  BY <1>1, <1>2, <1>4, <1>5, CellPlace
<1>7. j \div Channels + 1 = f /\ (j % Channels) + 1 = c
  BY <1>6
<1> DEFINE pcm == ToPcm(frames[f][c], b)
<1>8. ASSUME NEW m \in 1 .. b PROVE p[j * b + m] = ToBytes(pcm, b)[m]
  <2>1. j * b + m \in 1 .. Len(p)
    <3>1. PICK long \in Nat : long = Len(p) /\ (j + 1) * b <= long
      BY <1>0, <1>1
    <3>2. CASE b = 2
      <4>1. m \in 1 .. 2 /\ (j + 1) * 2 <= long
        BY <3>1, <3>2
      <4>2. j * 2 + m \in 1 .. long
        BY <4>1
      <4> QED BY <3>1, <3>2, <4>2
    <3>3. CASE b = 3
      <4>1. m \in 1 .. 3 /\ (j + 1) * 3 <= long
        BY <3>1, <3>3
      <4>2. j * 3 + m \in 1 .. long
        BY <4>1
      <4> QED BY <3>1, <3>3, <4>2
    <3> QED BY <3>2, <3>3
  <2>2. p[j * b + m] = Encode(frames, b)[j * b + m]
    BY <2>1 DEF BeginsBlock
  <2>3. Encode(frames, b)[j * b + m] =
          ToBytes(ToPcm(frames[j \div Channels + 1][(j % Channels) + 1], b), b)[m]
    <3>1. j \in 0 .. n * Channels - 1
      BY <1>2, <1>6
    <3> QED BY <3>1, EncodeIs
  <2> QED BY <1>7, <2>2, <2>3
<1>9. frames[f][c] \in Int
  BY <1>5, AudioWireAssumption DEF FramesOf
<1>10. pcm \in Int /\ -Scale(b) <= pcm /\ pcm <= Scale(b) - 1
  <2>1. pcm \in 1 - Scale(b) .. Scale(b) - 1
    BY <1>9, PcmNear
  <2> HIDE DEF pcm
  <2> QED BY <2>1, ScaleIs
<1> HIDE DEF pcm
<1>11. PICK w : /\ w = Word(p, b, j) /\ w \in ByteWords(b)
                /\ \A m \in 1 .. b : w[m] = p[j * b + m]
                /\ Decode(p, b)[f][c] = ReceiverDecode(w)
  <2>1. /\ Decode(p, b)[f][c] = ReceiverDecode(Word(p, b, (f - 1) * Channels + c - 1))
        /\ Word(p, b, (f - 1) * Channels + c - 1) \in ByteWords(b)
        /\ \A m \in 1 .. b : Word(p, b, (f - 1) * Channels + c - 1)[m]
                              = p[((f - 1) * Channels + c - 1) * b + m]
    BY DecodedFrame
  <2>2. /\ Decode(p, b)[f][c] = ReceiverDecode(Word(p, b, j))
        /\ Word(p, b, j) \in ByteWords(b)
        /\ \A m \in 1 .. b : Word(p, b, j)[m] = p[j * b + m]
    BY <1>1, <2>1
  <2> QED BY <2>2
<1>12. Len(w) = b /\ \A m \in 1 .. b : w[m] = ToBytes(pcm, b)[m]
  BY <1>8, <1>11 DEF ByteWords
<1>13. ReceiverDecode(w) = pcm
  BY <1>10, <1>12, BytesBack
<1> QED BY <1>5, <1>11, <1>13 DEF pcm

\* What was sent is known, and on the wire is its beginning, or it was heard.
BlockOnWire ==
  \E n \in 1 .. MaxFrames : /\ sentFrames \in FramesOf(n)
                            /\ BeginsBlock(payload, sentFrames, n, bytes)

WireInv ==
  /\ bytes \in {2, 3} /\ payload \in Seq(0 .. 255)
  /\ Len(payload) <= MaxFrames * Channels * 3
  /\ payload # <<>> => heardFrames = <<>>
  /\ sentFrames # <<>> => BlockOnWire
  /\ \A f \in DOMAIN heardFrames : \A c \in 1 .. Channels :
       heardFrames[f][c] \in -Scale(bytes) .. Scale(bytes) - 1
  /\ HeardIsSent

LEMMA NothingHeard == DOMAIN <<>> = {}
OBVIOUS

LEMMA InitWire == WireInit => WireInv
<1> SUFFICES ASSUME WireInit PROVE WireInv
  OBVIOUS
<1>1. /\ sentFrames = <<>> /\ bytes \in {2, 3} /\ payload = <<>> /\ heardFrames = <<>>
  BY DEF WireInit
<1>2. payload \in Seq(0 .. 255) /\ Len(payload) = 0
  BY <1>1, EmptySeq
<1>3. MaxFrames * Channels \in Nat
  BY AudioWireAssumption
<1>4. Len(payload) <= MaxFrames * Channels * 3
  BY <1>2, <1>3
<1> QED BY <1>1, <1>2, <1>4, NothingHeard DEF WireInv, HeardIsSent

\* A block fits a packet.
LEMMA BlockFits ==
  ASSUME NEW n \in 1 .. MaxFrames, NEW b \in {2, 3}
  PROVE  /\ n * Channels * b <= MaxFrames * Channels * 3 /\ n * Channels * b \in Nat
<1>0. Channels \in Nat \ {0} /\ MaxFrames \in Nat \ {0}
  BY AudioWireAssumption
<1>1. n * Channels <= MaxFrames * Channels
  BY <1>0, TimesMonotone
<1>2. PICK x \in Nat, y \in Nat : x = n * Channels /\ y = MaxFrames * Channels /\ x <= y
  BY <1>0, <1>1
<1>3. CASE b = 2
  BY <1>2, <1>3
<1>4. CASE b = 3
  BY <1>2, <1>4
<1> QED BY <1>3, <1>4

LEMMA SendKeepsWire ==
  ASSUME WireInv, NEW n \in 1 .. MaxFrames, NEW frames \in FramesOf(n), SendBlock(frames)
  PROVE  WireInv'
<1>1. /\ sentFrames' = frames /\ payload' = Encode(frames, bytes)
      /\ bytes' = bytes /\ heardFrames' = heardFrames /\ heardFrames = <<>>
  BY DEF SendBlock
<1>2. bytes \in {2, 3} /\ n \in Nat
  BY AudioWireAssumption DEF WireInv
<1>3. payload' \in Seq(0 .. 255) /\ Len(payload') = n * Channels * bytes
  BY <1>1, <1>2, EncodeIs
<1>4. Len(payload') <= MaxFrames * Channels * 3
  BY <1>2, <1>3, BlockFits
<1>5. BeginsBlock(payload', frames, n, bytes)
  <2>1. n * Channels * bytes \in Nat
    BY <1>2, BlockFits
  <2>2. Len(payload') <= n * Channels * bytes
    BY <1>3, <2>1
  <2> QED BY <1>1, <2>2 DEF BeginsBlock
<1>6. BlockOnWire'
  BY <1>1, <1>5 DEF BlockOnWire
<1>7. HeardIsSent'
  BY <1>1, NothingHeard DEF HeardIsSent
<1> QED BY <1>1, <1>2, <1>3, <1>4, <1>6, <1>7, NothingHeard DEF WireInv

LEMMA OtherKeepsWire ==
  ASSUME WireInv, NEW w \in Words, NEW n \in Nat \ {0}, OtherSender(w, n)
  PROVE  WireInv'
<1>1. /\ payload # <<>> /\ Len(w) = bytes /\ bytes' = bytes /\ heardFrames' = heardFrames
      /\ heardFrames = <<>> /\ bytes \in {2, 3} /\ payload \in Seq(0 .. 255)
  BY DEF OtherSender, WireInv
<1>2. PICK most \in Nat : most = MaxFrames * Channels * 3 /\ most >= 3 /\ Len(payload) <= most
  <2>1. MaxFrames \in Nat \ {0} /\ Channels \in Nat \ {0}
    BY AudioWireAssumption
  <2>2. 1 * Channels <= MaxFrames * Channels
    BY <2>1, TimesMonotone
  <2>3. PICK x \in Nat : x = MaxFrames * Channels /\ x >= 1
    BY <2>1, <2>2
  <2> QED BY <2>3 DEF WireInv
<1>3. Len(payload) \in Nat
  BY <1>1, LenProperties
<1>4. HeardIsSent' /\ \A f \in DOMAIN heardFrames' : FALSE
  BY <1>1, NothingHeard DEF HeardIsSent
<1>5. CASE payload' = w \o SubSeq(payload, bytes + 1, Len(payload)) /\ sentFrames' = <<>>
  <2>1. w \in Seq(0 .. 255)
    BY AudioWireAssumption
  <2>2. /\ SubSeq(payload, bytes + 1, Len(payload)) \in Seq(0 .. 255)
        /\ Len(SubSeq(payload, bytes + 1, Len(payload))) =
             IF bytes + 1 <= Len(payload) THEN Len(payload) - (bytes + 1) + 1 ELSE 0
    <3>1. \A i \in bytes + 1 .. Len(payload) : payload[i] \in 0 .. 255
      BY <1>1, <1>3, ElementOfSeq
    <3>2. bytes + 1 \in Int /\ Len(payload) \in Int
      BY <1>1, <1>3
    <3> QED BY <3>1, <3>2, SubSeqProperties
  <2>3. /\ payload' \in Seq(0 .. 255)
        /\ Len(payload') = bytes + Len(SubSeq(payload, bytes + 1, Len(payload)))
    BY <1>1, <1>5, <2>1, <2>2, ConcatProperties
  <2>4. Len(payload') <= most
    BY <1>1, <1>2, <1>3, <2>2, <2>3
  <2> QED BY <1>1, <1>2, <1>4, <1>5, <2>3, <2>4 DEF WireInv
<1>6. CASE n < Len(payload) /\ payload' = SubSeq(payload, 1, n) /\ UNCHANGED sentFrames
  <2>1. \A i \in 1 .. n : payload[i] \in 0 .. 255 /\ i \in 1 .. Len(payload)
    <3>1. \A i \in 1 .. n : i \in 1 .. Len(payload)
      BY <1>3, <1>6
    <3> QED BY <1>1, <3>1, ElementOfSeq
  <2>2. payload' \in Seq(0 .. 255) /\ Len(payload') = n /\ \A i \in 1 .. n : payload'[i] = payload[i]
    <3>1. /\ SubSeq(payload, 1, n) \in Seq(0 .. 255)
          /\ Len(SubSeq(payload, 1, n)) = IF 1 <= n THEN n - 1 + 1 ELSE 0
          /\ \A i \in 1 .. n - 1 + 1 : SubSeq(payload, 1, n)[i] = payload[1 + i - 1]
      BY <2>1, SubSeqProperties
    <3>2. n - 1 + 1 = n /\ 1 <= n /\ \A i \in 1 .. n : 1 + i - 1 = i
      OBVIOUS
    <3> QED BY <1>6, <3>1, <3>2
  <2>3. Len(payload') <= most
    BY <1>2, <1>3, <1>6, <2>2
  <2>4. sentFrames' # <<>> => BlockOnWire'
    <3>1. SUFFICES ASSUME sentFrames' # <<>> PROVE BlockOnWire'
      OBVIOUS
    <3>2. PICK m \in 1 .. MaxFrames : /\ sentFrames \in FramesOf(m)
                                      /\ BeginsBlock(payload, sentFrames, m, bytes)
      BY <1>6, <3>1 DEF WireInv, BlockOnWire
    <3>3. m * Channels * bytes \in Nat
      BY <1>1, BlockFits
    <3>4. BeginsBlock(payload', sentFrames, m, bytes)
      BY <1>3, <1>6, <2>1, <2>2, <3>2, <3>3 DEF BeginsBlock
    <3> QED BY <1>1, <1>6, <3>2, <3>4 DEF BlockOnWire
  <2> QED BY <1>1, <1>2, <1>4, <2>2, <2>3, <2>4 DEF WireInv
<1> QED BY <1>5, <1>6 DEF OtherSender

LEMMA ReceiveKeepsWire ==
  ASSUME WireInv, ReceiveBlock
  PROVE  WireInv'
<1>1. /\ payload' = <<>> /\ sentFrames' = sentFrames /\ bytes' = bytes
      /\ heardFrames' = IF Decodable(payload, bytes) THEN Decode(payload, bytes) ELSE <<>>
      /\ bytes \in {2, 3} /\ payload \in Seq(0 .. 255)
  BY DEF ReceiveBlock, WireInv
<1>2. payload' \in Seq(0 .. 255) /\ Len(payload') = 0
  BY <1>1, EmptySeq
<1>3. Len(payload') <= MaxFrames * Channels * 3
  <2>1. MaxFrames * Channels \in Nat
    BY AudioWireAssumption
  <2> QED BY <1>2, <2>1
<1>4. sentFrames' # <<>> => BlockOnWire'
  <2>1. SUFFICES ASSUME sentFrames' # <<>> PROVE BlockOnWire'
    OBVIOUS
  <2>2. PICK m \in 1 .. MaxFrames : sentFrames \in FramesOf(m)
    BY <1>1, <2>1 DEF WireInv, BlockOnWire
  <2>3. m * Channels * bytes \in Nat
    BY <1>1, BlockFits
  <2>4. BeginsBlock(payload', sentFrames, m, bytes)
    BY <1>2, <2>3 DEF BeginsBlock
  <2> QED BY <1>1, <2>2, <2>4 DEF BlockOnWire
<1>5. \A f \in DOMAIN heardFrames' :
        /\ heardFrames' = Decode(payload, bytes) /\ f \in 1 .. FramesIn(payload, bytes)
  BY <1>1, NothingHeard DEF Decode
<1>6. ASSUME NEW f \in DOMAIN heardFrames', NEW c \in 1 .. Channels
      PROVE  heardFrames'[f][c] \in -Scale(bytes) .. Scale(bytes) - 1
  <2>1. heardFrames' = Decode(payload, bytes) /\ f \in 1 .. FramesIn(payload, bytes)
    BY <1>5
  <2>2. PICK w \in ByteWords(bytes) : Decode(payload, bytes)[f][c] = ReceiverDecode(w)
    BY <1>1, <2>1, DecodedFrame
  <2> QED BY <1>1, <2>1, <2>2, DecodersEqual
<1>7. HeardIsSent'
  <2>1. SUFFICES ASSUME sentFrames # <<>>, NEW f \in DOMAIN heardFrames', NEW c \in 1 .. Channels
                 PROVE  LET x == Clamp(sentFrames[f][c])
                            y == heardFrames'[f][c]
                        IN  /\ AbsVal(y * Den - x * Scale(bytes)) < 2 * Den
                            /\ x > 0 => y >= 0
                            /\ x < 0 => y <= 0
    BY <1>1 DEF HeardIsSent
  <2>2. PICK m \in 1 .. MaxFrames : /\ sentFrames \in FramesOf(m)
                                    /\ BeginsBlock(payload, sentFrames, m, bytes)
    BY <2>1 DEF WireInv, BlockOnWire
  <2>3. heardFrames' = Decode(payload, bytes) /\ f \in 1 .. FramesIn(payload, bytes) /\ m \in Nat
    BY <1>5, AudioWireAssumption
  <2>4. f \in 1 .. m /\ Decode(payload, bytes)[f][c] = ToPcm(sentFrames[f][c], bytes)
    BY <1>1, <2>2, <2>3, HeardSample
  <2>5. sentFrames[f][c] \in Int
    BY <2>2, <2>4, AudioWireAssumption DEF FramesOf
  <2>6. /\ AbsVal(ToPcm(sentFrames[f][c], bytes) * Den - Clamp(sentFrames[f][c]) * Scale(bytes)) < 2 * Den
        /\ Clamp(sentFrames[f][c]) > 0 => ToPcm(sentFrames[f][c], bytes) >= 0
        /\ Clamp(sentFrames[f][c]) < 0 => ToPcm(sentFrames[f][c], bytes) <= 0
    BY <1>1, <2>5, PcmNear
  <2>7. heardFrames'[f][c] = ToPcm(sentFrames[f][c], bytes)
    BY <2>3, <2>4
  <2> QED BY <2>6, <2>7
<1> QED BY <1>1, <1>2, <1>3, <1>4, <1>6, <1>7 DEF WireInv

LEMMA NextWire == WireInv /\ [WireNext]_wireVars => WireInv'
<1> SUFFICES ASSUME WireInv, [WireNext]_wireVars PROVE WireInv'
  OBVIOUS
<1>0. Channels \in Nat \ {0} /\ MaxFrames \in Nat \ {0}
  BY AudioWireAssumption
<1>1. ASSUME NEW s \in [1 .. MaxFrames * Channels -> Samples], NEW n \in 1 .. MaxFrames,
             SendBlock([f \in 1 .. n |-> [k \in 1 .. Channels |-> s[(f - 1) * Channels + k]]])
      PROVE  WireInv'
  <2>1. ASSUME NEW f \in 1 .. n, NEW k \in 1 .. Channels
        PROVE  s[(f - 1) * Channels + k] \in Samples
    <3>1. f \in 1 .. MaxFrames
      BY <1>0
    <3>2. PICK j \in Int : j = (f - 1) * Channels + k - 1 /\ j \in 0 .. MaxFrames * Channels - 1
      BY <1>0, <3>1, CellPlace
    <3>3. PICK cells \in Int : cells = MaxFrames * Channels
      BY <1>0
    <3>4. (f - 1) * Channels \in Int
      BY <1>0
    <3>5. (f - 1) * Channels + k = j + 1 /\ j + 1 \in 1 .. cells
      BY <1>0, <3>2, <3>3, <3>4
    <3> QED BY <3>3, <3>5
  <2>2. [f \in 1 .. n |-> [k \in 1 .. Channels |-> s[(f - 1) * Channels + k]]] \in FramesOf(n)
    BY <2>1 DEF FramesOf
  <2> QED BY <1>1, <2>2, SendKeepsWire
<1>2. ASSUME NEW w \in Words, NEW n \in 1 .. MaxFrames * Channels * 3, OtherSender(w, n)
      PROVE  WireInv'
  <2>1. n \in Nat \ {0}
    OBVIOUS
  <2> QED BY <1>2, <2>1, OtherKeepsWire
<1>3. CASE ReceiveBlock
  BY <1>3, ReceiveKeepsWire
<1>4. CASE UNCHANGED wireVars
  BY <1>4 DEF wireVars, WireInv, HeardIsSent, BlockOnWire
<1> QED BY <1>1, <1>2, <1>3, <1>4 DEF WireNext

LEMMA WireSafe == WireSpec => [](WireTypeOK /\ HeardIsSent /\ DecodersAgree)
<1>1. ASSUME WireInv PROVE DecodersAgree
  <2>1. bytes \in {2, 3} /\ payload \in Seq(0 .. 255) /\ Len(payload) \in Nat
    BY <1>1, LenProperties DEF WireInv
  <2>2. ASSUME NEW i \in 0 .. Len(payload) \div bytes - 1
        PROVE  CodecDecode(Word(payload, bytes, i)) = ReceiverDecode(Word(payload, bytes, i))
    <3>1. i \in Nat /\ (i + 1) * bytes <= Len(payload)
      <4>1. CASE bytes = 2
        BY <2>1, <4>1
      <4>2. CASE bytes = 3
        BY <2>1, <4>2
      <4> QED BY <2>1, <4>1, <4>2
    <3>2. Word(payload, bytes, i) \in ByteWords(bytes)
      BY <2>1, <3>1, WordOf
    <3> QED BY <2>1, <3>2, DecodersEqual
  <2> QED BY <2>2 DEF DecodersAgree
<1>2. WireInv => WireTypeOK /\ HeardIsSent
  BY DEF WireInv, WireTypeOK
<1> QED BY <1>1, <1>2, InitWire, NextWire, PTL DEF WireSpec

\* What RTPReceiver and SimpleRTP's codecs decode is what RTPTransmitter
\* encoded, on its own channel and less than two steps away, and a DoP receiver
\* gets the DSD stream from wherever it joins.
THEOREM CodingHolds == ServicesSpec => []CodingSafe
BY EachComponentRuns, WireSafe, DoPSafe, PTL DEF CodingSafe

-----------------------------------------------------------------------------
(* SDPParser                                                                *)

\* The same of the program's sessions and files beside all the other components.
THEOREM SessionsSurvive == ServicesSpec => []SdpSafe
BY EachComponentRuns, DescriptionsHold, PTL

-----------------------------------------------------------------------------
(* StreamConfigFile                                                         *)

\* What StreamConfig saves is loaded, beside all the other components.
THEOREM FilesSurvive == ServicesSpec => []ConfigSafe
BY EachComponentRuns, SavedIsLoaded, PTL
=============================================================================
