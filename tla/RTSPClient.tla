----------------------------- MODULE RTSPClient ------------------------------
(***************************************************************************)
(* NetworkEngine/Discovery/RTSPClient: stream control over one TCP           *)
(* connection, one call at a time.  A call sends a request and reads one     *)
(* answer from the socket, up to the receive timeout; it does not compare    *)
(* the answer's CSeq with the request's.  The server (external) answers in   *)
(* order, late if it likes, and may close the connection.                    *)
(***************************************************************************)
EXTENDS Integers, Sequences

CONSTANTS MaxCalls,   \* bound on the requests sent on one client
          NoSession   \* the empty sessionID_

ASSUME RTSPAssumption == MaxCalls \in Nat /\ NoSession \notin Int

VARIABLES
  socket,      \* "none", "open", or "closed" by the server
  cseq, sessionID,
  call,        \* the method under way, or "none"
  toServer, toClient,  \* requests and answers under way
  granted,     \* sessions the server has set up and not torn down
  answered,    \* <<request, request the answer it took belongs to>>
  timeouts     \* calls that gave up waiting on this connection

rtspVars == <<socket, cseq, sessionID, call, toServer, toClient,
              granted, answered, timeouts>>

SessionMethods == {"PLAY", "PAUSE", "TEARDOWN"}
Methods == SessionMethods \cup {"DESCRIBE", "SETUP"}

RtspInit ==
  /\ socket = "none" /\ cseq = 1 /\ sessionID = NoSession
  /\ call = "none"
  /\ toServer = <<>> /\ toClient = <<>> /\ granted = {}
  /\ answered = <<0, 0>> /\ timeouts = 0

\* connect(): at once when there is a socket, whatever became of its peer.
Connect ==
  /\ call = "none" /\ socket = "none" /\ socket' = "open"
  /\ UNCHANGED <<cseq, sessionID, call, toServer, toClient, granted,
                 answered, timeouts>>

\* sendRequest: numbers the request and sends it.
SendRequest(method) ==
  /\ call = "none" /\ socket # "none" /\ cseq <= MaxCalls
  /\ method \in SessionMethods => sessionID # NoSession
  /\ cseq' = cseq + 1
  /\ IF socket = "open"
     THEN /\ toServer' = Append(toServer,
                           [method |-> method, seq |-> cseq, session |-> sessionID])
          /\ call' = method
     ELSE UNCHANGED <<toServer, call>>       \* send() fails: the call returns
  /\ UNCHANGED <<socket, sessionID, toClient, granted, answered, timeouts>>

\* Fault: TEARDOWN keeps the session's name.
KeepsSession(ok, session) ==
  /\ call' = "none"
  /\ sessionID' = IF call = "SETUP" /\ ok /\ session # NoSession THEN session ELSE sessionID

\* What a call does with its answer, or with none (readResponse failed).
Finish(ok, session) ==
  /\ call' = "none"
  /\ sessionID' = CASE call = "SETUP" /\ ok /\ session # NoSession -> session
                    [] call = "TEARDOWN" -> NoSession
                    [] OTHER -> sessionID

\* Fault: an answer is read and left in the socket.
PeekAnswer ==
  /\ call # "none" /\ toClient # <<>>
  /\ Finish(Head(toClient).ok, Head(toClient).session)
  /\ answered' = <<cseq - 1, Head(toClient).seq>>
  /\ UNCHANGED <<socket, cseq, toServer, toClient, granted, timeouts>>

ReadAnswer ==
  /\ call # "none" /\ toClient # <<>>
  /\ Finish(Head(toClient).ok, Head(toClient).session)
  /\ answered' = <<cseq - 1, Head(toClient).seq>>
  /\ toClient' = Tail(toClient)
  /\ UNCHANGED <<socket, cseq, toServer, granted, timeouts>>

\* Fault: a call does not end when it has timed out.
KeepsAsking ==
  /\ call # "none" /\ toClient = <<>>
  /\ timeouts' = timeouts + 1
  /\ UNCHANGED <<socket, cseq, sessionID, call, toServer, toClient, granted, answered>>

\* recv() gives nothing before the timeout, or the server has closed.  The
\* socket is kept, so the next call goes out on it.
NoAnswer ==
  /\ call # "none" /\ toClient = <<>>
  /\ Finish(FALSE, NoSession)
  /\ timeouts' = timeouts + 1
  /\ UNCHANGED <<socket, cseq, toServer, toClient, granted, answered>>

\* disconnect(), from the destructor; the next client starts afresh.
Disconnect ==
  /\ call = "none" /\ socket # "none"
  /\ socket' = "none" /\ sessionID' = NoSession /\ cseq' = 1
  /\ toServer' = <<>> /\ toClient' = <<>> /\ granted' = {}
  /\ answered' = <<0, 0>> /\ timeouts' = 0
  /\ UNCHANGED call

-----------------------------------------------------------------------------
(* The server: a session is named by the number of the SETUP it grants      *)

Serve(ok) ==
  /\ socket = "open" /\ toServer # <<>>
  /\ LET r == Head(toServer)
         grants == ok /\ r.method = "SETUP"
     IN  /\ toClient' = Append(toClient,
              [seq |-> r.seq, ok |-> ok, session |-> IF grants THEN r.seq ELSE NoSession])
         /\ granted' = IF grants THEN granted \cup {r.seq}
                       ELSE IF ok /\ r.method = "TEARDOWN" THEN granted \ {r.session}
                       ELSE granted
  /\ toServer' = Tail(toServer)
  /\ UNCHANGED <<socket, cseq, sessionID, call, answered, timeouts>>

ServerCloses ==
  /\ socket = "open" /\ socket' = "closed"
  /\ toServer' = <<>> /\ granted' = {}
  /\ UNCHANGED <<cseq, sessionID, call, toClient, answered, timeouts>>

RtspNext ==
  \/ Connect \/ Disconnect \/ ReadAnswer \/ NoAnswer \/ ServerCloses
  \/ \E m \in Methods : SendRequest(m)
  \/ \E ok \in BOOLEAN : Serve(ok)

RtspSpec == RtspInit /\ [][RtspNext]_rtspVars

-----------------------------------------------------------------------------
\* The client's state keeps its types.
RtspTypeOK ==
  /\ socket \in {"none", "open", "closed"}
  /\ cseq \in 1 .. MaxCalls + 1 /\ sessionID \in 1 .. MaxCalls \cup {NoSession}
  /\ call \in Methods \cup {"none"}
  /\ granted \subseteq 1 .. MaxCalls
  /\ timeouts \in 0 .. MaxCalls

\* As long as no call on the connection gave up waiting, every call takes the
\* answer to its own request, although nobody compares the numbers; with
\* timeouts it can be that many answers behind, never ahead.
AnswersLagByTimeouts ==
  answered[2] <= answered[1] /\ answered[1] - answered[2] <= timeouts

\* And then the session the client names is one the server holds, however
\* its SETUPs and TEARDOWNs were answered: PLAY never names a dead session.
SessionIsLive ==
  timeouts = 0 /\ socket = "open" /\ call = "none" =>
    sessionID = NoSession \/ sessionID \in granted

\* "Get last response" / PLAY "return response && response->isSuccess()"
\* (RTSPClient.cpp:101): a call returns by the answer to its own request.
AnswerIsOwn == answered[1] = answered[2]
=============================================================================
