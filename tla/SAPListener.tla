----------------------------- MODULE SAPListener -----------------------------
(***************************************************************************)
(* NetworkEngine/Discovery/SAPListener: a listener thread receives SAP        *)
(* packets, keeps the sessions it has heard of, and calls the registered      *)
(* callbacks.  The owner initializes, starts and stops it.  recvfrom() has    *)
(* no timeout: it waits for a packet or for an error of its descriptor.       *)
(***************************************************************************)
EXTENDS Integers, Sequences, FiniteSets

CONSTANTS SapHeaders,       \* what is in front of the SDP, and its lengths
          SapTexts,         \* SDP texts: sequences of [key, value] lines
          SapSources,       \* addresses of senders
          MaxDiscovered     \* discoveredStreams_ keeps 50

ASSUME SAPAssumption == MaxDiscovered \in Nat \ {0}

VARIABLES
  sapRunning, sock,   \* sock: "none", "open", or "stale" (closed, still named)
  lPc,                \* listener thread: "off", "recv", "store", "notify"
  sapCtl,             \* owner: "idle" or "join"
  packet,             \* the announcement in hand
  discovered,         \* discoveredStreams_, oldest first
  heard,              \* sessions announced since they were last stored, or ever
  notified            \* the last announcement the callbacks were given

sapVars == <<sapRunning, sock, lPc, sapCtl, packet, discovered, heard, notified>>

Nothing == <<>>

-----------------------------------------------------------------------------
(* parseSAPAnnouncement()                                                   *)

\* Version 1, an announcement and not a deletion, neither encrypted nor
\* compressed, and room for an SDP behind the authentication data.
Accepts(h) ==
  /\ h.version = 1 /\ ~h.deletion /\ ~h.coded
  /\ h.length \in 4 .. 4096 /\ h.length - (8 + 4 * h.authLen) >= 5

\* parseSDPInfo(): of each kind of line the last one counts, however often it
\* occurs; a line too short for its field ("short") is passed over.
LastLine(text, key, none) ==
  LET found == SelectSeq(text, LAMBDA l : l.key = key /\ l.value # "short")
  IN  IF found = <<>> THEN none ELSE found[Len(found)].value

\* What a text from a source announces.  A port that is no number is 0.
Announced(text, source) ==
  [session |-> <<LastLine(text, "s", "unnamed"), source>>,
   content |-> <<LastLine(text, "c", "nowhere"), LastLine(text, "m", "0")>>]

\* Only a text with "v=0" in it is a description.
IsSdp(text) == \E i \in DOMAIN text : text[i].key = "v"

Announcements == {Announced(t, s) : t \in {x \in SapTexts : IsSdp(x)}, s \in SapSources}

SapInit ==
  /\ sapRunning = FALSE /\ sock = "none" /\ lPc = "off" /\ sapCtl = "idle"
  /\ packet = Nothing /\ discovered = <<>> /\ heard = {} /\ notified = Nothing

\* initialize(): a failure after socket() closes the descriptor and keeps its
\* number in sockFd_.
Initialize ==
  /\ sapCtl = "idle" /\ ~sapRunning /\ sock # "open"
  /\ sock' \in {"none", "open", "stale"}
  /\ UNCHANGED <<sapRunning, lPc, sapCtl, packet, discovered, heard, notified>>

\* start() does not ask whether initialize() succeeded.
StartListening ==
  /\ sapCtl = "idle" /\ ~sapRunning
  /\ sapRunning' = TRUE /\ lPc' = "recv"
  /\ UNCHANGED <<sock, sapCtl, packet, discovered, heard, notified>>

\* stop(): joins the listener first, closes the socket after.
StopListening ==
  /\ sapCtl = "idle" /\ sapRunning
  /\ sapRunning' = FALSE /\ sapCtl' = "join"
  /\ UNCHANGED <<sock, lPc, packet, discovered, heard, notified>>

JoinListener ==
  /\ sapCtl = "join" /\ lPc = "off"
  /\ sapCtl' = "idle" /\ sock' = "none"
  /\ UNCHANGED <<sapRunning, lPc, packet, discovered, heard, notified>>

-----------------------------------------------------------------------------
\* Fault: the loop does not look at the flag.
LoopForever == "recv"

Loop == IF sapRunning THEN "recv" ELSE "off"

\* recvfrom() gives a packet that announces something.
ReceiveAnnouncement(h, text, source) ==
  /\ lPc = "recv" /\ sock = "open" /\ Accepts(h) /\ IsSdp(text)
  /\ packet' = Announced(text, source) /\ lPc' = "store"
  /\ UNCHANGED <<sapRunning, sock, sapCtl, discovered, heard, notified>>

\* It gives any other packet, or an error: at once without a descriptor.
ReceiveNothing ==
  /\ lPc = "recv" /\ lPc' = Loop
  /\ \/ sock # "open"
     \/ \E h \in SapHeaders, t \in SapTexts : ~(Accepts(h) /\ IsSdp(t))
  /\ UNCHANGED <<sapRunning, sock, sapCtl, packet, discovered, heard, notified>>

SameSession(a, b) == a.session = b.session
\* Fault: a session is known when its whole announcement is.
KnownContent(a) == \E i \in DOMAIN discovered : discovered[i] = a

Known(a) == \E i \in DOMAIN discovered : SameSession(discovered[i], a)

\* Fault: one session more than the list may hold.
StoreUnbounded ==
  /\ lPc = "store" /\ lPc' = "notify"
  /\ discovered' = IF Known(packet) THEN discovered ELSE Append(discovered, packet)
  /\ heard' = heard \cup {packet}
  /\ UNCHANGED <<sapRunning, sock, sapCtl, packet, notified>>

\* Fault: the oldest session goes whenever a new one comes.
StoreEager ==
  /\ lPc = "store" /\ lPc' = "notify"
  /\ discovered' = IF Known(packet) THEN discovered
                   ELSE IF discovered # <<>> THEN Append(Tail(discovered), packet)
                   ELSE <<packet>>
  /\ heard' = heard \cup {packet}
  /\ UNCHANGED <<sapRunning, sock, sapCtl, packet, notified>>

\* Under the mutex: a session heard before is left as it was first stored,
\* and the oldest goes when there are too many.
Store ==
  /\ lPc = "store" /\ lPc' = "notify"
  /\ discovered' = IF Known(packet) THEN discovered
                   ELSE IF Len(discovered) = MaxDiscovered
                   THEN Append(Tail(discovered), packet)
                   ELSE Append(discovered, packet)
  /\ heard' = heard \cup {packet}
  /\ UNCHANGED <<sapRunning, sock, sapCtl, packet, notified>>

\* Every callback, with the callbacks' mutex held: also for a known session.
Notify ==
  /\ lPc = "notify" /\ lPc' = Loop
  /\ notified' = packet /\ packet' = Nothing
  /\ UNCHANGED <<sapRunning, sock, sapCtl, discovered, heard>>

ListenerStep ==
  \/ \E h \in SapHeaders, t \in SapTexts, s \in SapSources : ReceiveAnnouncement(h, t, s)
  \/ Store \/ Notify

SapNext ==
  \/ Initialize \/ StartListening \/ StopListening \/ JoinListener
  \/ ListenerStep \/ ReceiveNothing

\* The owner's join and the listener's own steps are scheduled.  A packet that
\* ends recvfrom() is the network's to send: the fairness of ReceiveNothing
\* says that something always arrives again.
SapFairness == WF_sapVars(JoinListener) /\ WF_sapVars(Store) /\ WF_sapVars(Notify)
SapTraffic == WF_sapVars(ReceiveNothing)

SapSpec == SapInit /\ [][SapNext]_sapVars /\ SapFairness /\ SapTraffic
SapQuietSpec == SapInit /\ [][SapNext]_sapVars /\ SapFairness

-----------------------------------------------------------------------------
\* The listener's state keeps its types.
SapTypeOK ==
  /\ sapRunning \in BOOLEAN /\ sock \in {"none", "open", "stale"}
  /\ lPc \in {"off", "recv", "store", "notify"} /\ sapCtl \in {"idle", "join"}
  /\ packet \in Announcements \cup {Nothing}
  /\ discovered \in Seq(Announcements) /\ Len(discovered) <= MaxDiscovered

\* A session is listed once, with something it did announce, and a callback
\* is never told of a session that was not put into the list before.
ListedOnceAsHeard ==
  /\ \A i, j \in DOMAIN discovered : SameSession(discovered[i], discovered[j]) => i = j
  /\ \A i \in DOMAIN discovered : discovered[i] \in heard
  /\ notified # Nothing => notified \in heard

\* Nothing heard is lost while there is room: a session missing from the list
\* was pushed out by MaxDiscovered others.
MissingOnlyWhenFull ==
  \A a \in heard : Known(a) \/ Len(discovered) = MaxDiscovered

\* stop() returns as long as packets keep arriving on the group.
SapStopReturns == sapCtl = "join" ~> sapCtl = "idle"

\* "recently discovered streams" (SAPListener.h:43): the list has the latest
\* announcement of a session it holds.
ListIsCurrent ==
  lPc = "recv" /\ notified # Nothing =>
    \A i \in DOMAIN discovered :
      SameSession(discovered[i], notified) => discovered[i] = notified

\* The list of sessions is what was heard, once each, up to its limit.
SapSafe == SapTypeOK /\ ListedOnceAsHeard /\ MissingOnlyWhenFull
=============================================================================
