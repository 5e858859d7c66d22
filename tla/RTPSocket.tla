------------------------------- MODULE RTPSocket -------------------------------
(***************************************************************************)
(* RTP::RTPSocket: one descriptor, opened as a receiver or a transmitter in  *)
(* steps each of which may fail, used, and closed.  The kernel's side is the *)
(* set of open descriptors and what each of them has joined.                 *)
(***************************************************************************)
EXTENDS Integers, FiniteSets

CONSTANTS Groups,      \* multicast addresses
          Ifaces,      \* interface addresses; AnyIface for nullptr
          AnyIface,
          MaxFds       \* bound: descriptors the kernel hands out

ASSUME SocketAssumption == AnyIface \in Ifaces /\ MaxFds \in Nat

VARIABLES sockfd,        \* sockfd_; 0 for -1
          isReceiver,    \* isReceiver_
          multicastAddr, \* multicastAddr_, "zero" at first
          boundIface,    \* boundInterfaceAddr_, "zero" at first
          openFds,       \* the kernel: descriptor -> [group, iface] joined, or "none"
          nextFd,        \* the kernel: the next descriptor
          opening,       \* what open call is under way: [receiver, group, iface, step]
          dropFailed,    \* history: an IP_DROP_MEMBERSHIP failed
          reopened       \* history: an open call found a descriptor open

socketVars == <<sockfd, isReceiver, multicastAddr, boundIface, openFds, nextFd, opening,
                dropFailed, reopened>>

NoCall == [receiver |-> FALSE, group |-> "zero", iface |-> AnyIface, step |-> "none"]
NotJoined == [group |-> "zero", iface |-> "zero"]

SocketInit ==
  /\ sockfd = 0 /\ isReceiver = FALSE /\ multicastAddr = "zero" /\ boundIface = "zero"
  /\ openFds = [f \in {} |-> NotJoined] /\ nextFd = 1
  /\ opening = NoCall /\ dropFailed = FALSE /\ reopened = FALSE

KeptFds(fds, drop) == [f \in DOMAIN fds \ drop |-> fds[f]]

-----------------------------------------------------------------------------
\* socket() of openReceiver() or openTransmitter(): sockfd_ is overwritten
\* whether or not it is open.
Socket(receiver, group, iface) ==
  /\ opening = NoCall /\ nextFd <= MaxFds
  /\ \/ /\ sockfd' = nextFd /\ nextFd' = nextFd + 1
        /\ openFds' = [f \in DOMAIN openFds \cup {nextFd} |->
                         IF f = nextFd THEN NotJoined ELSE openFds[f]]
        /\ opening' = [receiver |-> receiver, group |-> group, iface |-> iface,
                       step |-> IF receiver THEN "bind" ELSE "ttl"]
     \/ sockfd' = 0 /\ UNCHANGED <<nextFd, openFds, opening>>
  /\ reopened' = (reopened \/ sockfd # 0)
  /\ UNCHANGED <<isReceiver, multicastAddr, boundIface, dropFailed>>

\* Fault: an error path forgets the descriptor without closing it.
LeakyFail ==
  /\ opening.step \in {"bind", "iface", "join", "ttl", "txiface"}
  /\ sockfd' = 0 /\ opening' = NoCall
  /\ UNCHANGED <<isReceiver, multicastAddr, boundIface, openFds, nextFd, dropFailed, reopened>>

\* A failing option, bind or join closes the descriptor and ends the call.
Fail ==
  /\ opening.step \in {"bind", "iface", "join", "ttl", "txiface"}
  /\ openFds' = KeptFds(openFds, {sockfd}) /\ sockfd' = 0 /\ opening' = NoCall
  /\ UNCHANGED <<isReceiver, multicastAddr, boundIface, nextFd, dropFailed, reopened>>

\* The two reuse options and bind; then the interface is remembered, before
\* the group is joined on it.  Without an interface IP_MULTICAST_IF is left out.
Bind ==
  /\ opening.step = "bind"
  /\ boundIface' = opening.iface
  /\ opening' = [opening EXCEPT !.step = IF opening.iface = AnyIface THEN "join" ELSE "iface"]
  /\ UNCHANGED <<sockfd, isReceiver, multicastAddr, openFds, nextFd, dropFailed, reopened>>

SetInterface ==
  /\ opening.step = "iface" /\ opening' = [opening EXCEPT !.step = "join"]
  /\ UNCHANGED <<sockfd, isReceiver, multicastAddr, boundIface, openFds, nextFd, dropFailed, reopened>>

\* Fault: the group is joined on any interface.
JoinAnywhereGroup ==
  /\ opening.step = "join"
  /\ openFds' = [openFds EXCEPT ![sockfd] = [group |-> opening.group, iface |-> AnyIface]]
  /\ isReceiver' = TRUE /\ multicastAddr' = opening.group /\ opening' = NoCall
  /\ UNCHANGED <<sockfd, boundIface, nextFd, dropFailed, reopened>>

\* Fault: the interface is remembered as the group.
JoinMixedUp ==
  /\ opening.step = "join"
  /\ openFds' = [openFds EXCEPT ![sockfd] = [group |-> opening.group, iface |-> boundIface]]
  /\ isReceiver' = TRUE /\ multicastAddr' = boundIface /\ opening' = NoCall
  /\ UNCHANGED <<sockfd, boundIface, nextFd, dropFailed, reopened>>

\* IP_ADD_MEMBERSHIP; what follows in openReceiver() is not checked.
JoinGroup ==
  /\ opening.step = "join"
  /\ openFds' = [openFds EXCEPT ![sockfd] = [group |-> opening.group, iface |-> boundIface]]
  /\ isReceiver' = TRUE /\ multicastAddr' = opening.group /\ opening' = NoCall
  /\ UNCHANGED <<sockfd, boundIface, nextFd, dropFailed, reopened>>

\* openTransmitter(): the TTL, then the interface if there is one.
TransmitterReady ==
  /\ isReceiver' = FALSE /\ multicastAddr' = opening.group /\ opening' = NoCall
SetTtl ==
  /\ opening.step = "ttl"
  /\ IF opening.iface = AnyIface THEN TransmitterReady
     ELSE opening' = [opening EXCEPT !.step = "txiface"] /\ UNCHANGED <<isReceiver, multicastAddr>>
  /\ UNCHANGED <<sockfd, boundIface, openFds, nextFd, dropFailed, reopened>>
SetTxInterface ==
  /\ opening.step = "txiface" /\ TransmitterReady
  /\ UNCHANGED <<sockfd, boundIface, openFds, nextFd, dropFailed, reopened>>

\* close(), also from the destructor: a receiver leaves the group it believes
\* to be in, which fails if it is in another or on another interface.
CloseSocket ==
  /\ opening = NoCall /\ sockfd # 0
  /\ dropFailed' = (dropFailed \/ (isReceiver /\
       openFds[sockfd] # [group |-> multicastAddr, iface |-> boundIface]))
  /\ openFds' = KeptFds(openFds, {sockfd}) /\ sockfd' = 0
  /\ UNCHANGED <<isReceiver, multicastAddr, boundIface, nextFd, opening, reopened>>

SocketNext ==
  \/ \E r \in BOOLEAN, g \in Groups, i \in Ifaces : Socket(r, g, i)
  \/ Fail \/ Bind \/ SetInterface \/ JoinGroup \/ SetTtl \/ SetTxInterface
  \/ CloseSocket

SocketSpec == SocketInit /\ [][SocketNext]_socketVars

-----------------------------------------------------------------------------
\* send() and receive() only touch the descriptor in these states.
MaySend    == sockfd # 0 /\ ~isReceiver /\ opening = NoCall
MayReceive == sockfd # 0 /\ isReceiver /\ opening = NoCall

\* The socket's state keeps its types.
SocketTypeOK ==
  /\ sockfd \in 0 .. MaxFds /\ isReceiver \in BOOLEAN /\ multicastAddr \in Groups \cup {"zero"}
  /\ boundIface \in Ifaces \cup {"zero"} /\ DOMAIN openFds \subseteq 1 .. nextFd - 1

\* However an open call fails, it leaves no descriptor behind; and an open one
\* is the one the object holds, unless an open call was made over it.
NoDescriptorLeaks ==
  /\ sockfd # 0 => sockfd \in DOMAIN openFds
  /\ ~reopened => DOMAIN openFds \subseteq {sockfd}

\* A socket that receives is a member of the group it was opened for, one that
\* sends is not, and the group is left on the interface it was joined on, also
\* after failed calls have changed what the object remembers.
MembershipMatches ==
  /\ MayReceive => openFds[sockfd] = [group |-> multicastAddr, iface |-> boundIface]
  /\ MaySend => openFds[sockfd] = NotJoined
  /\ ~dropFailed

\* No descriptor is ever left behind.  Violated: an open call on an object
\* that is already open overwrites sockfd_, and the old socket stays open and
\* in its group until the process ends.
NoDescriptorLeaksEver == DOMAIN openFds \subseteq {sockfd}
=============================================================================
