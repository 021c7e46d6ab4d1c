----------------------------- MODULE IcmpSocket -----------------------------
(***************************************************************************)
(* The world outside PingScanner: one unprivileged, non-blocking ICMP      *)
(* datagram socket, the epoll instance that watches it edge-triggered, and *)
(* the network behind it.  None of this is code of the repository: it is   *)
(* modelled from the way src/src/ping_scanner.cpp uses the system calls.   *)
(*                                                                         *)
(* Time is kept as ages: every timestamp the scanner compares with the     *)
(* clock is represented by the time elapsed since it was taken, by that    *)
(* very clock, CLOCK_REALTIME.  It saturates at MaxAge, and at 0 where the *)
(* clock was set back behind the timestamp.                                *)
(***************************************************************************)
EXTENDS Integers, Sequences, FiniteSets

CONSTANTS
  SndCap,       \* requests the socket send buffer holds (SO_SNDBUF)
  RcvCap,       \* datagrams the socket receive buffer holds (SO_RCVBUF)
  ReplyKinds,   \* kinds of datagrams the network may answer with
  MaxDups,      \* bound: datagrams the network delivers twice
  KernelStamps, \* the kernel stamps datagrams on arrival (SO_TIMESTAMPNS)
  MaxSetBacks,  \* bound: times the clock is set back
  MaxAge        \* bound: ages saturate here

\* "echo"    an echo reply from the very address that was probed;
\* "foreign" an echo reply whose source is not the address in its payload;
\* "short"   a whole ICMP header, but less than the PingPayload behind it;
\* "other"   some other ICMP message, long enough;
\* "runt"    less than an ICMP header.
AllReplyKinds == {"echo", "foreign", "short", "other", "runt"}

ASSUME SocketAssumption ==
  /\ SndCap \in Nat \ {0}
  /\ RcvCap \in Nat \ {0}
  /\ ReplyKinds \subseteq AllReplyKinds
  /\ MaxDups \in Nat
  /\ KernelStamps \in BOOLEAN
  /\ MaxSetBacks \in Nat
  /\ MaxAge \in Nat \ {0}

VARIABLES
  txq,       \* requests in the send buffer: set of [target, age]
  net,       \* replies under way: set of [target, kind, age]
  rxq,       \* the receive buffer: sequence of [target, kind, age, drops]
  rxdrops,   \* datagrams dropped because rxq was full (SO_RXQ_OVFL)
  dups,      \* datagrams duplicated so far
  setbacks,  \* times the clock was set back so far
  interest,  \* the events the socket is registered for in epoll
  ready      \* the socket is on epoll's ready list: an edge not yet consumed

socketVars == <<txq, net, rxq, rxdrops, dups, setbacks, interest, ready>>

Ages == 0 .. MaxAge

\* The age of a timestamp once the clock has moved by d.
Moved(age, d) ==
  IF age + d > MaxAge THEN MaxAge ELSE IF age + d < 0 THEN 0 ELSE age + d

SocketInit ==
  /\ txq = {}
  /\ net = {}
  /\ rxq = <<>>
  /\ rxdrops = 0
  /\ dups = 0
  /\ setbacks = 0
  /\ interest = {"IN"}
  /\ ready = FALSE

-----------------------------------------------------------------------------
(* What the scanner's system calls see and do.                             *)

\* sendmmsg answers EAGAIN.
SendBufferFull == Cardinality(txq) >= SndCap

\* The kernel reports a socket writable once its send buffer is half free.
Writable(queue) == 2 * Cardinality(queue) < SndCap

\* The level of the socket: what poll would answer now.
Level == (IF rxq # <<>> THEN {"IN"} ELSE {}) \cup
         (IF Writable(txq) THEN {"OUT"} ELSE {})

\* The events epoll_wait returns: only a socket on the ready list is looked
\* at, and only the events that still hold are reported.
EpollEvents == IF ready THEN Level \cap interest ELSE {}

\* epoll_ctl(EPOLL_CTL_MOD) replaces the interest and looks at the level anew,
\* so an edge that was consumed while the level held is raised again.
EpollModify(events) ==
  /\ interest' = events
  /\ ready' = (Level \cap events # {})

\* recvmmsg(MSG_DONTWAIT) takes up to n datagrams; a count below n means the
\* buffer was found empty.
Received(n) == IF Len(rxq) < n THEN Len(rxq) ELSE n

-----------------------------------------------------------------------------
(* Steps of the network and the kernel.                                    *)

\* A request leaves the send buffer; the host behind it answers or does not.
\* Freeing the buffer wakes a waiter for EPOLLOUT.
Transmit(request) ==
  /\ txq' = txq \ {request}
  /\ \/ net' = net
     \/ \E kind \in ReplyKinds :
          net' = net \cup {[target |-> request.target, kind |-> kind,
                            age |-> request.age]}
  /\ ready' = (ready \/ ("OUT" \in interest /\ Writable(txq')))
  /\ UNCHANGED <<rxq, rxdrops, dups, setbacks, interest>>

\* A datagram reaches the receive buffer, is stamped there, carries the drop
\* count of that moment and raises EPOLLIN.  It may have a duplicate behind it.
Deliver(reply) ==
  /\ Len(rxq) < RcvCap
  /\ rxq' = Append(rxq, [target |-> reply.target, kind |-> reply.kind,
                         age |-> reply.age, drops |-> rxdrops])
  /\ ready' = TRUE
  /\ \/ net' = net \ {reply} /\ dups' = dups
     \/ net' = net /\ dups < MaxDups /\ dups' = dups + 1
  /\ UNCHANGED <<txq, rxdrops, setbacks, interest>>

\* A datagram finds the receive buffer full.
Overflow(reply) ==
  /\ Len(rxq) >= RcvCap
  /\ net' = net \ {reply}
  /\ rxdrops' = rxdrops + 1
  /\ UNCHANGED <<txq, rxq, dups, setbacks, interest, ready>>

\* A datagram the kernel stamped keeps the age it had then; another one is only
\* stamped when it is looked at, and ages until then.
Aged(datagrams, d) ==
  IF KernelStamps THEN datagrams
  ELSE [i \in DOMAIN datagrams |-> [datagrams[i] EXCEPT !.age = Moved(@, d)]]

\* The clock moves under every request and reply on its way.
SocketClock(d) ==
  /\ txq' = {[request EXCEPT !.age = Moved(@, d)] : request \in txq}
  /\ net' = {[reply EXCEPT !.age = Moved(@, d)] : reply \in net}
  /\ rxq' = Aged(rxq, d)
  /\ UNCHANGED <<rxdrops, dups, interest, ready>>

=============================================================================
