------------------------------ MODULE TcpProof ------------------------------
(* TcpScanner's invariants, for every value of its constants.              *)
EXTENDS TcpProperties, FiniteSetTheorems, SequenceTheorems, TLAPS

-----------------------------------------------------------------------------
(* The inductive invariant                                                 *)

\* Events are kept only while they are handled, so that a slot is filled anew only
\* when none is left.
EventsFresh == pc # "events" => events = <<>>

\* The host that a connection is being made for, or else the next one.
Frontier == IF Trying THEN Tried ELSE next_host_idx

\* Whatever became of a host, the scanner is done with trying it.
Passed ==
  /\ \A s \in ActiveSlots : probe_table[s].dest < Frontier
  /\ \A h \in failed \cup expired : h < Frontier
  /\ \A i \in DOMAIN scan_results : scan_results[i].host < Frontier

\* What initiate_single_connection works at: a socket epoll does not know of yet, for a
\* host that is not reserved, with room for one probe more.
Attempt ==
  Trying =>
    /\ sock \in Fds /\ conn[sock].slot = NoSlot
    /\ active_probes < MaxProbes
    /\ Tried \in Hosts \ LocalReserved

\* What must hold of the slots: none of its conjuncts is inductive without the others.
SlotInv ==
  /\ TypeOK
  /\ ActiveCount
  /\ SocketsOwned
  /\ Attempt
  /\ EventsCurrent
  /\ EventsFresh

-----------------------------------------------------------------------------
(* Constants, slots and connections                                        *)

\* The limits the constructor clamps are natural numbers, and ages stay ages.
LEMMA Sizes ==
  /\ MaxProbes \in Nat /\ BatchSize \in Nat
  /\ IsFiniteSet(Slots)
  /\ MaxAge \in Nat /\ 0 \in Ages
  /\ \A age \in Ages, d \in Int : Moved(age, d) \in Ages
<1>1. MaxProbes \in Nat /\ BatchSize \in Nat
  BY TcpAssumption DEF MaxProbes, BatchSize, Smaller
<1>2. IsFiniteSet(Slots)
  BY <1>1, FS_Interval DEF Slots
<1>3. MaxAge \in Nat /\ 0 \in Ages /\ \A age \in Ages, d \in Int : Moved(age, d) \in Ages
  BY TcpAssumption DEF Ages, Moved
<1> QED BY <1>1, <1>2, <1>3

\* Whichever way the clock goes, it goes the same for every probe.
LEMMA ClockSteps ==
  ASSUME Tick \/ SetBack, TypeOK
  PROVE  \E d \in Int : ClockMoves(d) /\ setbacks' \in 0 .. MaxSetBacks
<1>1. CASE Tick
  BY <1>1 DEF Tick, TypeOK
<1>2. CASE SetBack
  <2>1. PICK d \in 1 .. MaxAge : ClockMoves(-d)
    BY <1>2 DEF SetBack
  <2>2. -d \in Int /\ setbacks' \in 0 .. MaxSetBacks
    BY <1>2, Sizes, TcpAssumption DEF SetBack, TypeOK
  <2> QED BY <2>1, <2>2
<1> QED BY <1>1, <1>2

\* A set of slots is finite, and so has a size.
LEMMA SlotSets ==
  ASSUME NEW S \in SUBSET Slots
  PROVE  IsFiniteSet(S) /\ Cardinality(S) \in Nat
BY Sizes, FS_Subset, FS_CardinalityType

\* A slot without a probe, and a descriptor without a socket, are of their types.
LEMMA FreeTypes ==
  /\ \A s \in Slots : FreeProbe \in Probes
  /\ NoConn \in Connections
  /\ NoFd \notin Fds /\ NoSlot \notin Slots
<1>1. ASSUME NEW s \in Slots PROVE FreeProbe \in Probes
  BY Sizes, TcpAssumption DEF FreeProbe, Probes, Slots, Hosts, MaxProbes, Smaller
<1>2. NoConn \in Connections
  BY Sizes DEF NoConn, Connections, ConnStates
<1>3. NoFd \notin Fds /\ NoSlot \notin Slots
  BY DEF NoFd, Fds, NoSlot, Slots
<1> QED BY <1>1, <1>2, <1>3

\* Each probe has an open socket to itself: the registration tells them apart.
LEMMA OwnSockets ==
  ASSUME SocketsOwned
  PROVE  /\ \A s \in ActiveSlots : /\ probe_table[s].sock \in Fds
                                   /\ conn[probe_table[s].sock].state # "none"
                                   /\ conn[probe_table[s].sock].slot = s
         /\ \A s, t \in ActiveSlots : probe_table[s].sock = probe_table[t].sock => s = t
<1>1. \A s \in ActiveSlots : probe_table[s].sock \in OpenFds
  BY DEF SocketsOwned, ProbeFds
<1>2. \A s \in ActiveSlots : conn[probe_table[s].sock].slot = s
  BY DEF SocketsOwned
<1> QED BY <1>1, <1>2 DEF OpenFds

\* The three places that close sockets take the slots out of the table, and their
\* number off the count.
LEMMA ClosedSlots ==
  ASSUME TypeOK, ActiveCount, NEW S, S \subseteq ActiveSlots, CloseSlots(S)
  PROVE  /\ \A s \in Slots : probe_table'[s] = IF s \in S THEN FreeProbe ELSE probe_table[s]
         /\ \A fd \in Fds : conn'[fd] = IF fd \in {probe_table[s].sock : s \in S} THEN NoConn
                                        ELSE conn[fd]
         /\ probe_table' \in [Slots -> Probes]
         /\ conn' \in [Fds -> Connections]
         /\ ActiveSlots' = ActiveSlots \ S
         /\ ActiveCount'
         /\ active_probes' \in 0 .. active_probes
<1> DEFINE fds == {probe_table[s].sock : s \in S}
<1>1. /\ \A s \in Slots : probe_table'[s] = IF s \in S THEN FreeProbe ELSE probe_table[s]
      /\ \A fd \in Fds : conn'[fd] = IF fd \in fds THEN NoConn ELSE conn[fd]
  BY DEF CloseSlots, TableWithout, ConnWithout
<1>2. probe_table' \in [Slots -> Probes]
  BY FreeTypes DEF CloseSlots, TableWithout, TypeOK
<1> HIDE DEF fds
<1>3. conn' \in [Fds -> Connections]
  <2>1. conn' = [fd \in Fds |-> IF fd \in fds THEN NoConn ELSE conn[fd]]
    BY DEF CloseSlots, ConnWithout, fds
  <2> QED BY <2>1, FreeTypes DEF TypeOK
<1>4. ActiveSlots' = ActiveSlots \ S
  BY <1>1 DEF ActiveSlots, FreeProbe
<1>5. /\ Cardinality(ActiveSlots \ S) = Cardinality(ActiveSlots) - Cardinality(S)
      /\ Cardinality(S) \in Nat /\ Cardinality(ActiveSlots) \in Nat
      /\ Cardinality(S) <= Cardinality(ActiveSlots)
  <2>1. ActiveSlots \in SUBSET Slots /\ S \in SUBSET Slots /\ ActiveSlots \cap S = S
    BY DEF ActiveSlots
  <2> QED BY <2>1, SlotSets, FS_Difference, FS_Subset
<1>6. active_probes' = active_probes - Cardinality(S)
  BY DEF CloseSlots, Count
<1> QED BY <1>1, <1>2, <1>3, <1>4, <1>5, <1>6 DEF ActiveCount, fds

\* A slot that was active keeps its probe, and its connection, as long as nobody
\* closes it.
LEMMA ClockKeepsProbes ==
  ASSUME TypeOK, NEW d \in Int, ClockMoves(d)
  PROVE  /\ probe_table' \in [Slots -> Probes]
         /\ \A s \in Slots : /\ probe_table'[s].active = probe_table[s].active
                             /\ probe_table'[s].dest = probe_table[s].dest
                             /\ probe_table'[s].sock = probe_table[s].sock
         /\ ActiveSlots' = ActiveSlots
<1>1. \A s \in Slots : probe_table[s] \in Probes
  BY DEF TypeOK
<1>2. \A s \in Slots : Moved(probe_table[s].age, d) \in Ages
  BY <1>1, Sizes DEF Probes
<1>3. /\ probe_table' \in [Slots -> Probes]
      /\ \A s \in Slots : /\ probe_table'[s].active = probe_table[s].active
                          /\ probe_table'[s].dest = probe_table[s].dest
                          /\ probe_table'[s].sock = probe_table[s].sock
  BY <1>1, <1>2 DEF ClockMoves, Probes
<1> QED BY <1>3 DEF ActiveSlots

\* What a connection attempt that was made leaves.
LEMMA ConnectedSlot ==
  ASSUME TypeOK, ActiveCount, Attempt, Register
  PROVE  \E slot \in Slots :
           /\ ~ probe_table[slot].active
           /\ \A s \in Slots :
                probe_table'[s] = IF s = slot
                  THEN [active |-> TRUE, dest |-> Tried, sock |-> sock, age |-> 0]
                  ELSE probe_table[s]
           /\ \A fd \in Fds : /\ conn'[fd].state = conn[fd].state
                              /\ conn'[fd].slot = IF fd = sock THEN slot ELSE conn[fd].slot
           /\ probe_table' \in [Slots -> Probes]
           /\ conn' \in [Fds -> Connections]
           /\ ActiveSlots' = ActiveSlots \cup {slot} /\ slot \notin ActiveSlots
           /\ ActiveCount'
<1>1. PICK slot \in Slots :
        /\ Available(slot)
        /\ probe_table' = [probe_table EXCEPT ![slot] =
                             [active |-> TRUE, dest |-> Tried, sock |-> sock, age |-> 0]]
        /\ conn' = [conn EXCEPT ![sock].slot = slot]
  BY DEF Register
<1>2. slot \notin ActiveSlots /\ ~ probe_table[slot].active
  BY <1>1 DEF Available, FreeSlots, ActiveSlots
<1>3. Tried \in Hosts /\ sock \in Fds
  BY DEF Register, Attempt, Trying
<1>4. /\ \A s \in Slots :
           probe_table'[s] = IF s = slot
             THEN [active |-> TRUE, dest |-> Tried, sock |-> sock, age |-> 0]
             ELSE probe_table[s]
      /\ probe_table' \in [Slots -> Probes]
  BY <1>1, <1>3, Sizes DEF TypeOK, Probes
<1>5. /\ \A fd \in Fds : /\ conn'[fd].state = conn[fd].state
                         /\ conn'[fd].slot = IF fd = sock THEN slot ELSE conn[fd].slot
      /\ conn' \in [Fds -> Connections]
  BY <1>1, <1>3 DEF TypeOK, Connections
<1>6. ActiveSlots' = ActiveSlots \cup {slot}
  BY <1>4 DEF ActiveSlots
<1>7. ActiveCount'
  <2>1. IsFiniteSet(ActiveSlots)
    BY SlotSets DEF ActiveSlots
  <2>2. Cardinality(ActiveSlots') = Cardinality(ActiveSlots) + 1
    BY <1>2, <1>6, <2>1, FS_AddElement
  <2> QED BY <2>2 DEF Register, ActiveCount
<1> QED BY <1>1, <1>2, <1>4, <1>5, <1>6, <1>7

\* The descriptor that socket returns was free, and becomes that of a fresh socket.
LEMMA OpenedSocket ==
  ASSUME TypeOK, OpenSocket
  PROVE  /\ sock' \in Fds /\ sock' \notin OpenFds
         /\ OpenFds' = OpenFds \cup {sock'}
         /\ conn' \in [Fds -> Connections]
         /\ conn'[sock'].slot = NoSlot
         /\ \A fd \in OpenFds : conn'[fd] = conn[fd]
<1> DEFINE fresh == [NoConn EXCEPT !.state = "fresh"]
<1>1. /\ sock' \in Fds /\ conn[sock'].state = "none"
      /\ conn' = [conn EXCEPT ![sock'] = fresh]
  BY DEF OpenSocket, FreeFds
<1>2. fresh \in Connections /\ fresh.slot = NoSlot /\ fresh.state = "fresh"
  BY FreeTypes DEF NoConn, Connections, ConnStates
<1> HIDE DEF fresh
<1>3. conn' \in [Fds -> Connections]
      /\ \A fd \in Fds : conn'[fd] = IF fd = sock' THEN fresh ELSE conn[fd]
  BY <1>1, <1>2 DEF TypeOK
<1> QED BY <1>1, <1>2, <1>3 DEF OpenFds

\* Whichever call failed, the socket is closed and the host let go.
AttemptFails == SetNonBlockingFails \/ ConnectFails \/ RegisterFails

LEMMA FailedAttempt ==
  ASSUME TypeOK, AttemptFails
  PROVE  /\ LetGo /\ Trying
         /\ conn' \in [Fds -> Connections]
         /\ \A fd \in Fds : conn'[fd] = IF fd = sock THEN NoConn ELSE conn[fd]
<1>1. LetGo /\ Trying /\ Close
  BY DEF AttemptFails, SetNonBlockingFails, ConnectFails, RegisterFails, Trying
<1>2. conn' = [fd \in Fds |-> IF fd = sock THEN NoConn ELSE conn[fd]]
  BY <1>1 DEF Close, ConnWithout
<1> QED BY <1>1, <1>2, FreeTypes DEF TypeOK

\* The network settles a connection, and leaves its registration alone.
LEMMA SettledConn ==
  ASSUME TypeOK, Network
  PROVE  /\ conn' \in [Fds -> Connections]
         /\ \A fd \in Fds :
              /\ conn'[fd].slot = conn[fd].slot
              /\ conn'[fd].state = "none" <=> conn[fd].state = "none"
              /\ conn[fd].state \in {"open", "refused"} => conn'[fd] = conn[fd]
<1>1. PICK fd \in Fds, state \in {"open", "refused"} : Settle(fd, state)
  BY DEF Network
<1> DEFINE age == IF conn[fd].slot = NoSlot THEN 0 ELSE probe_table[conn[fd].slot].age
<1>2. age \in Ages
  BY <1>1, Sizes DEF TypeOK, Connections, Probes
<1> HIDE DEF age
<1>3. conn[fd].state = "connecting" /\ conn' = [conn EXCEPT ![fd].state = state, ![fd].age = age]
  BY <1>1 DEF Settle, age
<1> QED BY <1>2, <1>3 DEF TypeOK, Connections, ConnStates

-----------------------------------------------------------------------------
(* Types and the slots                                                     *)

\* A socket that is ready is that of a probe: the one being set up is not registered.
LEMMA ReadyActive ==
  ASSUME SocketsOwned, Attempt, NEW fd \in Ready
  PROVE  conn[fd].slot \in ActiveSlots /\ probe_table[conn[fd].slot].sock = fd
<1>1. fd \in OpenFds /\ conn[fd].slot # NoSlot
  BY DEF Ready, OpenFds
<1>2. PICK s \in ActiveSlots : probe_table[s].sock = fd
  BY <1>1 DEF SocketsOwned, ProbeFds, Attempt
<1> QED BY <1>2 DEF SocketsOwned

\* The events that epoll_wait hands on: the slots of distinct sockets that are ready.
LEMMA PolledEvents ==
  ASSUME TypeOK, SocketsOwned, Attempt, Poll
  PROVE  /\ events' \in Seq(Slots)
         /\ \A i \in DOMAIN events' :
              events'[i] \in ActiveSlots /\ probe_table[events'[i]].sock \in Ready
         /\ \A i, j \in DOMAIN events' : events'[i] = events'[j] => i = j
         /\ pc' # "events" => events' = <<>>
<1> DEFINE n == Smaller(Cardinality(Ready), BatchSize)
<1>1. Cardinality(Ready) \in Nat
  <2>1. IsFiniteSet(Fds)
    BY FS_Interval, TcpAssumption DEF Fds
  <2>2. Ready \subseteq Fds
    BY DEF Ready
  <2> QED BY <2>1, <2>2, FS_Subset, FS_CardinalityType
<1>2. n \in Nat
  BY <1>1, Sizes DEF Smaller
<1> HIDE DEF n
<1>3. PICK reported \in Injection(1 .. n, Ready) :
        /\ events' = [i \in 1 .. n |-> conn[reported[i]].slot]
        /\ pc' = IF n = 0 THEN "reap" ELSE "events"
  BY DEF Poll, n
<1>4. /\ reported \in [1 .. n -> Ready]
      /\ \A i, j \in 1 .. n : reported[i] = reported[j] => i = j
  BY DEF Injection, IsInjective
<1>5. \A i \in 1 .. n : /\ events'[i] \in ActiveSlots
                        /\ probe_table[events'[i]].sock = reported[i]
  BY <1>3, <1>4, ReadyActive
<1>6. events' \in [1 .. n -> Slots]
  BY <1>3, <1>5 DEF ActiveSlots
<1>7. events' \in Seq(Slots) /\ DOMAIN events' = 1 .. n /\ Len(events') \in Nat
  BY <1>2, <1>6, SeqDef, LenProperties
<1>8. pc' # "events" => events' = <<>>
  <2>1. SUFFICES ASSUME n = 0 PROVE events' = <<>>
    BY <1>3
  <2>2. DOMAIN events' = 1 .. Len(events')
    BY <1>7, LenProperties
  <2>3. Len(events') = 0
    BY <1>7, <2>1, <2>2
  <2> QED BY <1>7, <2>3, EmptySeq
<1> QED BY <1>4, <1>5, <1>7, <1>8

\* The event at hand, and what is left of the others.
LEMMA NextEvents ==
  ASSUME TypeOK, events # <<>>
  PROVE  /\ Head(events) \in Slots /\ 1 \in DOMAIN events /\ Head(events) = events[1]
         /\ Tail(events) \in Seq(Slots)
         /\ \A i \in DOMAIN Tail(events) :
              /\ i \in Nat \ {0} /\ i + 1 \in DOMAIN events
              /\ Tail(events)[i] = events[i + 1]
<1>1. /\ events \in Seq(Slots) /\ Len(events) \in Nat \ {0}
      /\ DOMAIN events = 1 .. Len(events)
  BY LenProperties, EmptySeq DEF TypeOK
<1>2. /\ Head(events) \in Slots /\ Head(events) = events[1]
      /\ Tail(events) \in Seq(Slots) /\ Len(Tail(events)) = Len(events) - 1
      /\ \A i \in 1 .. Len(Tail(events)) : Tail(events)[i] = events[i + 1]
  BY <1>1, HeadTailProperties
<1>3. DOMAIN Tail(events) = 1 .. Len(events) - 1
  BY <1>2, LenProperties
<1> QED BY <1>1, <1>2, <1>3

\* No step leaves the types: the cursor, the count of the iteration and the probes stay
\* within their limits.
LEMMA TypesStep ==
  ASSUME SlotInv, [Next]_vars
  PROVE  TypeOK'
<1> USE Sizes DEF SlotInv
<1>1. pc' \in {"loop", "initiate", "configure", "connect", "register", "poll", "events",
               "reap", "returned"}
  BY DEF TypeOK, Next, ScannerStep, vars, StartIteration, SkipReserved, SocketFails, OpenSocket,
     SetNonBlocking, SetNonBlockingFails, Connect, ConnectFails, Register, RegisterFails, LetGo,
     InitiateDone, Poll, NextEvent, HandleOpen, HandleRefused, EventsDone, Reap,
     Network, Tick, SetBack, ClockMoves, Stopped
<1>2. CASE StartIteration \/ EventsDone \/ InitiateDone \/ SetNonBlocking
  BY <1>1, <1>2 DEF StartIteration, EventsDone, InitiateDone, SetNonBlocking, TypeOK
<1>3. ASSUME MayInitiate, NextHost
      PROVE  /\ next_host_idx \in Hosts
             /\ next_host_idx' \in 0 .. TotalHosts /\ initiated' \in 0 .. BatchSize
  BY <1>3, TcpAssumption DEF MayInitiate, NextHost, TypeOK, Hosts
<1>4. CASE SkipReserved
  BY <1>1, <1>3, <1>4 DEF SkipReserved, TypeOK
<1>5. CASE SocketFails
  BY <1>1, <1>3, <1>5 DEF SocketFails, MayTry, TypeOK
<1>6. CASE OpenSocket
  BY <1>1, <1>3, <1>6, OpenedSocket DEF OpenSocket, MayTry, TypeOK
<1>7. CASE Connect
  <2>1. conn' \in [Fds -> Connections]
    BY <1>7 DEF Connect, Attempt, Trying, TypeOK, Connections, ConnStates
  <2> QED BY <1>1, <1>7, <2>1 DEF Connect, TypeOK
<1>8. CASE Register
  <2>1. active_probes' \in 0 .. MaxProbes
    BY <1>8 DEF Register, Attempt, Trying, TypeOK
  <2>2. probe_table' \in [Slots -> Probes] /\ conn' \in [Fds -> Connections]
    BY <1>8, ConnectedSlot
  <2> QED BY <1>1, <1>8, <2>1, <2>2 DEF Register, TypeOK
<1>9. CASE AttemptFails
  <2>1. LetGo /\ Trying /\ conn' \in [Fds -> Connections]
    BY <1>9, FailedAttempt
  <2>2. failed' \subseteq Hosts
    BY <2>1 DEF LetGo, Attempt, TypeOK
  <2> QED BY <1>1, <2>1, <2>2 DEF LetGo, TypeOK
<1>10. CASE Poll
  BY <1>1, <1>10, PolledEvents DEF Poll, TypeOK
<1>11. ASSUME NextEvent, CloseSlots({Head(events)}), probe_table[Head(events)].active
       PROVE  /\ probe_table' \in [Slots -> Probes]
              /\ conn' \in [Fds -> Connections]
              /\ active_probes' \in 0 .. MaxProbes
              /\ events' \in Seq(Slots)
              /\ probe_table[Head(events)].dest \in Hosts
              /\ probe_table[Head(events)].age \in Ages
  <2>1. Head(events) \in Slots /\ events' \in Seq(Slots)
    BY <1>11, NextEvents DEF NextEvent
  <2>2. {Head(events)} \subseteq ActiveSlots
    BY <1>11, <2>1 DEF ActiveSlots
  <2>3. /\ probe_table' \in [Slots -> Probes] /\ conn' \in [Fds -> Connections]
        /\ active_probes' \in 0 .. active_probes
    BY <1>11, <2>2, ClosedSlots
  <2>4. active_probes' \in 0 .. MaxProbes
    BY <2>3 DEF TypeOK
  <2>5. probe_table[Head(events)] \in Probes
    BY <2>1 DEF TypeOK
  <2> QED BY <2>1, <2>3, <2>4, <2>5 DEF Probes
<1>12. CASE HandleOpen
  <2> DEFINE probe == probe_table[Head(events)]
             result == [host |-> probe.dest, rtt |-> probe.age]
             Hits == [host : Hosts, rtt : Ages]
  <2>1. probe.dest \in Hosts /\ probe.age \in Ages
    BY <1>11, <1>12 DEF HandleOpen
  <2>2. result \in Hits /\ scan_results \in Seq(Hits)
    BY <2>1 DEF TypeOK
  <2>3. scan_results' = scan_results \/ scan_results' = Append(scan_results, result)
    BY <1>12 DEF HandleOpen
  <2> HIDE DEF result, Hits
  <2>4. scan_results' \in Seq(Hits)
    BY <2>2, <2>3, AppendProperties
  <2>5. NextEvent /\ CloseSlots({Head(events)}) /\ probe_table[Head(events)].active
        /\ failed' = failed
    BY <1>12 DEF HandleOpen
  <2>6. UNCHANGED <<pc, next_host_idx, initiated, sock, setbacks, expired, failed>>
    BY <2>5 DEF NextEvent
  <2>7. /\ probe_table' \in [Slots -> Probes] /\ conn' \in [Fds -> Connections]
        /\ active_probes' \in 0 .. MaxProbes /\ events' \in Seq(Slots)
    BY <1>11, <2>5
  <2> QED BY <1>1, <2>4, <2>6, <2>7 DEF TypeOK, Hits
<1>13. CASE HandleRefused
  BY <1>1, <1>11, <1>13 DEF HandleRefused, NextEvent, TypeOK
<1>14. CASE Reap
  <2>1. TimedOut \subseteq ActiveSlots /\ \A s \in TimedOut : probe_table[s].dest \in Hosts
    BY DEF TimedOut, ActiveSlots, TypeOK, Probes
  <2> QED BY <1>1, <1>14, <2>1, ClosedSlots DEF Reap, TypeOK
<1>15. CASE Network
  BY <1>1, <1>15, SettledConn DEF Network, TypeOK
<1>16. CASE Tick \/ SetBack
  <2>1. PICK d \in Int : ClockMoves(d) /\ setbacks' \in 0 .. MaxSetBacks
    BY <1>16, ClockSteps
  <2> QED BY <1>1, <2>1, ClockKeepsProbes DEF ClockMoves, TypeOK
<1>17. CASE UNCHANGED vars
  BY <1>17 DEF vars, TypeOK
<1> QED
  BY <1>2, <1>4, <1>5, <1>6, <1>7, <1>8, <1>9, <1>10, <1>12, <1>13, <1>14, <1>15, <1>16, <1>17
  DEF Next, ScannerStep, Stopped, AttemptFails

\* A socket being set up stays unknown to epoll, and the room for its probe stays.
LEMMA AttemptStep ==
  ASSUME SlotInv, [Next]_vars
  PROVE  Attempt'
<1> USE DEF SlotInv
<1>1. CASE OpenSocket
  <2>1. sock' \in Fds /\ conn'[sock'].slot = NoSlot
    BY <1>1, OpenedSocket
  <2>2. /\ next_host_idx \in Nat /\ next_host_idx < TotalHosts
        /\ next_host_idx \notin LocalReserved /\ active_probes < MaxProbes
    BY <1>1 DEF OpenSocket, MayTry, MayInitiate, IsReserved, TypeOK
  <2>3. active_probes' = active_probes /\ next_host_idx' = next_host_idx + 1
    BY <1>1 DEF OpenSocket, NextHost
  <2>4. Tried' = next_host_idx
    BY <2>2, <2>3 DEF Tried
  <2>5. next_host_idx \in Hosts
    BY <2>2, TcpAssumption DEF Hosts
  <2> QED BY <2>1, <2>2, <2>3, <2>4, <2>5 DEF Attempt
<1>2. ASSUME UNCHANGED <<next_host_idx, active_probes, sock>>, Trying' => Trying,
             \A fd \in Fds : conn'[fd].slot = conn[fd].slot
      PROVE  Attempt'
  BY <1>2 DEF Attempt, Tried
<1>3. CASE SetNonBlocking \/ UNCHANGED vars
  BY <1>2, <1>3 DEF SetNonBlocking, Trying, vars
<1>4. CASE Connect
  <2>1. \A fd \in Fds : conn'[fd].slot = conn[fd].slot
    BY <1>4 DEF Connect, TypeOK, Connections
  <2> QED BY <1>2, <1>4, <2>1 DEF Connect, Trying
<1>5. CASE Network
  BY <1>2, <1>5, SettledConn DEF Network, Trying
<1>6. CASE Tick \/ SetBack
  <2>1. PICK d \in Int : ClockMoves(d)
    BY <1>6, ClockSteps
  <2> QED BY <1>2, <2>1 DEF ClockMoves, Trying
<1>7. CASE ~ Trying'
  BY <1>7 DEF Attempt
<1> QED
  BY <1>1, <1>3, <1>4, <1>5, <1>6, <1>7
  DEF Next, ScannerStep, Stopped, Trying, StartIteration, SkipReserved, SocketFails, Register,
      SetNonBlockingFails, ConnectFails, RegisterFails, LetGo, MayTry, MayInitiate,
      InitiateDone, Poll, HandleOpen, HandleRefused, NextEvent, EventsDone, Reap

\* The count follows the table.
LEMMA CountStep ==
  ASSUME SlotInv, [Next]_vars
  PROVE  ActiveCount'
<1> USE DEF SlotInv
<1>1. CASE Register
  BY <1>1, ConnectedSlot
<1>2. CASE HandleOpen \/ HandleRefused
  <2>1. {Head(events)} \subseteq ActiveSlots /\ CloseSlots({Head(events)})
    BY <1>2, NextEvents DEF HandleOpen, HandleRefused, NextEvent, ActiveSlots
  <2> QED BY <2>1, ClosedSlots
<1>3. CASE Reap
  BY <1>3, ClosedSlots DEF Reap, TimedOut
<1>4. CASE Tick \/ SetBack
  <2>1. PICK d \in Int : ClockMoves(d)
    BY <1>4, ClockSteps
  <2> QED BY <2>1, ClockKeepsProbes DEF ClockMoves, ActiveCount
<1>5. CASE UNCHANGED <<active_probes, probe_table>>
  BY <1>5 DEF ActiveCount, ActiveSlots
<1> QED
  BY <1>1, <1>2, <1>3, <1>4, <1>5
  DEF Next, ScannerStep, vars, StartIteration, SkipReserved, SocketFails, OpenSocket,
      SetNonBlocking, SetNonBlockingFails, Connect, ConnectFails, RegisterFails, LetGo,
      InitiateDone, Poll, EventsDone, Network, Stopped

\* Sockets that are closed along with their slots leave those of the other probes.
LEMMA ClosedSockets ==
  ASSUME SlotInv, NEW S, S \subseteq ActiveSlots, CloseSlots(S),
         ~ Trying, pc' \notin {"configure", "connect", "register", "returned"}
  PROVE  SocketsOwned'
<1> USE DEF SlotInv
<1> DEFINE fds == {probe_table[s].sock : s \in S}
<1>1. /\ ActiveSlots' = ActiveSlots \ S /\ ActiveSlots \subseteq Slots
      /\ \A s \in ActiveSlots' : probe_table'[s] = probe_table[s]
  <2>1. ActiveSlots' = ActiveSlots \ S /\ ActiveSlots \subseteq Slots
    BY ClosedSlots DEF ActiveSlots
  <2> QED BY <2>1, ClosedSlots
<1>2. \A fd \in Fds : conn'[fd] = IF fd \in fds THEN NoConn ELSE conn[fd]
  BY ClosedSlots
<1>3. \A s \in ActiveSlots' : probe_table[s].sock \in Fds \ fds
  BY <1>1, OwnSockets
<1>4. ProbeFds' = ProbeFds \ fds
  <2>1. ProbeFds' = {probe_table[s].sock : s \in ActiveSlots'}
    BY <1>1 DEF ProbeFds
  <2>2. \A s \in ActiveSlots : s \in S \/ s \in ActiveSlots'
    BY <1>1
  <2> QED BY <1>1, <1>3, <2>1, <2>2 DEF ProbeFds
<1> HIDE DEF fds
<1>5. OpenFds' = OpenFds \ fds
  BY <1>2 DEF OpenFds, NoConn
<1>6. OpenFds' = ProbeFds'
  BY <1>4, <1>5 DEF SocketsOwned
<1>7. \A s \in ActiveSlots' : conn'[probe_table'[s].sock].slot = s
  BY <1>1, <1>2, <1>3 DEF SocketsOwned
<1> QED BY <1>6, <1>7 DEF SocketsOwned, Trying

\* The sockets follow the table, and the attempt under way.
LEMMA SocketsStep ==
  ASSUME SlotInv, [Next]_vars
  PROVE  SocketsOwned'
<1> USE Sizes DEF SlotInv
<1>1. CASE OpenSocket
  <2>1. /\ sock' \in Fds /\ sock' \notin OpenFds /\ OpenFds' = OpenFds \cup {sock'}
        /\ \A fd \in OpenFds : conn'[fd] = conn[fd]
    BY <1>1, OpenedSocket
  <2>2. /\ ~ Trying /\ Trying' /\ pc' # "returned" /\ probe_table' = probe_table
    BY <1>1 DEF OpenSocket, MayTry, MayInitiate, Trying
  <2>3. ActiveSlots' = ActiveSlots /\ ProbeFds' = ProbeFds /\ OpenFds = ProbeFds
    BY <2>2 DEF ActiveSlots, ProbeFds, SocketsOwned
  <2>4. \A s \in ActiveSlots : probe_table[s].sock \in OpenFds
    BY <2>3 DEF ProbeFds
  <2>5. \A s \in ActiveSlots : conn'[probe_table[s].sock].slot = s
    BY <2>1, <2>4 DEF SocketsOwned
  <2> QED BY <2>1, <2>2, <2>3, <2>5 DEF SocketsOwned
<1>2. CASE Register
  <2>1. PICK slot \in Slots :
          /\ probe_table'[slot].sock = sock
          /\ \A s \in Slots \ {slot} : probe_table'[s] = probe_table[s]
          /\ \A fd \in Fds : /\ conn'[fd].state = conn[fd].state
                             /\ conn'[fd].slot = IF fd = sock THEN slot ELSE conn[fd].slot
          /\ ActiveSlots' = ActiveSlots \cup {slot} /\ slot \notin ActiveSlots
    BY <1>2, ConnectedSlot
  <2>2. /\ Trying /\ ~ Trying' /\ pc' # "returned" /\ sock \in Fds
        /\ OpenFds = ProbeFds \cup {sock} /\ sock \notin ProbeFds
    BY <1>2 DEF Register, Trying, Attempt, SocketsOwned
  <2>3. OpenFds' = OpenFds
    BY <2>1 DEF OpenFds
  <2>4. \A s \in ActiveSlots : /\ probe_table'[s].sock = probe_table[s].sock
                               /\ probe_table[s].sock \in Fds \ {sock}
    BY <2>1, <2>2, OwnSockets DEF ProbeFds, ActiveSlots
  <2>5. ProbeFds' = ProbeFds \cup {sock}
    BY <2>1, <2>4 DEF ProbeFds
  <2>6. \A s \in ActiveSlots' : conn'[probe_table'[s].sock].slot = s
    BY <2>1, <2>2, <2>4 DEF SocketsOwned
  <2> QED BY <2>2, <2>3, <2>5, <2>6 DEF SocketsOwned
<1>3. CASE AttemptFails
  <2>1. /\ LetGo /\ Trying
        /\ \A fd \in Fds : conn'[fd] = IF fd = sock THEN NoConn ELSE conn[fd]
    BY <1>3, FailedAttempt
  <2>2. ~ Trying' /\ pc' # "returned" /\ ActiveSlots' = ActiveSlots /\ ProbeFds' = ProbeFds
        /\ probe_table' = probe_table
    BY <2>1 DEF LetGo, Trying, ActiveSlots, ProbeFds
  <2>3. OpenFds = ProbeFds \cup {sock} /\ sock \notin ProbeFds
    BY <2>1 DEF SocketsOwned
  <2>4. OpenFds' = OpenFds \ {sock}
    BY <2>1 DEF OpenFds, NoConn
  <2>5. \A s \in ActiveSlots : conn'[probe_table[s].sock].slot = s
    BY <2>1, <2>3, OwnSockets DEF ProbeFds, SocketsOwned
  <2> QED BY <2>2, <2>3, <2>4, <2>5 DEF SocketsOwned
<1>4. CASE HandleOpen \/ HandleRefused
  <2>1. {Head(events)} \subseteq ActiveSlots /\ CloseSlots({Head(events)})
        /\ pc = "events" /\ pc' = "events"
    BY <1>4, NextEvents DEF HandleOpen, HandleRefused, NextEvent, ActiveSlots
  <2> QED BY <2>1, ClosedSockets DEF Trying
<1>5. CASE Reap
  BY <1>5, ClosedSockets DEF Reap, TimedOut, Trying
\* Where no socket is opened, closed or registered anew.
<1>6. ASSUME \A s \in Slots : /\ probe_table'[s].active = probe_table[s].active
                              /\ probe_table'[s].sock = probe_table[s].sock,
             \A fd \in Fds : /\ (conn'[fd].state = "none") <=> (conn[fd].state = "none")
                             /\ conn'[fd].slot = conn[fd].slot,
             sock' = sock, Trying' <=> Trying,
             pc' = "returned" => OpenFds = {}
      PROVE  SocketsOwned'
  <2>1. ActiveSlots' = ActiveSlots
    BY <1>6 DEF ActiveSlots
  <2>2. \A s \in ActiveSlots : /\ probe_table'[s].sock = probe_table[s].sock
                               /\ probe_table[s].sock \in Fds
    BY <1>6, OwnSockets DEF ActiveSlots
  <2>3. ProbeFds' = ProbeFds
    BY <2>1, <2>2 DEF ProbeFds
  <2>4. OpenFds' = OpenFds
    BY <1>6 DEF OpenFds
  <2> QED BY <1>6, <2>1, <2>2, <2>3, <2>4 DEF SocketsOwned
<1>7. CASE StartIteration
  <2>1. ASSUME pc' = "returned" PROVE OpenFds = {}
    <3>1. active_probes = 0 /\ ~ Trying
      BY <1>7, <2>1 DEF StartIteration, WorkLeft, TypeOK, Trying
    <3>2. ActiveSlots = {}
      BY <3>1, SlotSets, FS_EmptySet DEF ActiveCount, ActiveSlots
    <3> QED BY <3>1, <3>2 DEF SocketsOwned, ProbeFds
  <2> QED BY <1>6, <1>7, <2>1 DEF StartIteration, Trying
<1>8. CASE Connect
  <2>1. \A fd \in Fds : /\ (conn'[fd].state = "none") <=> (conn[fd].state = "none")
                        /\ conn'[fd].slot = conn[fd].slot
    <3>1. sock \in Fds /\ conn[sock].state # "none"
      BY <1>8 DEF Connect, Trying, Attempt, SocketsOwned, OpenFds
    <3> QED BY <1>8, <3>1 DEF Connect, TypeOK, Connections
  <2> QED BY <1>6, <1>8, <2>1 DEF Connect, Trying
<1>9. CASE Network
  BY <1>6, <1>9, SettledConn DEF Network, Outside, Trying
<1>10. CASE Tick \/ SetBack
  <2>1. PICK d \in Int : ClockMoves(d)
    BY <1>10, ClockSteps
  <2> QED BY <1>6, <2>1, ClockKeepsProbes DEF ClockMoves, Outside, Trying
<1>11. CASE SkipReserved \/ SocketFails \/ SetNonBlocking \/ InitiateDone \/ Poll \/ EventsDone
  BY <1>6, <1>11
  DEF SkipReserved, SocketFails, MayTry, MayInitiate, SetNonBlocking, InitiateDone, Poll,
      EventsDone, Trying
<1>12. CASE UNCHANGED vars
  BY <1>6, <1>12 DEF vars, Trying, SocketsOwned
<1> QED
  BY <1>1, <1>2, <1>3, <1>4, <1>5, <1>7, <1>8, <1>9, <1>10, <1>11, <1>12
  DEF Next, ScannerStep, Stopped, AttemptFails

\* An event outlives neither its poll nor its probe: each handler closes the socket of
\* its own event only, and no slot is filled before the last event is handled.
LEMMA EventsStep ==
  ASSUME SlotInv, [Next]_vars
  PROVE  EventsCurrent' /\ EventsFresh'
<1> USE DEF SlotInv
<1>1. CASE Poll
  <2>1. \A i \in DOMAIN events' :
          events'[i] \in ActiveSlots /\ probe_table[events'[i]].sock \in Ready
    BY <1>1, PolledEvents
  <2>2. probe_table' = probe_table /\ conn' = conn
    BY <1>1 DEF Poll
  <2>3. \A i, j \in DOMAIN events' : events'[i] = events'[j] => i = j
    BY <1>1, PolledEvents
  <2>4. EventsFresh'
    BY <1>1, PolledEvents DEF EventsFresh
  <2> QED BY <2>1, <2>2, <2>3, <2>4 DEF EventsCurrent, Ready, ActiveSlots
<1>2. ASSUME NEW i \in DOMAIN events
      PROVE  events[i] \in ActiveSlots /\ probe_table[events[i]].sock \in Fds
  <2>1. events[i] \in Slots
    BY ElementOfSeq, LenProperties DEF TypeOK
  <2> QED BY <2>1, OwnSockets DEF EventsCurrent, ActiveSlots
<1>3. CASE HandleOpen \/ HandleRefused
  <2>1. events # <<>> /\ events' = Tail(events) /\ pc = "events" /\ pc' = "events"
    BY <1>3 DEF HandleOpen, HandleRefused, NextEvent
  <2>2. Head(events) \in Slots /\ 1 \in DOMAIN events /\ Head(events) = events[1]
        /\ \A i \in DOMAIN events' : /\ i \in Nat \ {0} /\ i + 1 \in DOMAIN events
                                     /\ events'[i] = events[i + 1]
    BY <2>1, NextEvents
  <2>3. \A i \in DOMAIN events' : i + 1 # 1
    BY <2>2
  <2>4. \A i \in DOMAIN events' : events'[i] # Head(events)
    BY <2>2, <2>3 DEF EventsCurrent
  <2>5. /\ {Head(events)} \subseteq ActiveSlots /\ Head(events) \in ActiveSlots
        /\ CloseSlots({Head(events)})
    BY <1>2, <1>3, <2>2 DEF HandleOpen, HandleRefused
  <2>6. \A s \in ActiveSlots \ {Head(events)} :
          /\ probe_table'[s] = probe_table[s]
          /\ conn'[probe_table[s].sock] = conn[probe_table[s].sock]
    <3>1. \A s \in ActiveSlots \ {Head(events)} :
            /\ s \in Slots /\ probe_table[s].sock \in Fds
            /\ probe_table[s].sock # probe_table[Head(events)].sock
      BY <2>5, OwnSockets DEF ActiveSlots
    <3> QED BY <2>5, <3>1, ClosedSlots
  <2>7. \A i \in DOMAIN events' :
          /\ probe_table'[events'[i]].active
          /\ conn'[probe_table'[events'[i]].sock].state \in {"open", "refused"}
    BY <1>2, <2>2, <2>4, <2>6 DEF EventsCurrent
  <2>8. \A i, j \in DOMAIN events' : events'[i] = events'[j] => i = j
    <3> SUFFICES ASSUME NEW i \in DOMAIN events', NEW j \in DOMAIN events',
                        events'[i] = events'[j]
                 PROVE  i = j
      OBVIOUS
    <3>1. i + 1 = j + 1
      BY <2>2 DEF EventsCurrent
    <3> QED BY <2>2, <3>1
  <2> QED BY <2>1, <2>7, <2>8 DEF EventsCurrent, EventsFresh
<1>4. CASE Network
  <2>1. \A fd \in Fds : conn[fd].state \in {"open", "refused"} => conn'[fd] = conn[fd]
    BY <1>4, SettledConn
  <2>2. UNCHANGED <<events, pc, probe_table>>
    BY <1>4 DEF Network
  <2> QED BY <1>2, <2>1, <2>2 DEF EventsCurrent, EventsFresh
<1>5. CASE Tick \/ SetBack
  <2>1. PICK d \in Int : ClockMoves(d)
    BY <1>5, ClockSteps
  <2>2. UNCHANGED <<events, pc, conn>>
    BY <2>1 DEF ClockMoves
  <2>3. \A s \in ActiveSlots : /\ probe_table'[s].active = probe_table[s].active
                               /\ probe_table'[s].sock = probe_table[s].sock
    BY <2>1, ClockKeepsProbes DEF ActiveSlots
  <2> QED BY <1>2, <2>2, <2>3 DEF EventsCurrent, EventsFresh
<1>6. CASE EventsDone \/ UNCHANGED vars
  BY <1>6 DEF EventsDone, vars, EventsCurrent, EventsFresh
<1>7. CASE pc \notin {"events", "poll"} /\ events' = events /\ pc' # "events"
  <2>1. events' = <<>>
    BY <1>7 DEF EventsFresh
  <2>2. DOMAIN events' = {}
    BY <2>1
  <2> QED BY <2>1, <2>2 DEF EventsCurrent, EventsFresh
<1> QED
  BY <1>1, <1>3, <1>4, <1>5, <1>6, <1>7
  DEF Next, ScannerStep, StartIteration, SkipReserved, SocketFails, OpenSocket, MayTry,
      MayInitiate, SetNonBlocking, SetNonBlockingFails, Connect, ConnectFails, Register,
      RegisterFails, LetGo, InitiateDone, Reap, Stopped

\* Initially nothing is under way.
LEMMA SlotsInit == Init => SlotInv
<1> SUFFICES ASSUME Init PROVE SlotInv
  OBVIOUS
<1> USE Sizes, TcpAssumption
<1>1. TypeOK
  BY FreeTypes, EmptySeq DEF Init, TypeOK
<1>2. ActiveSlots = {} /\ OpenFds = {} /\ ~ Trying
  BY DEF Init, ActiveSlots, FreeProbe, OpenFds, NoConn, Trying
<1>3. ActiveCount /\ SocketsOwned /\ Attempt
  BY <1>2, FS_EmptySet DEF Init, ActiveCount, SocketsOwned, ProbeFds, Attempt
<1>4. EventsCurrent /\ EventsFresh
  BY DEF Init, EventsCurrent, EventsFresh
<1> QED BY <1>1, <1>3, <1>4 DEF SlotInv

\* The slots are in order in every state of every run.
LEMMA SlotsInvariant == Spec => []SlotInv
<1>1. SlotInv /\ [Next]_vars => SlotInv'
  BY TypesStep, CountStep, AttemptStep, SocketsStep, EventsStep DEF SlotInv
<1> QED BY SlotsInit, <1>1, PTL DEF Spec

\* Every state the TCP scanner reaches is well-formed: the cursor stays within the
\* range, the probes and the iteration within their limits, and active_probes, which
\* nothing guards, does not wrap below zero.
THEOREM TcpTypeCorrect == Spec => []TypeOK
BY SlotsInvariant, PTL DEF SlotInv

\* The loop of run() ends on the number of probes that are really under way, whatever
\* way they were closed.
THEOREM ProbesCounted == Spec => []ActiveCount
BY SlotsInvariant, PTL DEF SlotInv

\* Whichever of the calls of an attempt fails, its socket is closed again, and so is
\* that of a probe that ends: the open sockets are those of the probes and of the
\* attempt under way, each held once, and run() leaves none.
THEOREM NoSocketLeaks == Spec => []SocketsOwned
BY SlotsInvariant, PTL DEF SlotInv

\* A host goes untried only where socket() fails, and there every descriptor is that of
\* a probe under way: none is lost to the attempts and the probes before.
THEOREM UntriedForWantOnly == Spec => UntriedOnlyAtLimit
<1>1. SlotInv /\ [Next]_vars => [(pc = "initiate" /\ failed' # failed) => Fds \subseteq ProbeFds]_vars
  <2> SUFFICES ASSUME SlotInv, Next, pc = "initiate", failed' # failed
               PROVE  Fds \subseteq ProbeFds
    OBVIOUS
  <2>1. SocketFails
    BY DEF Next, ScannerStep, StartIteration, SkipReserved, OpenSocket, SetNonBlocking,
       SetNonBlockingFails, Connect, ConnectFails, Register, RegisterFails, InitiateDone, Poll,
       HandleOpen, HandleRefused, NextEvent, EventsDone, Reap, Network, Tick, SetBack,
       ClockMoves, Stopped, vars
  <2>2. Fds \subseteq OpenFds
    BY <2>1 DEF SocketFails, FreeFds, OpenFds
  <2> QED BY <2>2 DEF SlotInv, SocketsOwned, Trying
<1> QED BY <1>1, SlotsInvariant, PTL DEF Spec, UntriedOnlyAtLimit

\* No event of epoll_wait meets another probe than the one it was raised for.
THEOREM NoStaleEvent == Spec => []EventsCurrent
BY SlotsInvariant, PTL DEF SlotInv

-----------------------------------------------------------------------------
(* The hosts                                                               *)

\* A host that is passed by without a probe, or given up, was in no place yet: none of
\* them lies beyond the cursor.
Places == HostInOnePlace /\ Passed

\* Only where a host is passed over, or its attempt comes to an end, does the frontier
\* move, and then past that host.
LEMMA Frontiers ==
  ASSUME SlotInv, [Next]_vars
  PROVE  /\ Frontier \in Int
         /\ Register \/ AttemptFails \/ SocketFails \/ SkipReserved =>
              Frontier \in Hosts /\ Frontier' = Frontier + 1
         /\ SocketFails \/ SkipReserved => Frontier = next_host_idx
         /\ Register \/ AttemptFails => Frontier = Tried
         /\ ~ (Register \/ AttemptFails \/ SocketFails \/ SkipReserved) => Frontier' = Frontier
<1> USE DEF SlotInv
<1>1. next_host_idx \in Int /\ Tried = next_host_idx - 1
  BY TcpAssumption DEF TypeOK, Tried
<1>2. Frontier \in Int
  BY <1>1 DEF Frontier
<1>3. CASE Register \/ AttemptFails
  <2>1. Trying /\ ~ Trying' /\ next_host_idx' = next_host_idx
    BY <1>3 DEF Register, AttemptFails, SetNonBlockingFails, ConnectFails, RegisterFails, LetGo,
       Trying
  <2>2. Frontier = Tried /\ Tried \in Hosts /\ Frontier' = next_host_idx
    BY <2>1 DEF Attempt, Frontier
  <2>3. ~ SocketFails /\ ~ SkipReserved
    BY <2>1 DEF Trying, SocketFails, SkipReserved, MayTry, MayInitiate
  <2> QED BY <1>1, <1>2, <1>3, <2>2, <2>3
<1>4. CASE SocketFails \/ SkipReserved
  <2>1. ~ Trying /\ ~ Trying' /\ next_host_idx' = next_host_idx + 1
        /\ next_host_idx < TotalHosts
    BY <1>4 DEF SocketFails, SkipReserved, MayTry, MayInitiate, NextHost, Trying
  <2>2. Frontier = next_host_idx /\ Frontier' = next_host_idx + 1
    BY <2>1 DEF Frontier
  <2>3. next_host_idx \in Hosts
    BY <2>1, TcpAssumption DEF TypeOK, Hosts
  <2>4. ~ Register /\ ~ AttemptFails
    BY <2>1 DEF Trying, Register, AttemptFails, SetNonBlockingFails, ConnectFails, RegisterFails
  <2> QED BY <1>2, <1>4, <2>2, <2>3, <2>4
<1>5. CASE OpenSocket
  <2>1. ~ Trying /\ Trying' /\ next_host_idx' = next_host_idx + 1
    BY <1>5 DEF OpenSocket, MayTry, MayInitiate, NextHost, Trying
  <2>2. Frontier = next_host_idx /\ Frontier' = next_host_idx' - 1
    BY <2>1 DEF Frontier, Tried
  <2>3. ~ Register /\ ~ AttemptFails /\ ~ SocketFails /\ ~ SkipReserved
    BY <1>5, <2>1
    DEF Trying, Register, AttemptFails, SetNonBlockingFails, ConnectFails, RegisterFails,
        SocketFails, SkipReserved
  <2> QED BY <1>1, <1>2, <2>1, <2>2, <2>3
<1>6. ASSUME ~ (Register \/ AttemptFails \/ SocketFails \/ SkipReserved), ~ OpenSocket
      PROVE  Frontier' = Frontier
  <2>1. next_host_idx' = next_host_idx /\ (Trying' <=> Trying)
    BY <1>6
    DEF Next, ScannerStep, vars, Trying, AttemptFails, StartIteration, SetNonBlocking, Connect,
        InitiateDone, Poll, HandleOpen, HandleRefused, NextEvent, EventsDone, Reap, Network,
        Tick, SetBack, ClockMoves, Stopped
  <2> QED BY <2>1 DEF Frontier, Tried
<1> QED BY <1>2, <1>3, <1>4, <1>5, <1>6

\* Where hosts only drop out of the table into one of the other places.
LEMMA DroppedHosts ==
  ASSUME SlotInv, Places, NEW S, S \subseteq ActiveSlots, CloseSlots(S),
         Frontier' = Frontier, UNCHANGED scan_results,
         \/ failed' = failed \cup {probe_table[s].dest : s \in S} /\ expired' = expired
         \/ expired' = expired \cup {probe_table[s].dest : s \in S} /\ failed' = failed
  PROVE  Places'
<1>1. /\ ActiveSlots' = ActiveSlots \ S /\ ActiveSlots \subseteq Slots
      /\ \A s \in ActiveSlots' : probe_table'[s] = probe_table[s]
  <2>1. ActiveSlots' = ActiveSlots \ S /\ ActiveSlots \subseteq Slots
    BY ClosedSlots DEF SlotInv, ActiveSlots
  <2> QED BY <2>1, ClosedSlots DEF SlotInv
<1> DEFINE dropped == {probe_table[s].dest : s \in S}
<1>2. \A s \in ActiveSlots', t \in S : probe_table'[s].dest # probe_table[t].dest
  BY <1>1 DEF Places, HostInOnePlace
<1>3. \A h : Listed(h)' <=> Listed(h)
  BY DEF Listed
<1>4. \A h \in dropped : /\ h < Frontier /\ ~ Listed(h)
                          /\ h \notin failed \cup expired
  BY DEF Places, HostInOnePlace, Passed
<1>5. \A s \in ActiveSlots' : probe_table'[s].dest \notin dropped
  BY <1>2
<1>6. failed' \cup expired' = failed \cup expired \cup dropped
      /\ failed' \cap expired' = {}
  BY <1>4 DEF Places, HostInOnePlace
<1> HIDE DEF dropped
<1>7. HostInOnePlace'
  BY <1>1, <1>3, <1>4, <1>5, <1>6 DEF Places, HostInOnePlace
<1>8. Passed'
  BY <1>1, <1>4, <1>6 DEF Places, Passed
<1> QED BY <1>7, <1>8 DEF Places

\* An open port: the host leaves its slot for the list, in which it was not.
LEMMA ListedHost ==
  ASSUME SlotInv, Places, HandleOpen, Frontier' = Frontier
  PROVE  /\ Places'
         /\ \A h : Listed(h)' <=> Listed(h) \/ h = probe_table[Head(events)].dest
<1> DEFINE slot == Head(events)
           host == probe_table[slot].dest
           result == [host |-> host, rtt |-> probe_table[slot].age]
           Hits == [host : Hosts, rtt : Ages]
           n == Len(scan_results)
<1>1. slot \in ActiveSlots /\ {slot} \subseteq ActiveSlots /\ CloseSlots({slot})
      /\ UNCHANGED <<failed, expired>>
  BY NextEvents DEF HandleOpen, NextEvent, ActiveSlots, SlotInv
<1>2. /\ ActiveSlots' = ActiveSlots \ {slot} /\ ActiveSlots \subseteq Slots
      /\ \A s \in ActiveSlots' : probe_table'[s] = probe_table[s]
  <2>1. ActiveSlots' = ActiveSlots \ {slot} /\ ActiveSlots \subseteq Slots
    BY <1>1, ClosedSlots DEF SlotInv, ActiveSlots
  <2> QED BY <1>1, <2>1, ClosedSlots DEF SlotInv
<1>3. ~ Listed(host) /\ host \notin failed \cup expired /\ host < Frontier
  BY <1>1 DEF Places, HostInOnePlace, Passed
<1>4. result \in Hits /\ scan_results \in Seq(Hits)
  BY <1>1, <1>2 DEF SlotInv, TypeOK, Probes
<1>5. scan_results' = Append(scan_results, result) /\ result.host = host
  BY <1>3 DEF HandleOpen
<1> HIDE DEF result, Hits
<1>6. /\ n \in Nat
      /\ DOMAIN scan_results = 1 .. n
      /\ DOMAIN scan_results' = 1 .. n + 1
      /\ \A i \in 1 .. n : scan_results'[i] = scan_results[i]
      /\ scan_results'[n + 1] = result
  <2>1. Len(scan_results) \in Nat /\ DOMAIN scan_results = 1 .. Len(scan_results)
    BY <1>4, LenProperties
  <2>2. /\ scan_results' \in Seq(Hits) /\ Len(scan_results') = n + 1
        /\ \A i \in 1 .. n : scan_results'[i] = scan_results[i]
        /\ scan_results'[n + 1] = result
    BY <1>4, <1>5, AppendProperties
  <2>3. DOMAIN scan_results' = 1 .. Len(scan_results')
    BY <2>2, LenProperties
  <2> QED BY <2>1, <2>2, <2>3
<1> HIDE DEF n
<1>7. \A i \in DOMAIN scan_results' :
        \/ i \in DOMAIN scan_results /\ scan_results'[i] = scan_results[i]
        \/ i = n + 1 /\ scan_results'[i] = result
  BY <1>6
<1>8. \A h : Listed(h)' <=> Listed(h) \/ h = host
  <2>1. n + 1 \in DOMAIN scan_results' /\ \A i \in DOMAIN scan_results : i \in DOMAIN scan_results'
    BY <1>6
  <2> QED BY <1>5, <1>6, <1>7, <2>1 DEF Listed
<1>9. \A i, j \in DOMAIN scan_results' :
        scan_results'[i].host = scan_results'[j].host => i = j
  <2>1. \A i \in DOMAIN scan_results : scan_results[i].host # host
    BY <1>3 DEF Listed
  <2> QED BY <1>5, <1>7, <2>1 DEF Places, HostInOnePlace
<1>10. HostInOnePlace'
  <2>1. \A s \in ActiveSlots' : probe_table[s].dest # host
    BY <1>1, <1>2 DEF Places, HostInOnePlace
  <2> QED BY <1>1, <1>2, <1>3, <1>8, <1>9, <2>1 DEF Places, HostInOnePlace
<1>11. Passed'
  BY <1>1, <1>2, <1>3, <1>5, <1>7 DEF Places, Passed
<1> QED BY <1>8, <1>10, <1>11 DEF Places

\* No step puts a host into two places.
LEMMA PlacesStep ==
  ASSUME SlotInv, Places, [Next]_vars
  PROVE  Places'
<1>0. /\ \A s \in ActiveSlots : probe_table[s].dest \in Int /\ s \in Slots
      /\ \A h \in failed \cup expired : h \in Int
      /\ \A i \in DOMAIN scan_results : scan_results[i].host \in Int
  <2>1. \A i \in DOMAIN scan_results : scan_results[i] \in [host : Hosts, rtt : Ages]
    BY ElementOfSeq, LenProperties DEF SlotInv, TypeOK
  <2> QED BY <2>1 DEF SlotInv, TypeOK, Probes, Hosts, ActiveSlots
\* The host at the frontier is in no place.
<1> DEFINE host == Frontier
<1>1. /\ \A s \in ActiveSlots : probe_table[s].dest # host
      /\ host \notin failed \cup expired
      /\ \A i \in DOMAIN scan_results : scan_results[i].host # host
  BY <1>0, Frontiers DEF Places, Passed
<1>2. CASE Register
  <2>1. PICK slot \in Slots :
          /\ ActiveSlots' = ActiveSlots \cup {slot} /\ slot \notin ActiveSlots
          /\ probe_table'[slot].dest = host
          /\ \A s \in Slots \ {slot} : probe_table'[s] = probe_table[s]
    BY <1>2, ConnectedSlot, Frontiers DEF SlotInv
  <2>2. Frontier' = host + 1 /\ host \in Int /\ UNCHANGED <<scan_results, failed, expired>>
    BY <1>2, Frontiers DEF Register
  <2> HIDE DEF host
  <2>3. /\ \A s \in ActiveSlots : probe_table[s].dest < host
        /\ \A h \in failed \cup expired : h < host
        /\ \A i \in DOMAIN scan_results : scan_results[i].host < host
    BY DEF Places, Passed, host
  <2>4. Passed'
    BY <1>0, <2>1, <2>2, <2>3 DEF Passed
  <2>5. HostInOnePlace'
    BY <1>0, <1>1, <2>1, <2>2 DEF Places, HostInOnePlace, Listed
  <2> QED BY <2>4, <2>5 DEF Places
<1>3. CASE AttemptFails \/ SocketFails \/ SkipReserved
  <2>1. UNCHANGED <<probe_table, scan_results, expired>>
        /\ Frontier' = host + 1 /\ host \in Int
    BY <1>3, Frontiers, FailedAttempt DEF SlotInv, LetGo, SocketFails, SkipReserved
  <2>2. failed' \subseteq failed \cup {host} /\ failed \subseteq failed'
    <3>1. CASE AttemptFails
      BY <3>1, Frontiers, FailedAttempt DEF SlotInv, LetGo
    <3>2. CASE SocketFails \/ SkipReserved
      BY <3>2, Frontiers DEF SocketFails, SkipReserved
    <3> QED BY <1>3, <3>1, <3>2
  <2> HIDE DEF host
  <2>3. /\ \A s \in ActiveSlots : probe_table[s].dest < host
        /\ \A h \in failed \cup expired : h < host
        /\ \A i \in DOMAIN scan_results : scan_results[i].host < host
    BY DEF Places, Passed, host
  <2>4. ActiveSlots' = ActiveSlots
    BY <2>1 DEF ActiveSlots
  <2>5. Passed'
    BY <1>0, <2>1, <2>2, <2>3, <2>4 DEF Passed
  <2>6. HostInOnePlace'
    BY <1>1, <2>1, <2>2, <2>4 DEF Places, HostInOnePlace, Listed
  <2> QED BY <2>5, <2>6 DEF Places
<1> HIDE DEF host
<1>4. CASE HandleOpen
  <2>1. Frontier' = Frontier
    BY <1>4 DEF HandleOpen, NextEvent, Frontier, Trying
  <2> QED BY <1>4, <2>1, ListedHost
<1>5. CASE HandleRefused
  <2>1. /\ {Head(events)} \subseteq ActiveSlots /\ CloseSlots({Head(events)})
        /\ UNCHANGED <<scan_results, expired>>
        /\ failed' = failed \cup {probe_table[s].dest : s \in {Head(events)}}
    BY <1>5, NextEvents DEF HandleRefused, NextEvent, ActiveSlots, SlotInv
  <2>2. Frontier' = Frontier
    BY <1>5 DEF HandleRefused, NextEvent, Frontier, Trying
  <2> QED BY <2>1, <2>2, DroppedHosts
<1>6. CASE Reap
  <2>1. /\ TimedOut \subseteq ActiveSlots /\ CloseSlots(TimedOut)
        /\ UNCHANGED <<scan_results, failed>>
        /\ expired' = expired \cup {probe_table[s].dest : s \in TimedOut}
    BY <1>6 DEF Reap, TimedOut
  <2>2. Frontier' = Frontier
    BY <1>6 DEF Reap, Frontier, Trying
  <2> QED BY <2>1, <2>2, DroppedHosts
<1>7. CASE Tick \/ SetBack
  <2>1. PICK d \in Int : ClockMoves(d)
    BY <1>7, ClockSteps DEF SlotInv
  <2>2. UNCHANGED <<scan_results, failed, expired>> /\ Frontier' = Frontier
    BY <2>1 DEF ClockMoves, Frontier, Trying, Tried
  <2>3. ActiveSlots' = ActiveSlots
        /\ \A s \in ActiveSlots : probe_table'[s].dest = probe_table[s].dest
    BY <2>1, ClockKeepsProbes DEF SlotInv, ActiveSlots
  <2> QED BY <2>2, <2>3 DEF Places, HostInOnePlace, Passed, Listed
<1>8. ASSUME UNCHANGED <<probe_table, scan_results, failed, expired>>, Frontier' = Frontier
      PROVE  Places'
  BY <1>8 DEF Places, HostInOnePlace, Passed, Listed, ActiveSlots
<1>9. CASE OpenSocket \/ SetNonBlocking \/ Connect
  <2>1. ~ (Register \/ AttemptFails \/ SocketFails \/ SkipReserved)
    BY <1>9
    DEF OpenSocket, SetNonBlocking, Connect, Register, AttemptFails, SetNonBlockingFails,
        ConnectFails, RegisterFails, LetGo, SocketFails, SkipReserved, MayTry, MayInitiate
  <2> QED BY <1>8, <1>9, <2>1, Frontiers DEF OpenSocket, SetNonBlocking, Connect
<1>10. CASE StartIteration \/ InitiateDone \/ Poll \/ EventsDone \/ Network \/ UNCHANGED vars
  BY <1>8, <1>10
  DEF StartIteration, InitiateDone, Poll, EventsDone, Network, vars, Frontier, Trying, Tried
<1> QED
  BY <1>2, <1>3, <1>4, <1>5, <1>6, <1>7, <1>9, <1>10
  DEF Next, ScannerStep, Stopped, AttemptFails

\* The places are told apart in every state of every run.
LEMMA PlacesInvariant == Spec => []Places
<1>1. Init => Places
  BY DEF Init, Places, HostInOnePlace, Passed, ActiveSlots, FreeProbe, Listed
<1>2. SlotInv /\ Places /\ [Next]_vars => Places'
  BY PlacesStep
<1> QED BY <1>1, <1>2, SlotsInvariant, PTL DEF Spec

\* Each host is under way in one slot, listed once, given up, or not tried, and never
\* two of these: an open port is listed once, and not counted out as well.
THEOREM OnePlace == Spec => []HostInOnePlace
BY PlacesInvariant, PTL DEF Places

-----------------------------------------------------------------------------
(* The sweep that the scanner implements                                   *)

Under(h) == \E s \in ActiveSlots : probe_table[s].dest = h

\* The status of a host names its place; a host in none is left out or pending.
StatusRight ==
  \A h \in Hosts :
    LET status == ScanStatus[h] IN
      /\ status = "reported" <=> Listed(h)
      /\ status = "expired" <=> h \in expired
      /\ status = "inflight" <=> Under(h)
      /\ status = "pending" <=>
           h \notin failed \cup expired \cup LocalReserved /\ ~ Listed(h) /\ ~ Under(h)
      /\ status \in {"reported", "skipped", "expired", "inflight", "pending"}

\* A host is pending only as long as the sweep is not done with trying it.
Covered == \A h \in Hosts : h < Frontier => ScanStatus[h] # "pending"

LEMMA StatusNamesPlace == HostInOnePlace => StatusRight
<1> SUFFICES ASSUME HostInOnePlace, NEW h \in Hosts
             PROVE  LET status == ScanStatus[h] IN
               /\ status = "reported" <=> Listed(h)
               /\ status = "expired" <=> h \in expired
               /\ status = "inflight" <=> Under(h)
               /\ status = "pending" <=>
                    h \notin failed \cup expired \cup LocalReserved /\ ~ Listed(h) /\ ~ Under(h)
               /\ status \in {"reported", "skipped", "expired", "inflight", "pending"}
  BY DEF StatusRight
<1>1. /\ h \in failed => h \notin expired /\ ~ Listed(h) /\ ~ Under(h)
      /\ h \in expired => ~ Listed(h) /\ ~ Under(h)
      /\ Listed(h) => ~ Under(h)
  BY DEF HostInOnePlace, Under
<1>2. ScanStatus[h] =
        CASE Listed(h)    -> "reported"
          [] h \in failed -> "skipped"
          [] h \in expired -> "expired"
          [] Under(h) -> "inflight"
          [] OTHER -> IF h \in LocalReserved THEN "skipped" ELSE "pending"
  BY DEF ScanStatus, Under
<1>3. CASE Listed(h)
  BY <1>1, <1>2, <1>3
<1>4. CASE h \in failed
  BY <1>1, <1>2, <1>4
<1>5. CASE h \in expired
  BY <1>1, <1>2, <1>5
<1>6. CASE Under(h)
  BY <1>1, <1>2, <1>6
<1>7. CASE ~ Listed(h) /\ h \notin failed \cup expired /\ ~ Under(h)
  BY <1>2, <1>7
<1> QED BY <1>3, <1>4, <1>5, <1>6, <1>7

\* As many hosts are under way as slots are active, at most.
LEMMA InflightBounded ==
  ASSUME SlotInv, StatusRight
  PROVE  /\ IsFiniteSet(HS!HostsIn("inflight"))
         /\ Cardinality(HS!HostsIn("inflight")) <= active_probes
<1> DEFINE dest == [s \in ActiveSlots |-> probe_table[s].dest]
           under == HS!HostsIn("inflight")
<1>1. IsFiniteSet(ActiveSlots) /\ active_probes = Cardinality(ActiveSlots)
  BY SlotSets DEF SlotInv, ActiveCount, ActiveSlots
<1>2. \A s \in ActiveSlots : probe_table[s].dest \in Hosts
  BY DEF SlotInv, TypeOK, Probes, ActiveSlots
<1>3. under = {h \in Hosts : Under(h)}
  BY DEF HS!HostsIn, StatusRight
<1>4. dest \in Surjection(ActiveSlots, under)
  BY <1>2, <1>3 DEF Under, Surjection
<1> HIDE DEF dest, under
<1>5. IsFiniteSet(under) /\ Cardinality(under) <= Cardinality(ActiveSlots)
  BY <1>1, <1>4, FS_Surjection
<1> QED BY <1>1, <1>5 DEF under

\* A host that stays where it is keeps its status.
LEMMA StatusStays ==
  ASSUME StatusRight, StatusRight', NEW h \in Hosts,
         Listed(h)' <=> Listed(h), Under(h)' <=> Under(h),
         (h \in failed)' <=> h \in failed, (h \in expired)' <=> h \in expired
  PROVE  ScanStatus'[h] = ScanStatus[h]
BY DEF StatusRight

\* A step of the abstract sweep that moves some hosts on, told host by host.
LEMMA HostsMove ==
  ASSUME NEW S, NEW state,
         \A h \in Hosts : ScanStatus'[h] = IF h \in S THEN state ELSE ScanStatus[h]
  PROVE  HS!Become(S, state)
BY DEF HS!Become, ScanStatus

\* Where probes are closed without an answer, their hosts are no longer under way, and
\* no other host is concerned.
LEMMA DroppedStatus ==
  ASSUME SlotInv, Places, StatusRight, StatusRight', Places',
         NEW S, S \subseteq ActiveSlots, CloseSlots(S), UNCHANGED scan_results,
         NEW state,
         \/ /\ failed' = failed \cup {probe_table[s].dest : s \in S}
            /\ expired' = expired /\ state = "skipped"
         \/ /\ expired' = expired \cup {probe_table[s].dest : s \in S}
            /\ failed' = failed /\ state = "expired"
  PROVE  LET dropped == {probe_table[s].dest : s \in S} IN
           /\ dropped \subseteq HS!HostsIn("inflight")
           /\ HS!Become(dropped, state)
<1> DEFINE dropped == {probe_table[s].dest : s \in S}
<1>1. /\ ActiveSlots' = ActiveSlots \ S /\ ActiveSlots \subseteq Slots
      /\ \A s \in ActiveSlots' : probe_table'[s] = probe_table[s]
  <2>1. ActiveSlots' = ActiveSlots \ S /\ ActiveSlots \subseteq Slots
    BY ClosedSlots DEF SlotInv, ActiveSlots
  <2> QED BY <2>1, ClosedSlots DEF SlotInv
<1>2. dropped \subseteq Hosts /\ \A h \in dropped : Under(h)
  BY <1>1 DEF SlotInv, TypeOK, Probes, Under
<1>3. dropped \subseteq HS!HostsIn("inflight")
  BY <1>2 DEF StatusRight, HS!HostsIn
<1>4. \A h \in dropped : ScanStatus'[h] = state
  <2>1. SUFFICES ASSUME NEW h \in dropped PROVE ScanStatus'[h] = state
    OBVIOUS
  <2>2. h \in Hosts /\ ~ Listed(h)' /\ ~ Under(h)'
        /\ ~ (h \in failed' /\ h \in expired')
    BY <1>2 DEF Places, HostInOnePlace, Under
  <2>3. (h \in failed' /\ state = "skipped") \/ (h \in expired' /\ state = "expired")
    OBVIOUS
  <2> HIDE DEF dropped
  <2> QED BY <2>2, <2>3 DEF StatusRight
<1>5. \A h \in Hosts \ dropped : ScanStatus'[h] = ScanStatus[h]
  <2>1. SUFFICES ASSUME NEW h \in Hosts \ dropped PROVE ScanStatus'[h] = ScanStatus[h]
    OBVIOUS
  <2>2. Under(h)' <=> Under(h)
    BY <1>1 DEF Under
  <2>3. (Listed(h)' <=> Listed(h)) /\ ((h \in failed)' <=> h \in failed)
        /\ ((h \in expired)' <=> h \in expired)
    BY DEF Listed
  <2> HIDE DEF dropped
  <2> QED BY <2>2, <2>3, StatusStays
<1> HIDE DEF dropped
<1>6. HS!Become(dropped, state)
  BY <1>4, <1>5, HostsMove
<1> QED BY <1>3, <1>6 DEF dropped

\* Where the hosts stay as they are, the abstract sweep does, or it ends.
LEMMA SameStatus ==
  ASSUME StatusRight, StatusRight',
         UNCHANGED <<probe_table, scan_results, failed, expired>>
  PROVE  ScanStatus' = ScanStatus
BY DEF ScanStatus, Listed, ActiveSlots

\* A probe goes out: to the host of the attempt, which is in no place yet.
LEMMA ConnectProbes ==
  ASSUME SlotInv, Places, StatusRight, StatusRight', Register
  PROVE  HS!Probe(Tried) /\ Tried \in Hosts
<1> DEFINE host == Tried
<1>1. PICK slot \in Slots :
        /\ ActiveSlots' = ActiveSlots \cup {slot} /\ slot \notin ActiveSlots
        /\ probe_table'[slot].dest = host
        /\ \A s \in Slots \ {slot} : probe_table'[s] = probe_table[s]
  BY ConnectedSlot DEF SlotInv
<1>2. /\ host \in Hosts /\ host \notin LocalReserved /\ active_probes < MaxProbes
      /\ UNCHANGED <<scan_results, failed, expired>>
      /\ pc = "register" /\ pc' = "initiate" /\ Frontier = host
  BY DEF Register, Trying, Attempt, SlotInv, Frontier
<1>3. host \notin failed \cup expired /\ ~ Listed(host) /\ ~ Under(host)
  BY <1>2 DEF Places, Passed, Listed, Under, Hosts
<1>4. ScanStatus[host] = "pending"
  BY <1>2, <1>3 DEF StatusRight
<1>5. Cardinality(HS!HostsIn("inflight")) < MaxProbes
  <2>1. Cardinality(HS!HostsIn("inflight")) \in Nat
    BY InflightBounded, FS_CardinalityType
  <2> QED BY <1>2, <2>1, InflightBounded, Sizes DEF SlotInv, TypeOK
<1>6. \A h : Under(h)' <=> Under(h) \/ h = host
  BY <1>1 DEF Under, ActiveSlots
<1>7. ScanStatus'[host] = "inflight"
  BY <1>2, <1>6 DEF StatusRight
<1>8. \A h \in Hosts \ {host} : ScanStatus'[h] = ScanStatus[h]
  BY <1>2, <1>6, StatusStays DEF Listed
<1>9. HS!Become({host}, "inflight")
  BY <1>7, <1>8, HostsMove
<1>10. UNCHANGED ScanPhase
  BY <1>2 DEF ScanPhase
<1> HIDE DEF host
<1>11. HS!Cardinality(HS!HostsIn("inflight")) < MaxProbes
  BY <1>5 DEF HS!Cardinality, Cardinality
<1> QED BY <1>2, <1>4, <1>9, <1>10, <1>11 DEF HS!Probe, host

\* Every step of the scanner is one of the abstract sweep, or none.
LEMMA SweepStep ==
  ASSUME SlotInv, Places, Places', StatusRight, StatusRight', Covered, [Next]_vars
  PROVE  [HS!Next]_<<ScanStatus, ScanPhase>> /\ Covered'
<1> USE DEF SlotInv
<1>1. ASSUME \A h \in Hosts : h < Frontier' => h < Frontier \/ ScanStatus'[h] # "pending",
             \A h \in Hosts : ScanStatus'[h] = "pending" => ScanStatus[h] = "pending"
      PROVE  Covered'
  BY <1>1 DEF Covered
<1>2. ASSUME UNCHANGED <<probe_table, scan_results, failed, expired>>,
             Frontier' = Frontier, ScanPhase' = ScanPhase
      PROVE  ScanStatus' = ScanStatus /\ ScanPhase' = ScanPhase /\ Covered'
  <2>1. ScanStatus' = ScanStatus
    BY <1>2, SameStatus
  <2> QED BY <1>2, <2>1 DEF Covered
<1>3. CASE UNCHANGED vars
  BY <1>2, <1>3 DEF vars, ScanPhase, Frontier, Trying, Tried
<1>4. CASE StartIteration
  <2>1. UNCHANGED <<probe_table, scan_results, failed, expired>> /\ Frontier' = Frontier
        /\ Frontier = next_host_idx
    BY <1>4 DEF StartIteration, Frontier, Trying
  <2>2. CASE WorkLeft
    <3>1. ScanPhase' = ScanPhase
      BY <1>4, <2>2 DEF StartIteration, ScanPhase
    <3> QED BY <1>2, <2>1, <3>1
  <2>3. CASE ~ WorkLeft
    <3>1. next_host_idx = TotalHosts /\ active_probes = 0
      BY <2>3, TcpAssumption, Sizes DEF WorkLeft, TypeOK
    <3>2. ActiveSlots = {}
      BY <3>1, SlotSets, FS_EmptySet DEF ActiveCount, ActiveSlots
    <3>3. \A h \in Hosts : ScanStatus[h] \notin {"pending", "inflight"}
      BY <2>1, <3>1, <3>2, TcpAssumption DEF Covered, StatusRight, Under, Hosts
    <3>4. ScanStatus' = ScanStatus
      BY <2>1, SameStatus
    <3>5. HS!Finish
      BY <1>4, <2>3, <3>3, <3>4 DEF HS!Finish, HS!HostsIn, StartIteration, ScanPhase
    <3>6. ScanPhase = "running"
      BY <1>4 DEF StartIteration, ScanPhase
    <3> QED BY <2>1, <3>4, <3>5, <3>6 DEF HS!Next, Covered
  <2> QED BY <2>2, <2>3
<1>5. CASE Register
  <2>1. HS!Probe(Tried) /\ Tried \in Hosts
    BY <1>5, ConnectProbes
  <2>2. ScanPhase = "running"
    BY <1>5 DEF Register, ScanPhase
  <2>3. Frontier' = Frontier + 1 /\ Frontier = Tried
    BY <1>5, Frontiers
  <2>4. ScanStatus'[Tried] = "inflight"
        /\ \A h \in Hosts \ {Tried} : ScanStatus'[h] = ScanStatus[h]
    BY <2>1 DEF HS!Probe, HS!Become
  <2>5. \A h \in Hosts : h < Frontier' => h < Frontier \/ h = Tried
    BY <2>1, <2>3 DEF Hosts
  <2> QED BY <1>1, <2>1, <2>2, <2>4, <2>5 DEF HS!Next
<1>6. CASE SkipReserved \/ SocketFails \/ AttemptFails
  <2> DEFINE host == Frontier
  <2>1. host \in Hosts /\ Frontier' = host + 1
    BY <1>6, Frontiers
  <2>2. /\ UNCHANGED <<probe_table, scan_results, expired>>
        /\ pc # "returned" /\ pc' # "returned"
        /\ SkipReserved => failed' = failed /\ host \in LocalReserved
        /\ ~ SkipReserved => failed' = failed \cup {host} /\ host \notin LocalReserved
    <3>1. CASE SkipReserved
      BY <3>1, Frontiers DEF SkipReserved, MayInitiate, IsReserved
    <3>2. CASE SocketFails
      BY <3>2, Frontiers DEF SocketFails, MayTry, MayInitiate, IsReserved, SkipReserved
    <3>3. CASE AttemptFails
      <4>1. LetGo /\ Trying /\ ~ SkipReserved
        BY <3>3, FailedAttempt DEF SkipReserved, MayInitiate, Trying
      <4> QED BY <3>3, <4>1, Frontiers DEF LetGo, Trying, Attempt
    <3> QED BY <1>6, <3>1, <3>2, <3>3
  <2>3. \A h \in Hosts : h < Frontier' => h < Frontier \/ h = host
    BY <2>1 DEF Hosts
  <2>4. host \notin failed \cup expired /\ ~ Listed(host) /\ ~ Under(host)
    BY <2>1 DEF Places, Passed, Listed, Under, Hosts
  <2> HIDE DEF host
  <2>5. \A h : (Listed(h)' <=> Listed(h)) /\ (Under(h)' <=> Under(h))
    BY <2>2 DEF Listed, Under, ActiveSlots
  <2>6. ScanStatus'[host] # "pending"
    BY <2>1, <2>2 DEF StatusRight
  <2>7. \A h \in Hosts \ {host} : ScanStatus'[h] = ScanStatus[h]
    BY <2>2, <2>5, StatusStays
  <2>8. Covered'
    BY <1>1, <2>3, <2>6, <2>7
  <2>9. CASE SkipReserved
    <3>1. ScanStatus' = ScanStatus /\ ScanPhase' = ScanPhase
      BY <2>2, <2>9, SameStatus DEF ScanPhase
    <3> QED BY <2>8, <3>1
  <2>10. CASE ~ SkipReserved
    <3>1. ScanStatus[host] = "pending"
      BY <2>1, <2>2, <2>4, <2>10 DEF StatusRight
    <3>2. ScanStatus'[host] = "skipped"
      BY <2>1, <2>2, <2>4, <2>5, <2>10 DEF StatusRight
    <3>3. HS!Become({host}, "skipped")
      BY <2>7, <3>2, HostsMove
    <3>4. ScanPhase = "running" /\ UNCHANGED ScanPhase
      BY <2>2 DEF ScanPhase
    <3>5. HS!Skip(host)
      BY <3>1, <3>3, <3>4 DEF HS!Skip
    <3> QED BY <2>1, <2>8, <3>4, <3>5 DEF HS!Next
  <2> QED BY <2>9, <2>10
<1>7. CASE HandleOpen
  <2> DEFINE host == probe_table[Head(events)].dest
  <2>0. Frontier' = Frontier
    BY <1>7 DEF HandleOpen, NextEvent, Frontier, Trying
  <2>1. Head(events) \in ActiveSlots /\ ActiveSlots \subseteq Slots
        /\ CloseSlots({Head(events)})
    BY <1>7, NextEvents DEF HandleOpen, NextEvent, ActiveSlots
  <2>2. host \in Hosts /\ Under(host)
    BY <2>1 DEF Under, TypeOK, Probes
  <2>3. \A h : Listed(h)' <=> Listed(h) \/ h = host
    BY <1>7, <2>0, ListedHost
  <2>4. ScanStatus[host] = "inflight" /\ ScanStatus'[host] = "reported"
    BY <2>2, <2>3 DEF StatusRight
  <2>5. {Head(events)} \subseteq ActiveSlots
    BY <2>1
  <2>6. /\ ActiveSlots' = ActiveSlots \ {Head(events)}
        /\ \A s \in ActiveSlots' : probe_table'[s] = probe_table[s]
    BY <2>1, <2>5, ClosedSlots
  <2>7. UNCHANGED <<failed, expired, pc>> /\ pc = "events" /\ Frontier' = Frontier
    BY <1>7 DEF HandleOpen, NextEvent, Frontier, Trying
  <2>8. \A h \in Hosts \ {host} : Under(h)' <=> Under(h)
    BY <2>6 DEF Under
  <2>9. \A h \in Hosts \ {host} : ScanStatus'[h] = ScanStatus[h]
    BY <2>3, <2>7, <2>8, StatusStays
  <2>10. HS!Become({host}, "reported")
    BY <2>4, <2>9, HostsMove
  <2>11. ScanPhase = "running" /\ UNCHANGED ScanPhase
    BY <2>7 DEF ScanPhase
  <2>12. HS!Report(host)
    BY <2>4, <2>10, <2>11 DEF HS!Report
  <2>13. Covered'
    BY <1>1, <2>4, <2>7, <2>9
  <2> QED BY <2>2, <2>11, <2>12, <2>13 DEF HS!Next
\* Probes that are closed without an answer.
<1>8. ASSUME NEW S, NEW state, HS!Become(S, state), state # "pending",
             Frontier' = Frontier
      PROVE  Covered'
  BY <1>1, <1>8 DEF HS!Become
<1>9. CASE HandleRefused
  <2> DEFINE host == probe_table[Head(events)].dest
             dropped == {probe_table[s].dest : s \in {Head(events)}}
  <2>1. /\ {Head(events)} \subseteq ActiveSlots /\ CloseSlots({Head(events)})
        /\ UNCHANGED <<scan_results, expired, pc>> /\ pc = "events"
        /\ failed' = failed \cup dropped /\ Frontier' = Frontier
    BY <1>9, NextEvents DEF HandleRefused, NextEvent, ActiveSlots, Frontier, Trying
  <2>2. dropped \subseteq HS!HostsIn("inflight") /\ HS!Become(dropped, "skipped")
    BY <2>1, DroppedStatus
  <2>3. dropped = {host}
    OBVIOUS
  <2>4. host \in Hosts /\ ScanStatus[host] = "inflight"
    BY <2>2, <2>3 DEF HS!HostsIn
  <2>5. ScanPhase = "running" /\ UNCHANGED ScanPhase
    BY <2>1 DEF ScanPhase
  <2>6. HS!Skip(host)
    BY <2>2, <2>3, <2>4, <2>5 DEF HS!Skip
  <2> HIDE DEF dropped
  <2>7. Covered'
    BY <1>8, <2>1, <2>2
  <2> QED BY <2>4, <2>5, <2>6, <2>7 DEF HS!Next
<1>10. CASE Reap
  <2> DEFINE dropped == {probe_table[s].dest : s \in TimedOut}
  <2>1. /\ TimedOut \subseteq ActiveSlots /\ CloseSlots(TimedOut)
        /\ UNCHANGED <<scan_results, failed>>
        /\ pc = "reap" /\ pc' = "loop"
        /\ expired' = expired \cup dropped /\ Frontier' = Frontier
    BY <1>10 DEF Reap, TimedOut, Frontier, Trying
  <2>2. dropped \subseteq HS!HostsIn("inflight") /\ HS!Become(dropped, "expired")
    BY <2>1, DroppedStatus
  <2> HIDE DEF dropped
  <2>3. ScanPhase = "running" /\ UNCHANGED ScanPhase
    BY <2>1 DEF ScanPhase
  <2>4. Covered'
    BY <1>8, <2>1, <2>2
  <2>5. CASE dropped = {}
    <3>1. \A h \in Hosts : ScanStatus'[h] = ScanStatus[h]
      BY <2>2, <2>5 DEF HS!Become
    <3>2. ScanStatus' = ScanStatus
      BY <3>1 DEF ScanStatus
    <3> QED BY <2>3, <2>4, <3>2
  <2>6. CASE dropped # {}
    <3>1. HS!Expire(dropped)
      BY <2>2, <2>3, <2>6 DEF HS!Expire
    <3> QED BY <2>2, <2>3, <2>4, <3>1 DEF HS!Next
  <2> QED BY <2>5, <2>6
<1>11. CASE Tick \/ SetBack
  <2>1. PICK d \in Int : ClockMoves(d)
    BY <1>11, ClockSteps
  <2>2. UNCHANGED <<pc, scan_results, failed, expired>> /\ Frontier' = Frontier
    BY <2>1 DEF ClockMoves, Frontier, Trying, Tried
  <2>3. \A h : (Under(h)' <=> Under(h)) /\ (Listed(h)' <=> Listed(h))
    BY <2>1, <2>2, ClockKeepsProbes DEF Under, ActiveSlots, Listed
  <2>4. \A h \in Hosts : ScanStatus'[h] = ScanStatus[h]
    BY <2>2, <2>3, StatusStays
  <2>5. ScanStatus' = ScanStatus
    BY <2>4 DEF ScanStatus
  <2> QED BY <2>2, <2>5 DEF ScanPhase, Covered
<1>12. CASE InitiateDone \/ Poll \/ EventsDone \/ Network
  <2>1. UNCHANGED <<probe_table, scan_results, failed, expired>> /\ Frontier' = Frontier
    BY <1>12
    DEF InitiateDone, Poll, EventsDone, Network, Frontier, Trying, Tried
  <2>2. ScanPhase' = ScanPhase
    BY <1>12 DEF InitiateDone, Poll, EventsDone, Network, Outside, Trying, ScanPhase
  <2> QED BY <1>2, <2>1, <2>2
<1>13. CASE OpenSocket \/ SetNonBlocking \/ Connect
  <2>1. ~ (Register \/ AttemptFails \/ SocketFails \/ SkipReserved)
    BY <1>13
    DEF OpenSocket, SetNonBlocking, Connect, Register, AttemptFails, SetNonBlockingFails,
        ConnectFails, RegisterFails, LetGo, SocketFails, SkipReserved, MayTry, MayInitiate
  <2>2. UNCHANGED <<probe_table, scan_results, failed, expired>> /\ Frontier' = Frontier
    BY <1>13, <2>1, Frontiers DEF OpenSocket, SetNonBlocking, Connect
  <2>3. ScanPhase' = ScanPhase
    BY <1>13 DEF OpenSocket, MayTry, MayInitiate, SetNonBlocking, Connect, ScanPhase
  <2> QED BY <1>2, <2>2, <2>3
<1> QED
  BY <1>3, <1>4, <1>5, <1>6, <1>7, <1>9, <1>10, <1>11, <1>12, <1>13
  DEF Next, ScannerStep, Stopped, AttemptFails

\* At first every host but the reserved ones is pending.
LEMMA SweepInit == Init => HS!Init /\ Covered
<1> SUFFICES ASSUME Init PROVE HS!Init /\ Covered
  OBVIOUS
<1>1. \A h \in Hosts : ~ Listed(h) /\ h \notin failed \cup expired /\ ~ Under(h)
  BY DEF Init, Listed, Under, ActiveSlots, FreeProbe
<1>2. ScanStatus = [h \in Hosts |-> IF h \in LocalReserved THEN "skipped" ELSE "pending"]
  BY <1>1 DEF ScanStatus, Under
<1>3. ScanPhase = "running"
  BY DEF Init, ScanPhase
<1>4. Covered
  BY DEF Init, Covered, Hosts, Frontier, Trying
<1> QED BY <1>2, <1>3, <1>4 DEF HS!Init

\* The TCP sweep keeps the promise of every sweep: it settles each host exactly once,
\* with at most max_probes_ under way, and returns only when none is left.
THEOREM TcpSweeps == Spec => ImplementsHostScan
<1>1. Places => StatusRight
  BY StatusNamesPlace DEF Places
<1>2. SlotInv /\ Places /\ Places' /\ StatusRight /\ StatusRight' /\ Covered /\ [Next]_vars
        => [HS!Next]_<<ScanStatus, ScanPhase>> /\ Covered'
  BY SweepStep
<1>3. Spec => HS!Init /\ [][HS!Next]_<<ScanStatus, ScanPhase>>
  BY <1>1, <1>2, SweepInit, SlotsInvariant, PlacesInvariant, PTL DEF Spec
<1> QED BY <1>3 DEF ImplementsHostScan, HS!Spec
=============================================================================
