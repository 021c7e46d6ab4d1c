----------------------------- MODULE TcpScanner -----------------------------
(***************************************************************************)
(* TcpScanner::run (src/src/tcp_scanner.cpp): one thread that opens        *)
(* non-blocking connections in batches, polls a level-triggered epoll for  *)
(* the ones that got settled, and reaps the ones that ran into the timeout.*)
(*                                                                         *)
(* An address is its index in the range, a timestamp the time elapsed      *)
(* since it was taken.  The kernel's side is modelled from its use: the    *)
(* process's descriptors, with the connection behind each and the slot it  *)
(* was registered with at epoll.  Epoll is level-triggered: a socket is    *)
(* ready as long as its connection is settled and nobody closed it.        *)
(***************************************************************************)
EXTENDS Integers, Sequences, FiniteSets, Functions

CONSTANTS
  TotalHosts,     \* config.total_hosts
  ConfigProbes,   \* config.max_probes (-c)
  ConfigBatch,    \* config.batch_size (-s)
  Timeout,        \* config.timeout_ms (-t), in ticks of the clock
  LocalReserved,  \* network and broadcast address of the local interface
  FdLimit,        \* descriptors the process has left for its sockets
  MaxSetBacks,    \* bound: times the clock is set back
  MaxAge          \* bound: ages saturate here

Smaller(a, b) == IF a < b THEN a ELSE b

Hosts == 0 .. TotalHosts - 1
MaxProbes == Smaller(ConfigProbes, TotalHosts)
BatchSize == Smaller(ConfigBatch, TotalHosts)
Slots == 0 .. MaxProbes - 1
Ages == 0 .. MaxAge

\* The age of a timestamp once CLOCK_REALTIME has moved by d.
Moved(age, d) ==
  IF age + d > MaxAge THEN MaxAge ELSE IF age + d < 0 THEN 0 ELSE age + d

\* The descriptors of sockets; NoFd stands for none, NoSlot for no registration.
Fds == 1 .. FdLimit
NoFd == 0
NoSlot == -1

\* A slot without a probe; the other fields are not read while active is false.
FreeProbe == [active |-> FALSE, dest |-> 0, sock |-> NoFd, age |-> 0]

\* What is behind a descriptor: nothing, a socket that is not connected yet, a
\* connection under way, established or refused, the age at which the last two came
\* about, and the slot in its epoll registration.
ConnStates == {"none", "fresh", "connecting", "open", "refused"}
NoConn == [state |-> "none", age |-> 0, slot |-> NoSlot]

ASSUME TcpAssumption ==
  /\ TotalHosts \in Nat
  /\ ConfigProbes \in Nat
  /\ ConfigBatch \in Nat
  /\ MaxAge \in Nat
  /\ MaxSetBacks \in Nat
  /\ Timeout \in Nat /\ Timeout < MaxAge
  /\ LocalReserved \subseteq Hosts
  /\ FdLimit \in Nat

VARIABLES
  pc,             \* where run() stands
  next_host_idx,
  active_probes,
  probe_table,    \* [active, dest, sock, age]
  initiated,
  sock,           \* the socket initiate_single_connection works at
  events,         \* slots epoll_wait returned and not yet handled
  scan_results,   \* sequence of [host, rtt]
  conn,           \* external: what is behind each descriptor
  setbacks,       \* external: times the clock was set back so far
  failed,         \* history: hosts that could not be tried, or refused
  expired         \* history: hosts reaped

vars == <<pc, next_host_idx, active_probes, probe_table, initiated, sock, events,
          scan_results, conn, setbacks, failed, expired>>

Init ==
  /\ pc = "loop"
  /\ next_host_idx = 0
  /\ active_probes = 0
  /\ probe_table = [s \in Slots |-> FreeProbe]
  /\ initiated = 0
  /\ sock = NoFd
  /\ events = <<>>
  /\ scan_results = <<>>
  /\ conn = [fd \in Fds |-> NoConn]
  /\ setbacks = 0
  /\ failed = {}
  /\ expired = {}

ActiveSlots == {s \in Slots : probe_table[s].active}
FreeSlots == Slots \ ActiveSlots
Listed(h) == \E i \in DOMAIN scan_results : scan_results[i].host = h

-----------------------------------------------------------------------------
(* run: the loop head                                                      *)

WorkLeft == next_host_idx < TotalHosts \/ active_probes > 0

StartIteration ==
  /\ pc = "loop"
  /\ pc' = IF WorkLeft THEN "initiate" ELSE "returned"
  /\ UNCHANGED <<next_host_idx, active_probes, probe_table, initiated, sock, events,
                 scan_results, conn, setbacks, failed, expired>>

-----------------------------------------------------------------------------
(* initiate_connections; initiate_single_connection is one step per system *)
(* call that may fail, "configure", "connect" and "register" between them. *)

MayInitiate ==
  /\ pc = "initiate"
  /\ next_host_idx < TotalHosts
  /\ active_probes < MaxProbes
  /\ initiated < BatchSize

\* Every way on moves next_host_idx, so the iteration counts.
NextHost ==
  /\ next_host_idx' = next_host_idx + 1
  /\ initiated' = initiated + 1

MutIsReserved(h) == FALSE   \* mutant: the network address is tried too
IsReserved(h) == h \in LocalReserved

SkipReserved ==
  /\ MayInitiate
  /\ IsReserved(next_host_idx)
  /\ NextHost
  /\ UNCHANGED <<pc, active_probes, probe_table, sock, events, scan_results, conn,
                 setbacks, failed, expired>>

\* A host to try, and a slot for it.
MayTry == MayInitiate /\ FreeSlots # {} /\ ~ IsReserved(next_host_idx)

FreeFds == {fd \in Fds : conn[fd].state = "none"}

\* No descriptor is left: the host is never tried.
SocketFails ==
  /\ MayTry
  /\ FreeFds = {}
  /\ NextHost
  /\ failed' = failed \cup {next_host_idx}
  /\ UNCHANGED <<pc, active_probes, probe_table, sock, events, scan_results, conn,
                 setbacks, expired>>

OpenSocket ==
  /\ MayTry
  /\ \E fd \in FreeFds :
       /\ \A other \in FreeFds : fd <= other
       /\ sock' = fd
       /\ conn' = [conn EXCEPT ![fd] = [NoConn EXCEPT !.state = "fresh"]]
  /\ NextHost
  /\ pc' = "configure"
  /\ UNCHANGED <<active_probes, probe_table, events, scan_results, setbacks, failed, expired>>

Trying == pc \in {"configure", "connect", "register"}

\* The host of that socket: the cursor has moved on.
Tried == next_host_idx - 1

SetNonBlocking ==
  /\ pc = "configure"
  /\ pc' = "connect"
  /\ UNCHANGED <<next_host_idx, active_probes, probe_table, initiated, sock, events,
                 scan_results, conn, setbacks, failed, expired>>

\* EINPROGRESS, or established at once: the network may settle it from here on.
Connect ==
  /\ pc = "connect"
  /\ conn' = [conn EXCEPT ![sock].state = "connecting"]
  /\ pc' = "register"
  /\ UNCHANGED <<next_host_idx, active_probes, probe_table, initiated, sock, events,
                 scan_results, setbacks, failed, expired>>

Available(slot) == slot \in FreeSlots /\ \A other \in FreeSlots : slot <= other

\* EPOLL_CTL_ADD with the slot for data; send_time is taken only then.
Register ==
  /\ pc = "register"
  /\ \E slot \in Slots :
       /\ Available(slot)
       /\ probe_table' = [probe_table EXCEPT ![slot] =
                            [active |-> TRUE, dest |-> Tried, sock |-> sock, age |-> 0]]
       /\ conn' = [conn EXCEPT ![sock].slot = slot]
  /\ active_probes' = active_probes + 1
  /\ sock' = NoFd
  /\ pc' = "initiate"
  /\ UNCHANGED <<next_host_idx, initiated, events, scan_results, setbacks, failed, expired>>

MutConnWithout(F) == conn   \* mutant: the sockets stay open and registered
\* close, which takes a socket's registration along.
ConnWithout(F) == [fd \in Fds |-> IF fd \in F THEN NoConn ELSE conn[fd]]

\* Return true, with no probe for the host.
LetGo ==
  /\ failed' = failed \cup {Tried}
  /\ sock' = NoFd
  /\ pc' = "initiate"
  /\ UNCHANGED <<next_host_idx, active_probes, probe_table, initiated, events,
                 scan_results, setbacks, expired>>

Close == conn' = ConnWithout({sock})

SetNonBlockingFails == pc = "configure" /\ LetGo /\ Close

MutConnectFails == pc = "connect" /\ LetGo /\ UNCHANGED conn   \* mutant: close forgotten
ConnectFails == pc = "connect" /\ LetGo /\ Close

MutRegisterFails == pc = "register" /\ LetGo /\ UNCHANGED conn   \* mutant: close forgotten
RegisterFails == pc = "register" /\ LetGo /\ Close

\* The loop ends at its bounds, or for want of a slot.
InitiateDone ==
  /\ pc = "initiate"
  /\ ~ MayInitiate \/ (FreeSlots = {} /\ ~ IsReserved(next_host_idx))
  /\ initiated' = 0
  /\ pc' = "poll"
  /\ UNCHANGED <<next_host_idx, active_probes, probe_table, sock, events, scan_results, conn,
                 setbacks, failed, expired>>

-----------------------------------------------------------------------------
(* poll_connections                                                        *)

\* epoll_wait reports at most batch_size_ of the settled sockets: which, and in what
\* order, is the kernel's affair.  It times out, or is interrupted (EINTR), only with
\* nothing to report.
Ready == {fd \in Fds : conn[fd].slot # NoSlot /\ conn[fd].state \in {"open", "refused"}}

Poll ==
  /\ pc = "poll"
  /\ LET n == Smaller(Cardinality(Ready), BatchSize) IN
       /\ \E reported \in Injection(1 .. n, Ready) :
            events' = [i \in 1 .. n |-> conn[reported[i]].slot]
       /\ pc' = IF n = 0 THEN "reap" ELSE "events"
  /\ UNCHANGED <<next_host_idx, active_probes, probe_table, initiated, sock, scan_results,
                 conn, setbacks, failed, expired>>

MutCount(S) == IF S = {} THEN 0 ELSE 1   \* mutant: one decrement per pass
Count(S) == Cardinality(S)

MutTableWithout(S) == probe_table   \* mutant: the slot stays active
TableWithout(S) == [s \in Slots |-> IF s \in S THEN FreeProbe ELSE probe_table[s]]

\* EPOLL_CTL_DEL, close, active = false.  Nothing guards the decrement.
CloseSlots(S) ==
  /\ probe_table' = TableWithout(S)
  /\ conn' = ConnWithout({probe_table[s].sock : s \in S})
  /\ active_probes' = active_probes - Count(S)

\* The code passes over an event whose slot is no longer active: EventsCurrent shows
\* that there is none.
NextEvent ==
  /\ pc = "events" /\ events # <<>>
  /\ events' = Tail(events)
  /\ UNCHANGED <<pc, next_host_idx, initiated, sock, setbacks, expired>>

\* SO_ERROR is 0: the port is open.  The round trip time is taken only now.
HandleOpen ==
  /\ NextEvent
  /\ LET slot == Head(events)
         probe == probe_table[slot] IN
       /\ probe.active /\ conn[probe.sock].state = "open"
       /\ CloseSlots({slot})
       /\ scan_results' = IF Listed(probe.dest) THEN scan_results
                          ELSE Append(scan_results, [host |-> probe.dest, rtt |-> probe.age])
  /\ UNCHANGED failed

HandleRefused ==
  /\ NextEvent
  /\ LET slot == Head(events)
         probe == probe_table[slot] IN
       /\ probe.active /\ conn[probe.sock].state # "open"
       /\ CloseSlots({slot})
       /\ failed' = failed \cup {probe.dest}
  /\ UNCHANGED scan_results

EventsDone ==
  /\ pc = "events" /\ events = <<>>
  /\ pc' = "reap"
  /\ UNCHANGED <<next_host_idx, active_probes, probe_table, initiated, sock, events,
                 scan_results, conn, setbacks, failed, expired>>

-----------------------------------------------------------------------------
(* reap_timed_out_probes                                                   *)

MutTimedOut == {s \in ActiveSlots \ {0} : probe_table[s].age > Timeout}   \* mutant: slot 0
TimedOut == {s \in ActiveSlots : probe_table[s].age > Timeout}

Reap ==
  /\ pc = "reap"
  /\ CloseSlots(TimedOut)
  /\ expired' = expired \cup {probe_table[s].dest : s \in TimedOut}
  /\ pc' = "loop"
  /\ UNCHANGED <<next_host_idx, initiated, sock, events, scan_results, setbacks, failed>>

-----------------------------------------------------------------------------
(* The network and the clock, while the scanner is in a system call, a DNS *)
(* lookup or the callback; its other steps touch memory only.              *)

Outside == Trying \/ pc \in {"initiate", "poll", "events"}

\* A connection attempt is settled, and its socket is ready; the age of one that is
\* not registered yet is counted from now on.
Settle(fd, state) ==
  /\ conn[fd].state = "connecting"
  /\ conn' = [conn EXCEPT ![fd].state = state,
                          ![fd].age = IF conn[fd].slot = NoSlot THEN 0
                                      ELSE probe_table[conn[fd].slot].age]

Network ==
  /\ Outside
  /\ \E fd \in Fds : Settle(fd, "open") \/ Settle(fd, "refused")
  /\ UNCHANGED <<pc, next_host_idx, active_probes, probe_table, initiated, sock, events,
                 scan_results, setbacks, failed, expired>>

\* The clock moves by d, and the ages of active probes with it.
ClockMoves(d) ==
  /\ Outside
  /\ probe_table' = [s \in Slots |->
       IF probe_table[s].active THEN [probe_table[s] EXCEPT !.age = Moved(@, d)]
       ELSE probe_table[s]]
  /\ probe_table' # probe_table
  /\ UNCHANGED <<pc, next_host_idx, active_probes, initiated, sock, events, scan_results, conn,
                 failed, expired>>

Tick == ClockMoves(1) /\ UNCHANGED setbacks

\* CLOCK_REALTIME may be set back, by a little or behind every timestamp.
SetBack ==
  /\ setbacks < MaxSetBacks
  /\ setbacks' = setbacks + 1
  /\ \E d \in 1 .. MaxAge : ClockMoves(-d)

ScannerStep ==
  \/ StartIteration
  \/ SkipReserved \/ SocketFails \/ OpenSocket
  \/ SetNonBlocking \/ SetNonBlockingFails \/ Connect \/ ConnectFails
  \/ Register \/ RegisterFails \/ InitiateDone
  \/ Poll \/ HandleOpen \/ HandleRefused \/ EventsDone \/ Reap

\* run() has returned.
Stopped == pc = "returned" /\ UNCHANGED vars

Next == ScannerStep \/ Network \/ Tick \/ SetBack \/ Stopped

Spec == Init /\ [][Next]_vars

\* The thread runs on and time passes for it.
FairSpec == Spec /\ WF_vars(ScannerStep) /\ SF_vars(Tick)

=============================================================================
