---------------------------- MODULE TcpProperties ----------------------------
(* What TcpScanner must do. *)
EXTENDS TcpScanner

Probes == [active : BOOLEAN, dest : Hosts, sock : Fds \cup {NoFd}, age : Ages]
Connections == [state : ConnStates, age : Ages, slot : Slots \cup {NoSlot}]

\* Every variable stays in its type; in particular active_probes, a size_t that is
\* decremented without a guard, never falls below zero.
TypeOK ==
  /\ pc \in {"loop", "initiate", "configure", "connect", "register", "poll", "events",
             "reap", "returned"}
  /\ next_host_idx \in 0 .. TotalHosts
  /\ active_probes \in 0 .. MaxProbes
  /\ probe_table \in [Slots -> Probes]
  /\ initiated \in 0 .. BatchSize
  /\ sock \in Fds \cup {NoFd}
  /\ events \in Seq(Slots)
  /\ scan_results \in Seq([host : Hosts, rtt : Ages])
  /\ conn \in [Fds -> Connections]
  /\ setbacks \in 0 .. MaxSetBacks
  /\ failed \subseteq Hosts /\ expired \subseteq Hosts

\* active_probes counts the active slots: the loop ends when, and only when, no
\* probe is left.
ActiveCount == active_probes = Cardinality(ActiveSlots)

OpenFds == {fd \in Fds : conn[fd].state # "none"}
ProbeFds == {probe_table[s].sock : s \in ActiveSlots}

\* The open sockets are those of the active slots and the one being set up, if any:
\* none leaks, whichever call fails on the way, none is closed under a probe or held
\* by two, each is registered with the slot that has it, and run() leaves none open.
SocketsOwned ==
  /\ OpenFds = ProbeFds \cup (IF Trying THEN {sock} ELSE {})
  /\ Trying => sock \notin ProbeFds
  /\ \A s \in ActiveSlots : conn[probe_table[s].sock].slot = s
  /\ pc = "returned" => OpenFds = {}

\* A host is passed over for want of a socket only while every descriptor serves a
\* probe: failed calls before it, and probes that ended, use none up.
UntriedOnlyAtLimit ==
  [][(pc = "initiate" /\ failed' # failed) => Fds \subseteq ProbeFds]_vars

\* An event returned by epoll_wait is still about the probe it was raised for when
\* it is handled: its slot is active, its connection settled, and it comes up once.
EventsCurrent ==
  /\ \A i \in DOMAIN events :
       /\ probe_table[events[i]].active
       /\ conn[probe_table[events[i]].sock].state \in {"open", "refused"}
  /\ \A i, j \in DOMAIN events : events[i] = events[j] => i = j

\* A host is in one place only: under way in one slot, listed once, given up, or
\* not tried.  So an open port is listed once and never also counted out.
HostInOnePlace ==
  /\ \A s, t \in ActiveSlots : probe_table[s].dest = probe_table[t].dest => s = t
  /\ \A i, j \in DOMAIN scan_results :
       scan_results[i].host = scan_results[j].host => i = j
  /\ \A s \in ActiveSlots :
       LET h == probe_table[s].dest IN h \notin failed \cup expired /\ ~ Listed(h)
  /\ failed \cap expired = {}
  /\ \A h \in failed \cup expired : ~ Listed(h)

\* run() comes to its end, whatever connections hang.
Termination == <>(pc = "returned")

\* What became of a host, read off the scanner's state.
ScanStatus ==
  [h \in Hosts |->
     CASE Listed(h)    -> "reported"
       [] h \in failed -> "skipped"
       [] h \in expired -> "expired"
       [] \E s \in ActiveSlots : probe_table[s].dest = h -> "inflight"
       [] OTHER -> IF h \in LocalReserved THEN "skipped" ELSE "pending"]

ScanPhase == IF pc = "returned" THEN "finished" ELSE "running"

HS == INSTANCE HostScan WITH Reserved <- LocalReserved, Limit <- MaxProbes,
                             MayAbandon <- FALSE,
                             status <- ScanStatus, phase <- ScanPhase

\* The TCP sweep settles every host once, with at most max_probes_ under way, and
\* never breaks off.
ImplementsHostScan == HS!Spec

\* "discover hosts with a specified TCP port open", within "Max timeout / RTT in
\* ms": a connection established within the timeout is not thrown away.
OpenInTimeKept ==
  [][\A s \in Slots :
       LET fd == probe_table[s].sock IN
       (probe_table[s].active /\ conn[fd].state = "open" /\ conn[fd].age <= Timeout) =>
         ~ (probe_table[s].dest \in expired' \ expired)]_vars

=============================================================================
