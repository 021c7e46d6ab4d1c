--------------------------- MODULE PingProperties ---------------------------
(***************************************************************************)
(* What PingScanner must do: the invariants of its tables and counters,    *)
(* the wake-ups of its edge-triggered socket, its end, and the sweep       *)
(* HostScan describes.                                                     *)
(***************************************************************************)
EXTENDS PingScanner

Datagrams == [target : Hosts, kind : AllReplyKinds, age : Ages, drops : Nat]
Replies == [target : Hosts, kind : AllReplyKinds, age : Ages]
Requests == [target : Hosts, age : Ages]

SweepTypes ==
  /\ next_host_idx \in 0 .. TotalHosts
  /\ active_probes \in 0 .. MaxProbes
  /\ probe_table \in [Slots -> [active : BOOLEAN, dest : Hosts, age : Ages]]
  /\ host_to_probe \in [Hosts -> Slots \cup {NoSlot}]
  /\ probed \subseteq Hosts
  /\ runs \in Nat

BatchTypes ==
  /\ batch \in Seq(Slots)
  /\ Len(batch) <= SendBatchSize
  /\ Len(batch) <= next_host_idx

FoundTypes ==
  /\ found_ips_cache \subseteq Hosts
  /\ scan_results \in Seq([host : Hosts, rtt : Ages])

StatTypes ==
  /\ tx_drops \in Nat
  /\ rx_queue_overflows \in Nat
  /\ echo_replies \in Nat
  /\ unmatched_replies \in Nat
  /\ probe_timeouts \in Nat

SocketTypes ==
  /\ txq \subseteq Requests
  /\ net \subseteq Replies
  /\ rxq \in Seq(Datagrams)
  /\ inbox \in Seq(Datagrams)
  /\ more \in BOOLEAN
  /\ recv_failed \in BOOLEAN
  /\ rxdrops \in Nat
  /\ dups \in Nat
  /\ setbacks \in Nat
  /\ interest = IF pc = "writable" THEN {"IN", "OUT"} ELSE {"IN"}
  /\ ready \in BOOLEAN

\* Every variable stays in its type; the send batch and the probe count stay
\* within the limits the constructor computed, giving up a batch never moves the
\* cursor below the first host, and the socket waits for EPOLLOUT only inside
\* wait_for_socket_writable.
TypeOK ==
  /\ pc \in {"send_batch", "populate", "flush", "writable", "receive", "drain",
             "process", "reap", "returned", "aborted"}
  /\ SweepTypes
  /\ BatchTypes
  /\ FoundTypes
  /\ StatTypes
  /\ SocketTypes

\* The two tables mirror each other: a host points at a slot exactly when that
\* slot is active and holds the host.  Four places write one or both.
SlotTable ==
  \A h \in Hosts, s \in Slots :
    host_to_probe[h] = s <=> probe_table[s].active /\ probe_table[s].dest = h

\* active_probes, which decides when run() ends and is decremented behind a
\* saturating guard in three places, is the number of active slots.
ActiveCount == active_probes = Cardinality(ActiveSlots)

\* Every active probe was sent or still waits in the batch: giving up a batch leaves
\* no probe behind whose request the kernel did not take.
SentOrBatched ==
  \A s \in ActiveSlots : probe_table[s].dest \in probed \/ s \in Range(batch)

\* "Total unique responsive hosts found" (src/src/main.cpp): late, duplicated
\* and reordered replies never list a host twice, and what is listed is what
\* duplicates are told by.
UniqueHosts ==
  /\ \A i, j \in DOMAIN scan_results :
       scan_results[i].host = scan_results[j].host => i = j
  /\ found_ips_cache = {scan_results[i].host : i \in DOMAIN scan_results}

\* Of one run on a fresh socket: no host is reported that this run did not ask,
\* and no probe is left in the table of a host already reported.
ResultWasProbed ==
  runs = 1 => /\ found_ips_cache \subseteq probed
              /\ \A s \in ActiveSlots : probe_table[s].dest \notin found_ips_cache

\* "Probe Timeouts": every host that was sent a request, or is to be sent one with the
\* batch, is under way, was counted as timed out, or answered; one that answered late
\* may be counted both ways.  So giving up a batch takes nothing back but its unsent
\* part.
ProbeAccounting ==
  runs = 1 =>
    LET asked == Cardinality(probed) + Len(batch) IN
    /\ active_probes + probe_timeouts <= asked
    /\ asked <= active_probes + probe_timeouts + Len(scan_results)

\* The reply counters of the summary: every listed host took one echo reply, and
\* every other echo reply counts as unmatched.
ReplyAccounting ==
  /\ Len(scan_results) <= echo_replies
  /\ echo_replies <= Len(scan_results) + unmatched_replies

\* The reported overflow count is never more than the datagrams really dropped.
OverflowsAreReal == rx_queue_overflows <= rxdrops

\* The edge-triggered socket cannot fall asleep on data: whenever datagrams are
\* queued, either epoll still holds an edge for them or the scanner is inside the
\* loop that drains the queue - even after wait_for_socket_writable consumed
\* edges, and with replies that arrive while a batch is processed.
\* Data is left asleep by an error of recvmmsg alone, which ends the loop early, and
\* then only until the next datagram or throttled send raises an edge.
NoLostWakeup ==
  (rxq # <<>> /\ ~ recv_failed /\ RecvBatchSize > 0) =>
    \/ ready
    \/ pc = "drain" \/ (pc = "process" /\ more)
    \/ pc = "writable"

\* A sweep that was not cut short leaves nothing behind: every probe slot is free,
\* and every host was asked or answered unasked, or is reserved.
SweepComplete ==
  pc = "returned" =>
    /\ active_probes = 0 /\ ActiveSlots = {}
    /\ Hosts \ LocalReserved \subseteq probed \cup found_ips_cache

\* A probe is reaped only after the whole timeout went by since its timestamp,
\* and its slot is not handed to another host before it was settled.
SlotReuse ==
  [][\A s \in Slots :
       (probe_table[s].active /\ probe_table[s] # probe_table'[s] /\ ~ Over) =>
         \/ probe_table'[s].active /\ probe_table'[s].dest = probe_table[s].dest
         \/ /\ ~ probe_table'[s].active
            /\ \/ probe_table[s].age > Timeout
               \/ probe_table[s].dest \in found_ips_cache'
               \/ pc' = "aborted"]_vars

-----------------------------------------------------------------------------
(* Liveness                                                                *)

\* Replies may be lost, waits interrupted and the clock set back: run() comes to its
\* end as long as time passes for it again and again - not at any one of its steps,
\* as the clock may stand still while the thread is between two system calls.
Termination == SF_vars(Tick) => <>(Over /\ runs = MaxRuns)

\* A reply that reached the receive buffer is read: the host is reported, or the
\* run is over.
ReplyRead ==
  \A h \in Hosts :
    (\E i \in DOMAIN rxq : rxq[i].target = h /\ rxq[i].kind = "echo")
      ~> (h \in found_ips_cache \/ Over)

-----------------------------------------------------------------------------
(* A single run implements the abstract sweep.                             *)

\* What became of a host, read off the scanner's tables.
ScanStatus ==
  [h \in Hosts |->
     CASE h \in found_ips_cache       -> "reported"
       [] h \notin found_ips_cache /\ host_to_probe[h] # NoSlot -> "inflight"
       [] h \in probed \ found_ips_cache /\ host_to_probe[h] = NoSlot -> "expired"
       [] OTHER -> IF h \in LocalReserved THEN "skipped" ELSE "pending"]

ScanPhase ==
  CASE pc = "returned" -> "finished"
    [] pc = "aborted"  -> "abandoned"
    [] OTHER           -> "running"

HS == INSTANCE HostScan WITH Reserved <- LocalReserved, Limit <- MaxProbes,
                             MayAbandon <- TRUE,
                             status <- ScanStatus, phase <- ScanPhase

\* Every host is settled once, with at most max_probes_ under way ("Max concurrent
\* probes"), replies are reported in time or late, and nothing reported is lost.
ImplementsHostScan == HS!Spec

-----------------------------------------------------------------------------
(* Statements of the documentation that the program does not keep.         *)

\* "Max timeout / RTT in ms": a host whose reply reached the socket, stamped within
\* the timeout, is among the results of a sweep that went to its end.
InTimeReplyReported ==
  (pc = "returned" /\ KernelStamps) =>
    \A i \in DOMAIN rxq :
      (rxq[i].kind = "echo" /\ rxq[i].age <= Timeout) => rxq[i].target \in found_ips_cache

=============================================================================
