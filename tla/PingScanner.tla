----------------------------- MODULE PingScanner -----------------------------
(***************************************************************************)
(* PingScanner::run (src/src/ping_scanner.cpp): one thread that sends      *)
(* batches of echo requests, reads the answers from an edge-triggered      *)
(* epoll, and reaps the probes that ran into the timeout.                  *)
(*                                                                         *)
(* An address is its index in the range.  A timestamp is the time elapsed  *)
(* since it was taken.  ICMP sequence numbers, which the scanner writes    *)
(* and never reads back, and the text of a result are left out.            *)
(***************************************************************************)
EXTENDS IcmpSocket, Functions

CONSTANTS
  TotalHosts,       \* config.total_hosts
  ConfigProbes,     \* config.max_probes (-c)
  ConfigSendBatch,  \* config.send_batch_size (-s)
  ConfigRecvBatch,  \* config.recv_batch_size (-r)
  Timeout,          \* config.timeout_ms (-t), in units of the clock's ticks
  LocalReserved,    \* network and broadcast address of the local interface
  Refused,          \* destinations sendmmsg refuses with a hard error
  RecvErrors,       \* recvmmsg may fail with more than EAGAIN
  MaxRuns           \* bound: calls of run() on the same object

Smaller(a, b) == IF a < b THEN a ELSE b

Hosts == 0 .. TotalHosts - 1
MaxProbes == Smaller(ConfigProbes, TotalHosts)
safe_batch_size(val) == Smaller(val, TotalHosts)
SendBatchSize == safe_batch_size(ConfigSendBatch)
RecvBatchSize == safe_batch_size(ConfigRecvBatch)
Slots == 0 .. MaxProbes - 1
NoSlot == -1

\* A slot of the probe table that holds no probe.  release_probe_slot keeps the
\* other fields, but nobody reads them while active is false.
FreeProbe == [active |-> FALSE, dest |-> 0, age |-> 0]

\* A probe limit or a batch size may be zero: run() then spins for ever, sending or
\* receiving nothing.
ASSUME ScannerAssumption ==
  /\ TotalHosts \in Nat
  /\ ConfigProbes \in Nat
  /\ ConfigSendBatch \in Nat
  /\ ConfigRecvBatch \in Nat
  /\ Timeout \in Nat /\ Timeout < MaxAge
  /\ LocalReserved \subseteq Hosts
  /\ Refused \subseteq Hosts
  /\ RecvErrors \in BOOLEAN
  /\ MaxRuns \in Nat \ {0}

VARIABLES
  pc,                  \* where run() and the functions it calls stand
  next_host_idx,
  active_probes,
  probe_table,
  host_to_probe,
  found_ips_cache,
  scan_results,        \* sequence of [host, rtt]
  batch,               \* send_probe_slots_ from sent_total on: slots not yet sent
  inbox,               \* datagrams of the last recvmmsg not yet processed
  more,                \* recvmmsg filled the whole receive batch
  recv_failed,         \* history: the last recvmmsg was cut short by an error
  tx_drops,
  rx_queue_overflows,
  echo_replies,
  unmatched_replies,
  probe_timeouts,
  runs,                \* calls of run() so far
  probed               \* history: hosts whose request sendmmsg took in this run

sweepVars == <<next_host_idx, active_probes, probe_table, host_to_probe>>
foundVars == <<found_ips_cache, scan_results>>
statVars  == <<tx_drops, rx_queue_overflows, echo_replies, unmatched_replies,
               probe_timeouts>>
inVars    == <<inbox, more, recv_failed>>
histVars  == <<runs, probed>>
scannerVars == <<pc, sweepVars, foundVars, statVars, batch, inVars, histVars>>
vars == <<scannerVars, socketVars>>

Init ==
  /\ pc = "send_batch"
  /\ next_host_idx = 0
  /\ active_probes = 0
  /\ probe_table = [s \in Slots |-> FreeProbe]
  /\ host_to_probe = [h \in Hosts |-> NoSlot]
  /\ found_ips_cache = {}
  /\ scan_results = <<>>
  /\ batch = <<>>
  /\ inbox = <<>>
  /\ more = FALSE
  /\ recv_failed = FALSE
  /\ tx_drops = 0
  /\ rx_queue_overflows = 0
  /\ echo_replies = 0
  /\ unmatched_replies = 0
  /\ probe_timeouts = 0
  /\ probed = {}
  /\ runs = 1
  /\ SocketInit

ActiveSlots == {s \in Slots : probe_table[s].active}
FreeSlots == Slots \ ActiveSlots
Over == pc \in {"returned", "aborted"}

-----------------------------------------------------------------------------
(* run: the loop head                                                      *)

MutWorkLeft == next_host_idx < TotalHosts   \* mutant: probes under way forgotten
WorkLeft == next_host_idx < TotalHosts \/ active_probes > 0

StartIteration ==
  /\ pc = "send_batch"
  /\ pc' = IF WorkLeft THEN "populate" ELSE "returned"
  /\ UNCHANGED <<sweepVars, foundVars, statVars, batch, inVars, histVars, socketVars>>

-----------------------------------------------------------------------------
(* populate_batch_entries, one iteration per step.  The batch's timestamp  *)
(* was taken at the loop head; nothing here takes time.                    *)

MutMayPopulate ==   \* mutant: the batch is not bounded
  next_host_idx < TotalHosts /\ active_probes < MaxProbes /\ FreeSlots # {}

MayPopulate ==
  /\ next_host_idx < TotalHosts
  /\ active_probes < MaxProbes
  /\ Len(batch) < SendBatchSize
  /\ FreeSlots # {}

MutFound(h) == FALSE   \* mutant: nobody is remembered
is_host_found(h) == h \in found_ips_cache

MutMustSkip(h) == is_host_found(h) \/ host_to_probe[h] # NoSlot   \* mutant: network address
MustSkip(h) == h \in LocalReserved \/ is_host_found(h) \/ host_to_probe[h] # NoSlot

SkipHost ==
  /\ pc = "populate" /\ MayPopulate
  /\ MustSkip(next_host_idx)
  /\ next_host_idx' = next_host_idx + 1
  /\ UNCHANGED <<pc, active_probes, probe_table, host_to_probe, foundVars, statVars,
                 batch, inVars, histVars, socketVars>>

\* find_available_probe_slot: the first slot that is free.
Available(slot) == slot \in FreeSlots /\ \A other \in FreeSlots : slot <= other

EnqueueProbe ==
  /\ pc = "populate" /\ MayPopulate
  /\ ~ MustSkip(next_host_idx)
  /\ \E slot \in Slots :
       /\ Available(slot)
       /\ probe_table' = [probe_table EXCEPT ![slot] =
                            [active |-> TRUE, dest |-> next_host_idx, age |-> 0]]
       /\ host_to_probe' = [host_to_probe EXCEPT ![next_host_idx] = slot]
       /\ batch' = Append(batch, slot)
  /\ next_host_idx' = next_host_idx + 1
  /\ active_probes' = active_probes + 1
  /\ UNCHANGED <<pc, foundVars, statVars, inVars, histVars, socketVars>>

PopulateDone ==
  /\ pc = "populate" /\ ~ MayPopulate
  /\ pc' = IF batch = <<>> THEN "receive" ELSE "flush"
  /\ UNCHANGED <<sweepVars, foundVars, statVars, batch, inVars, histVars, socketVars>>

-----------------------------------------------------------------------------
(* release_probe_slot and the same lines in reap_timed_out_probes and      *)
(* process_received_packet, for a set of slots at once.                    *)

MutMinus(n, k) == IF n > 0 THEN n - 1 ELSE 0   \* mutant: one decrement per pass
Minus(n, k) == IF n > k THEN n - k ELSE 0

\* The slot host_to_probe gives is the host's own.
MutPointsAt(h, s) == FALSE   \* mutant: the host keeps pointing at the slot
PointsAt(h, s) == probe_table[s].dest = h /\ host_to_probe[h] = s

ReleaseSlots(S) ==
  LET held == S \cap ActiveSlots IN
  /\ host_to_probe' = [h \in Hosts |->
       IF \E s \in held : PointsAt(h, s) THEN NoSlot ELSE host_to_probe[h]]
  /\ probe_table' = [s \in Slots |-> IF s \in held THEN FreeProbe ELSE probe_table[s]]
  /\ active_probes' = Minus(active_probes, Cardinality(held))

-----------------------------------------------------------------------------
(* flush_send_queue: sendmmsg takes a prefix of the batch, here message by *)
(* message.                                                                *)

Target == probe_table[Head(batch)].dest

FlushSend ==
  /\ pc = "flush" /\ batch # <<>>
  /\ Target \notin Refused
  /\ ~ SendBufferFull
  /\ txq' = txq \cup {[target |-> Target, age |-> probe_table[Head(batch)].age]}
  /\ probed' = probed \cup {Target}
  /\ batch' = Tail(batch)
  /\ UNCHANGED <<pc, sweepVars, foundVars, statVars, inVars, runs,
                 net, rxq, rxdrops, dups, setbacks, interest, ready>>

\* EAGAIN: wait_for_socket_writable asks epoll for EPOLLOUT too.
FlushThrottled ==
  /\ pc = "flush" /\ batch # <<>>
  /\ Target \notin Refused
  /\ SendBufferFull
  /\ tx_drops' = tx_drops + 1
  /\ EpollModify({"IN", "OUT"})
  /\ pc' = "writable"
  /\ UNCHANGED <<sweepVars, foundVars, rx_queue_overflows, echo_replies,
                 unmatched_replies, probe_timeouts, batch, inVars, histVars,
                 txq, net, rxq, rxdrops, dups, setbacks>>

MutUnsent == Range(Tail(batch))   \* mutant: the loop starts one too late
Unsent == Range(batch)

\* The probes that were not sent are taken back, and run() breaks off.
GiveUpBatch ==
  /\ pc' = "aborted"
  /\ ReleaseSlots(Unsent)
  /\ next_host_idx' = next_host_idx - Len(batch)
  /\ batch' = <<>>
  /\ UNCHANGED <<foundVars, statVars, inVars, histVars>>

FlushRefused ==
  /\ pc = "flush" /\ batch # <<>>
  /\ Target \in Refused
  /\ GiveUpBatch
  /\ UNCHANGED socketVars

FlushDone ==
  /\ pc = "flush" /\ batch = <<>>
  /\ pc' = "receive"
  /\ UNCHANGED <<sweepVars, foundVars, statVars, batch, inVars, histVars, socketVars>>

-----------------------------------------------------------------------------
(* wait_for_socket_writable: the loop around epoll_wait.  EINTR goes round *)
(* it without a change.                                                    *)

WritableEvent ==
  /\ pc = "writable"
  /\ "OUT" \in EpollEvents
  /\ EpollModify({"IN"})
  /\ pc' = "flush"
  /\ UNCHANGED <<sweepVars, foundVars, statVars, batch, inVars, histVars,
                 txq, net, rxq, rxdrops, dups, setbacks>>

\* Only EPOLLIN: the edge is consumed and the loop waits on.
WritableOtherEvent ==
  /\ pc = "writable"
  /\ EpollEvents = {"IN"}
  /\ ready' = FALSE
  /\ UNCHANGED <<scannerVars, txq, net, rxq, rxdrops, dups, setbacks, interest>>

WritableTimeout ==
  /\ pc = "writable"
  /\ EpollEvents = {}
  /\ EpollModify({"IN"})
  /\ GiveUpBatch
  /\ UNCHANGED <<txq, net, rxq, rxdrops, dups, setbacks>>

-----------------------------------------------------------------------------
(* receive_responses: epoll_wait, then recvmmsg until the buffer is empty. *)

ReceiveReady ==
  /\ pc = "receive"
  /\ "IN" \in EpollEvents
  /\ ready' = FALSE
  /\ pc' = "drain"
  /\ UNCHANGED <<sweepVars, foundVars, statVars, batch, inVars, histVars,
                 txq, net, rxq, rxdrops, dups, setbacks, interest>>

\* After EPOLL_TIMEOUT_MS, or on EINTR, which epoll_wait returns only with nothing
\* to report.
ReceiveTimeout ==
  /\ pc = "receive"
  /\ "IN" \notin EpollEvents
  /\ ready' = FALSE
  /\ pc' = "reap"
  /\ UNCHANGED <<sweepVars, foundVars, statVars, batch, inVars, histVars,
                 txq, net, rxq, rxdrops, dups, setbacks, interest>>

MutFullBatch(k) == k > RecvBatchSize   \* mutant: a full batch ends the loop too
FullBatch(k) == k >= RecvBatchSize

\* recvmmsg takes k datagrams; the loop goes on after a full batch only.
Take(k, error) ==
  /\ recv_failed' = error
  /\ inbox' = SubSeq(rxq, 1, k)
  /\ rxq' = SubSeq(rxq, k + 1, Len(rxq))
  /\ more' = FullBatch(k)
  /\ pc' = IF k = 0 THEN "reap" ELSE "process"
  /\ UNCHANGED <<sweepVars, foundVars, statVars, batch, histVars,
                 txq, net, rxdrops, dups, setbacks, interest, ready>>

Drain ==
  /\ pc = "drain"
  /\ Take(Received(RecvBatchSize), FALSE)

\* An error ends recvmmsg early: it returns what it has, or fails at once.
DrainFails ==
  /\ pc = "drain" /\ RecvErrors
  /\ \E k \in 0 .. Received(RecvBatchSize) - 1 : Take(k, TRUE)

ProcessDone ==
  /\ pc = "process" /\ inbox = <<>>
  /\ pc' = IF more THEN "drain" ELSE "reap"
  /\ UNCHANGED <<sweepVars, foundVars, statVars, batch, inVars, histVars, socketVars>>

-----------------------------------------------------------------------------
(* process_received_packet for one datagram, after extract_control_data.   *)

Larger(a, b) == IF a > b THEN a ELSE b

\* extract_control_data keeps the highest drop count seen; a runt is passed over
\* before its control data is read.
MutOverflows(reply) == rx_queue_overflows + reply.drops   \* mutant: a total added up
Overflows(reply) ==
  IF reply.kind = "runt" THEN rx_queue_overflows
  ELSE Larger(reply.drops, rx_queue_overflows)

\* The next datagram, with the counters it bumps.
NextDatagram(reply, echo, unmatched) ==
  /\ inbox' = Tail(inbox)
  /\ rx_queue_overflows' = Overflows(reply)
  /\ echo_replies' = echo_replies + echo
  /\ unmatched_replies' = unmatched_replies + unmatched
  /\ UNCHANGED <<pc, next_host_idx, batch, more, recv_failed, tx_drops,
                 probe_timeouts, histVars, socketVars>>

Unchanged == UNCHANGED <<active_probes, probe_table, host_to_probe, foundVars>>

Echo(reply) == reply.kind = "echo"

PassOver(reply) ==
  /\ reply.kind \in {"runt", "other"}
  /\ NextDatagram(reply, 0, 0)
  /\ Unchanged

CountShort(reply) ==
  /\ reply.kind = "short"
  /\ NextDatagram(reply, 0, 1)
  /\ Unchanged

MutCountForeign(reply) ==   \* mutant: not counted as unmatched
  reply.kind = "foreign" /\ NextDatagram(reply, 1, 0) /\ Unchanged

CountForeign(reply) ==
  /\ reply.kind = "foreign"
  /\ NextDatagram(reply, 1, 1)
  /\ Unchanged

CountDuplicate(reply) ==
  /\ Echo(reply) /\ is_host_found(reply.target)
  /\ NextDatagram(reply, 1, 1)
  /\ Unchanged

MutHolds(slot, h) == FALSE   \* mutant: the slot is left to the timeout
MutAnyHolds(slot, h) == TRUE   \* mutant: the count drops without a look at the slot
Holds(slot, h) ==
  slot # NoSlot /\ probe_table[slot].active /\ probe_table[slot].dest = h

\* The slot is freed if it still holds the host; the reply counts either way,
\* with the round trip time of the timestamps in it.
RecordReply(reply) ==
  LET h == reply.target
      slot == host_to_probe[h]
      held == Holds(slot, h)
  IN
  /\ Echo(reply) /\ ~ is_host_found(h)
  /\ NextDatagram(reply, 1, 0)
  /\ found_ips_cache' = found_ips_cache \cup {h}
  /\ probe_table' = [s \in Slots |-> IF held /\ s = slot THEN FreeProbe ELSE probe_table[s]]
  /\ active_probes' = IF held THEN Minus(active_probes, 1) ELSE active_probes
  /\ host_to_probe' = [host_to_probe EXCEPT ![h] = NoSlot]
  /\ scan_results' = Append(scan_results, [host |-> h, rtt |-> reply.age])

ProcessPacket ==
  /\ pc = "process" /\ inbox # <<>>
  /\ LET reply == Head(inbox) IN
       \/ PassOver(reply)
       \/ CountShort(reply)
       \/ CountForeign(reply)
       \/ CountDuplicate(reply)
       \/ RecordReply(reply)

-----------------------------------------------------------------------------
(* reap_timed_out_probes                                                   *)

MutTimedOut == {s \in ActiveSlots : probe_table[s].age >= Timeout}   \* mutant: too early
MutTimedOutSlot == {s \in ActiveSlots \ {0} : probe_table[s].age > Timeout}   \* mutant: slot 0
TimedOut == {s \in ActiveSlots : probe_table[s].age > Timeout}

Reap ==
  /\ pc = "reap"
  /\ ReleaseSlots(TimedOut)
  /\ probe_timeouts' = probe_timeouts + Cardinality(TimedOut)
  /\ pc' = "send_batch"
  /\ UNCHANGED <<next_host_idx, foundVars, tx_drops, rx_queue_overflows,
                 echo_replies, unmatched_replies, batch, inVars, histVars, socketVars>>

\* run() is called again on the same object.  It resets tables and counters, and its
\* locals start anew; the socket is the one that the constructor opened, with
\* whatever is still in it.
Rerun ==
  /\ Over /\ runs < MaxRuns
  /\ pc' = "send_batch"
  /\ next_host_idx' = 0
  /\ active_probes' = 0
  /\ probe_table' = [s \in Slots |-> FreeProbe]
  /\ host_to_probe' = [h \in Hosts |-> NoSlot]
  /\ found_ips_cache' = {}
  /\ scan_results' = <<>>
  /\ batch' = <<>>
  /\ inbox' = <<>>
  /\ more' = FALSE
  /\ tx_drops' = 0
  /\ rx_queue_overflows' = 0
  /\ echo_replies' = 0
  /\ unmatched_replies' = 0
  /\ probe_timeouts' = 0
  /\ probed' = {}
  /\ runs' = runs + 1
  /\ UNCHANGED <<recv_failed, socketVars>>

-----------------------------------------------------------------------------
(* The environment.  It acts where the scanner is in a system call, a DNS  *)
(* lookup or the callback; the steps in between touch memory only, and so  *)
(* commute with it.                                                        *)

Outside == pc \in {"flush", "writable", "receive", "drain", "process"}

Network ==
  /\ Outside
  /\ \/ \E request \in txq : Transmit(request)
     \/ \E reply \in net : Deliver(reply) \/ Overflow(reply)
  /\ UNCHANGED scannerVars

\* The clock moves by d, and the ages of active probes with it.
ClockMoves(d) ==
  /\ Outside
  /\ SocketClock(d)
  /\ probe_table' = [s \in Slots |->
       IF probe_table[s].active THEN [probe_table[s] EXCEPT !.age = Moved(@, d)]
       ELSE probe_table[s]]
  /\ inbox' = Aged(inbox, d)
  /\ <<probe_table', txq', net', rxq', inbox'>> # <<probe_table, txq, net, rxq, inbox>>
  /\ UNCHANGED <<pc, next_host_idx, active_probes, host_to_probe, foundVars,
                 statVars, batch, more, recv_failed, histVars>>

Tick == ClockMoves(1) /\ UNCHANGED setbacks

\* CLOCK_REALTIME may be set back, by a little or behind every timestamp.
SetBack ==
  /\ setbacks < MaxSetBacks
  /\ setbacks' = setbacks + 1
  /\ \E d \in 1 .. MaxAge : ClockMoves(-d)

ScannerStep ==
  \/ StartIteration \/ SkipHost \/ EnqueueProbe \/ PopulateDone
  \/ FlushSend \/ FlushThrottled \/ FlushRefused \/ FlushDone
  \/ WritableEvent \/ WritableOtherEvent \/ WritableTimeout
  \/ ReceiveReady \/ ReceiveTimeout
  \/ Drain \/ DrainFails \/ ProcessPacket \/ ProcessDone \/ Reap

\* run() has returned, and is not called again.
Stopped == Over /\ runs = MaxRuns /\ UNCHANGED vars

Next == ScannerStep \/ Rerun \/ Network \/ Tick \/ SetBack \/ Stopped

Spec == Init /\ [][Next]_vars

\* The scanner's thread runs on; nothing makes the network act, or the clock.
ThreadSpec == Spec /\ WF_vars(ScannerStep)

=============================================================================
