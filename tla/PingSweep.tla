------------------------------ MODULE PingSweep ------------------------------
(* How far the ping sweep has come: which hosts were asked, answered or    *)
(* counted, and that one run implements the abstract sweep, for every value *)
(* of the constants.                                                       *)
EXTENDS PingSafety

-----------------------------------------------------------------------------
(* The inductive invariants                                                *)

\* The batch holds slots only between populate_batch_entries and the end of
\* flush_send_queue, each once, and each of a probe that was not sent before.
BatchInv ==
  /\ runs >= 1
  /\ pc \notin {"populate", "flush", "writable"} => batch = <<>>
  /\ \A i, j \in DOMAIN batch : batch[i] = batch[j] => i = j
  /\ \A i \in DOMAIN batch :
       probe_table[batch[i]].active /\ probe_table[batch[i]].dest \notin probed

\* Unless the batch was given up, which moves the cursor back, nobody was asked
\* beyond it; and nobody ever asks the reserved addresses.
CursorInv ==
  /\ \A s \in ActiveSlots : probe_table[s].dest \notin LocalReserved
  /\ pc # "aborted" =>
       /\ \A h \in probed : h < next_host_idx
       /\ \A s \in ActiveSlots : probe_table[s].dest < next_host_idx

\* On a fresh socket, whatever is under way or was read was asked for in this run.
AskedFor(q) == \A i \in DOMAIN q : q[i].target \in probed

AskedInv ==
  runs = 1 => /\ ResultWasProbed
              /\ \A request \in txq : request.target \in probed
              /\ \A reply \in net : reply.target \in probed
              /\ AskedFor(rxq) /\ AskedFor(inbox)

\* No host is skipped but the reserved ones, and run() returns at the end only.
SettledInv ==
  /\ pc # "aborted" =>
       \A h \in Hosts \ LocalReserved :
         h < next_host_idx =>
           \/ h \in probed \cup found_ips_cache
           \/ \E s \in ActiveSlots : probe_table[s].dest = h
  /\ pc = "returned" => next_host_idx = TotalHosts /\ active_probes = 0

-----------------------------------------------------------------------------
(* What the steps do to probes and batch                                   *)

\* populate_batch_entries puts the host at the cursor into a free slot, and the slot
\* behind the batch.
LEMMA EnqueuedProbe ==
  ASSUME TypeOK, EnqueueProbe
  PROVE  /\ next_host_idx \in Hosts /\ next_host_idx' = next_host_idx + 1
         /\ next_host_idx \notin LocalReserved \cup found_ips_cache
         /\ host_to_probe[next_host_idx] = NoSlot
         /\ pc = "populate" /\ pc' = "populate"
         /\ UNCHANGED <<probed, runs, found_ips_cache, scan_results, inbox, socketVars>>
         /\ \E slot \in Slots :
              /\ slot \notin ActiveSlots
              /\ ActiveSlots' = ActiveSlots \cup {slot}
              /\ \A s \in Slots : probe_table'[s] = IF s = slot
                   THEN [active |-> TRUE, dest |-> next_host_idx, age |-> 0]
                   ELSE probe_table[s]
              /\ \A h \in Hosts : host_to_probe'[h] = IF h = next_host_idx THEN slot
                                                      ELSE host_to_probe[h]
              /\ \A i \in DOMAIN batch' :
                   \/ i \in DOMAIN batch /\ batch'[i] = batch[i]
                   \/ i = Len(batch) + 1 /\ batch'[i] = slot
<1>1. PICK slot \in Slots :
        /\ Available(slot)
        /\ probe_table' = [probe_table EXCEPT ![slot] =
                             [active |-> TRUE, dest |-> next_host_idx, age |-> 0]]
        /\ host_to_probe' = [host_to_probe EXCEPT ![next_host_idx] = slot]
        /\ batch' = Append(batch, slot)
  BY DEF EnqueueProbe
<1>2. /\ next_host_idx \in Hosts /\ next_host_idx' = next_host_idx + 1
      /\ next_host_idx \notin LocalReserved \cup found_ips_cache
      /\ host_to_probe[next_host_idx] = NoSlot
  BY ScannerAssumption
  DEF EnqueueProbe, MayPopulate, MustSkip, is_host_found, TypeOK, SweepTypes, Hosts
<1>3. slot \notin ActiveSlots
  BY <1>1 DEF Available, FreeSlots
<1>4. /\ \A s \in Slots : probe_table'[s] = IF s = slot
           THEN [active |-> TRUE, dest |-> next_host_idx, age |-> 0] ELSE probe_table[s]
      /\ \A h \in Hosts : host_to_probe'[h] = IF h = next_host_idx THEN slot
                                              ELSE host_to_probe[h]
  BY <1>1 DEF TypeOK, SweepTypes
<1>5. ActiveSlots' = ActiveSlots \cup {slot}
  BY <1>4 DEF ActiveSlots
<1>6. batch \in Seq(Slots)
  BY DEF TypeOK, BatchTypes
<1>7. /\ Len(batch) \in Nat /\ DOMAIN batch = 1 .. Len(batch)
      /\ DOMAIN batch' = 1 .. Len(batch) + 1
      /\ batch'[Len(batch) + 1] = slot
      /\ \A i \in 1 .. Len(batch) : batch'[i] = batch[i]
  BY <1>1, <1>6, AppendProperties, LenProperties
<1>8. \A i \in DOMAIN batch' : \/ i \in DOMAIN batch /\ batch'[i] = batch[i]
                               \/ i = Len(batch) + 1 /\ batch'[i] = slot
  BY <1>7
<1>9. /\ pc = "populate" /\ pc' = "populate"
      /\ UNCHANGED <<probed, runs, found_ips_cache, scan_results, inbox, socketVars>>
  BY DEF EnqueueProbe, histVars, foundVars, inVars
<1> QED BY <1>2, <1>3, <1>4, <1>5, <1>8, <1>9

\* The request at the head of the batch goes out.
LEMMA SentRequest ==
  ASSUME TypeOK, FlushSend
  PROVE  /\ 1 \in DOMAIN batch /\ Head(batch) = batch[1] /\ Head(batch) \in Slots
         /\ Target \in Hosts
         /\ \A i \in DOMAIN batch' :
              /\ i \in Nat \ {0} /\ i + 1 \in DOMAIN batch
              /\ batch'[i] = batch[i + 1]
         /\ probed' = probed \cup {Target}
         /\ txq' = txq \cup {[target |-> Target, age |-> probe_table[Head(batch)].age]}
         /\ UNCHANGED <<pc, sweepVars, foundVars, inbox, runs, net, rxq>>
<1>1. batch \in Seq(Slots) /\ batch # <<>> /\ batch' = Tail(batch)
  BY DEF FlushSend, TypeOK, BatchTypes
<1>2. Len(batch) \in Nat \ {0} /\ DOMAIN batch = 1 .. Len(batch)
  BY <1>1, LenProperties, EmptySeq
<1>3. /\ Head(batch) \in Slots /\ Head(batch) = batch[1]
      /\ Tail(batch) \in Seq(Slots) /\ Len(Tail(batch)) = Len(batch) - 1
      /\ \A i \in 1 .. Len(Tail(batch)) : Tail(batch)[i] = batch[i + 1]
  BY <1>1, <1>2, HeadTailProperties
<1>4. DOMAIN Tail(batch) = 1 .. Len(batch) - 1
  BY <1>3, LenProperties
<1>5. Target \in Hosts
  BY <1>3 DEF Target, TypeOK, SweepTypes
<1> QED BY <1>1, <1>2, <1>3, <1>4, <1>5 DEF FlushSend, inVars

\* A clock that moves leaves alone what is not a timestamp.
LEMMA ClockKeepsHosts ==
  ASSUME TypeOK, Tick \/ SetBack
  PROVE  /\ UNCHANGED <<pc, next_host_idx, active_probes, host_to_probe, foundVars,
                        statVars, batch, more, recv_failed, histVars>>
         /\ ActiveSlots' = ActiveSlots
         /\ \A s \in Slots : /\ probe_table'[s].active = probe_table[s].active
                             /\ probe_table'[s].dest = probe_table[s].dest
         /\ \E d \in Int : SocketClock(d) /\ inbox' = Aged(inbox, d)
<1>1. PICK d \in Int : ClockMoves(d)
  BY ClockSteps
<1>2. \A s \in Slots : /\ probe_table'[s].active = probe_table[s].active
                       /\ probe_table'[s].dest = probe_table[s].dest
  BY <1>1 DEF ClockMoves, TypeOK, SweepTypes
<1> QED BY <1>1, <1>2 DEF ClockMoves, ActiveSlots

\* The three places that release slots free active ones, and touch no other.
LEMMA ReleasedSlots ==
  ASSUME NEW S, ReleaseSlots(S)
  PROVE  /\ ActiveSlots' = ActiveSlots \ S
         /\ \A s \in Slots : probe_table'[s] = IF s \in S \cap ActiveSlots THEN FreeProbe
                                               ELSE probe_table[s]
         /\ \A s \in ActiveSlots' : probe_table'[s] = probe_table[s] /\ s \in ActiveSlots
<1>1. \A s \in Slots : probe_table'[s] = IF s \in S \cap ActiveSlots THEN FreeProbe
                                         ELSE probe_table[s]
  BY DEF ReleaseSlots
<1>2. ActiveSlots' = ActiveSlots \ S
  BY <1>1 DEF ActiveSlots, FreeProbe
<1> QED BY <1>1, <1>2 DEF ActiveSlots

\* A reply recorded is that of a host not found before; it frees the slot of its host,
\* if there is one, and no other.
LEMMA RecordedReply ==
  ASSUME TypeOK, SlotTable, ProcessPacket, RecordReply(Head(inbox))
  PROVE  LET host == Head(inbox).target IN
         /\ host \in Hosts /\ host \notin found_ips_cache
         /\ found_ips_cache' = found_ips_cache \cup {host}
         /\ ActiveSlots' = {s \in ActiveSlots : probe_table[s].dest # host}
         /\ \A s \in ActiveSlots' : probe_table'[s] = probe_table[s] /\ s \in ActiveSlots
         /\ \A h \in Hosts : host_to_probe'[h] = IF h = host THEN NoSlot ELSE host_to_probe[h]
<1> DEFINE host == Head(inbox).target
           slot == host_to_probe[host]
           held == Holds(slot, host)
<1>1. host \in Hosts /\ slot \in Slots \cup {NoSlot}
  BY PacketTypes DEF Datagrams, TypeOK, SweepTypes
<1>2. held <=> slot # NoSlot
  BY <1>1 DEF Holds, SlotTable
<1>3. \A s \in Slots : probe_table'[s] = IF s = slot THEN FreeProbe ELSE probe_table[s]
  BY <1>1, <1>2, Sizes DEF RecordReply
<1>4. \A s \in ActiveSlots : s = slot <=> probe_table[s].dest = host
  BY <1>1 DEF SlotTable, ActiveSlots
<1>5. ActiveSlots' = {s \in ActiveSlots : probe_table[s].dest # host}
  BY <1>3, <1>4 DEF ActiveSlots, FreeProbe
<1>6. \A h \in Hosts : host_to_probe'[h] = IF h = host THEN NoSlot ELSE host_to_probe[h]
  BY DEF RecordReply, TypeOK, SweepTypes
<1>7. \A s \in ActiveSlots' : probe_table'[s] = probe_table[s] /\ s \in ActiveSlots
  BY <1>3, <1>4, <1>5 DEF ActiveSlots
<1> QED BY <1>1, <1>5, <1>6, <1>7 DEF RecordReply, is_host_found

\* Every other step within a run asks nobody, and lets probes go at most.
LEMMA OtherSteps ==
  ASSUME TypeOK, SlotTable, [Next]_vars, ~ EnqueueProbe, ~ FlushSend, ~ Rerun
  PROVE  /\ probed' = probed /\ runs' = runs
         /\ \A s \in ActiveSlots' :
              s \in ActiveSlots /\ probe_table'[s].dest = probe_table[s].dest
<1>1. CASE FlushRefused \/ WritableTimeout
  BY <1>1, ReleasedSlots DEF FlushRefused, WritableTimeout, GiveUpBatch, histVars
<1>2. CASE Reap
  BY <1>2, ReleasedSlots DEF Reap, histVars
<1>3. CASE ProcessPacket
  <2>1. probed' = probed /\ runs' = runs
    BY <1>3 DEF ProcessPacket, PassOver, CountShort, CountForeign, CountDuplicate, RecordReply,
       NextDatagram, histVars
  <2>2. CASE RecordReply(Head(inbox))
    BY <1>3, <2>1, <2>2, RecordedReply
  <2>3. CASE ~ RecordReply(Head(inbox))
    <3>1. probe_table' = probe_table
      BY <1>3, <2>3 DEF ProcessPacket, PassOver, CountShort, CountForeign, CountDuplicate,
         Unchanged
    <3> QED BY <2>1, <3>1 DEF ActiveSlots
  <2> QED BY <2>2, <2>3
<1>4. CASE Tick \/ SetBack
  BY <1>4, ClockKeepsHosts DEF histVars, ActiveSlots
<1>5. CASE UNCHANGED <<probe_table, probed, runs>>
  BY <1>5 DEF ActiveSlots
<1> QED
  BY <1>1, <1>2, <1>3, <1>4, <1>5
  DEF Next, ScannerStep, vars, scannerVars, sweepVars, histVars, StartIteration, SkipHost,
      PopulateDone, FlushThrottled, FlushDone, WritableEvent, WritableOtherEvent,
      ReceiveReady, ReceiveTimeout, Drain, DrainFails, Take, ProcessDone, Network, Stopped

-----------------------------------------------------------------------------
(* The invariants are preserved                                            *)

\* The cursor is ahead of whoever was asked.
LEMMA CursorStep ==
  ASSUME TypeOK, SlotTable, BatchInv, CursorInv, [Next]_vars
  PROVE  CursorInv'
<1>0. /\ \A s \in ActiveSlots : s \in Slots /\ probe_table[s].dest \in Int
      /\ \A h \in probed : h \in Int
      /\ next_host_idx \in Int
  BY DEF TypeOK, SweepTypes, ActiveSlots, Hosts
<1>1. CASE EnqueueProbe
  <2>1. PICK slot \in Slots :
          /\ ActiveSlots' = ActiveSlots \cup {slot}
          /\ \A s \in Slots : probe_table'[s] = IF s = slot
               THEN [active |-> TRUE, dest |-> next_host_idx, age |-> 0] ELSE probe_table[s]
    BY <1>1, EnqueuedProbe
  <2>2. /\ next_host_idx' = next_host_idx + 1 /\ next_host_idx \notin LocalReserved
        /\ pc # "aborted" /\ probed' = probed
    BY <1>1, EnqueuedProbe
  <2>3. \A s \in ActiveSlots' : \/ probe_table'[s].dest = next_host_idx
                                \/ s \in ActiveSlots /\ probe_table'[s] = probe_table[s]
    BY <1>0, <2>1
  <2> QED BY <1>0, <2>2, <2>3 DEF CursorInv
<1>2. CASE FlushSend
  <2>1. Head(batch) \in ActiveSlots
    BY <1>2, SentRequest DEF BatchInv, ActiveSlots
  <2>2. probed' = probed \cup {Target} /\ UNCHANGED <<pc, next_host_idx, probe_table>>
        /\ pc # "aborted"
    BY <1>2, SentRequest DEF FlushSend, sweepVars
  <2> QED BY <2>1, <2>2 DEF CursorInv, Target, ActiveSlots
<1>3. CASE Rerun
  BY <1>3 DEF Rerun, CursorInv, ActiveSlots, FreeProbe
<1>4. CASE ~ EnqueueProbe /\ ~ FlushSend /\ ~ Rerun
  <2>1. /\ probed' = probed
        /\ \A s \in ActiveSlots' :
             s \in ActiveSlots /\ probe_table'[s].dest = probe_table[s].dest
    BY <1>4, OtherSteps
  <2>2. pc' # "aborted" => pc # "aborted" /\ next_host_idx' \in {next_host_idx, next_host_idx + 1}
    BY <1>4
    DEF Next, ScannerStep, vars, scannerVars, sweepVars, StartIteration, SkipHost,
        PopulateDone, FlushThrottled, FlushRefused, GiveUpBatch, FlushDone, WritableEvent,
        WritableOtherEvent, WritableTimeout, ReceiveReady, ReceiveTimeout, Drain, DrainFails,
        Take, ProcessPacket, PassOver, CountShort, CountForeign, CountDuplicate, RecordReply,
        NextDatagram, ProcessDone, Reap, Network, Outside, Tick, SetBack, ClockMoves, Stopped
  <2> QED BY <1>0, <2>1, <2>2 DEF CursorInv
<1> QED BY <1>1, <1>2, <1>3, <1>4

\* A slot enters the batch when it is filled, and leaves it sent or freed.
LEMMA BatchInvStep ==
  ASSUME TypeOK, SlotTable, BatchInv, CursorInv, [Next]_vars
  PROVE  BatchInv'
<1> USE DEF BatchInv
<1>0. \A i \in DOMAIN batch : batch[i] \in Slots /\ batch[i] \in ActiveSlots
  BY ElementOfSeq, LenProperties DEF TypeOK, BatchTypes, ActiveSlots
<1>1. CASE EnqueueProbe
  <2> DEFINE host == next_host_idx
  <2>1. PICK slot \in Slots :
          /\ slot \notin ActiveSlots
          /\ \A s \in Slots : probe_table'[s] = IF s = slot
               THEN [active |-> TRUE, dest |-> host, age |-> 0] ELSE probe_table[s]
          /\ \A i \in DOMAIN batch' : \/ i \in DOMAIN batch /\ batch'[i] = batch[i]
                                      \/ i = Len(batch) + 1 /\ batch'[i] = slot
    BY <1>1, EnqueuedProbe
  <2>2. pc = "populate" /\ pc' = "populate" /\ probed' = probed /\ runs' = runs
    BY <1>1, EnqueuedProbe
  <2>3. host \notin probed
    <3>1. host \in Int
      BY DEF TypeOK, SweepTypes
    <3> QED BY <2>2, <3>1 DEF CursorInv
  <2>4. \A i, j \in DOMAIN batch' : batch'[i] = batch'[j] => i = j
    BY <1>0, <2>1
  <2>5. \A i \in DOMAIN batch' :
          probe_table'[batch'[i]].active /\ probe_table'[batch'[i]].dest \notin probed
    BY <1>0, <2>1, <2>3
  <2> QED BY <2>2, <2>4, <2>5
<1>2. CASE FlushSend
  <2>1. /\ 1 \in DOMAIN batch /\ Head(batch) = batch[1]
        /\ \A i \in DOMAIN batch' : /\ i \in Nat \ {0} /\ i + 1 \in DOMAIN batch
                                    /\ batch'[i] = batch[i + 1]
        /\ probed' = probed \cup {Target}
        /\ UNCHANGED <<pc, probe_table, runs>>
    BY <1>2, SentRequest DEF sweepVars
  <2>2. pc = "flush"
    BY <1>2 DEF FlushSend
  <2>3. \A i, j \in DOMAIN batch' : batch'[i] = batch'[j] => i = j
    <3> SUFFICES ASSUME NEW i \in DOMAIN batch', NEW j \in DOMAIN batch', batch'[i] = batch'[j]
                 PROVE  i = j
      OBVIOUS
    <3>1. i + 1 = j + 1
      BY <2>1
    <3> QED BY <2>1, <3>1
  <2>4. \A i \in DOMAIN batch' : probe_table[batch'[i]].dest # Target
    <3> SUFFICES ASSUME NEW i \in DOMAIN batch' PROVE probe_table[batch'[i]].dest # Target
      OBVIOUS
    <3>1. i + 1 # 1
      BY <2>1
    <3>2. batch[i + 1] # batch[1] /\ batch[i + 1] \in Slots /\ batch[1] \in Slots
          /\ probe_table[batch[i + 1]].active /\ probe_table[batch[1]].active
      BY <1>0, <2>1, <3>1
    <3>3. Target \in Hosts /\ Target = probe_table[batch[1]].dest
      BY <1>2, <2>1, SentRequest DEF Target
    <3>4. host_to_probe[Target] = batch[1]
      BY <3>2, <3>3 DEF SlotTable
    <3>5. probe_table[batch[i + 1]].dest # Target
      BY <3>2, <3>3, <3>4 DEF SlotTable
    <3> QED BY <2>1, <3>5
  <2>5. \A i \in DOMAIN batch' :
          probe_table[batch'[i]].active /\ probe_table[batch'[i]].dest \notin probed
    BY <2>1
  <2> QED BY <2>1, <2>2, <2>3, <2>4, <2>5
<1>3. CASE batch' = <<>> /\ (runs' = runs \/ Rerun)
  <2>1. runs' >= 1
    BY <1>3 DEF Rerun, TypeOK, SweepTypes
  <2>2. DOMAIN batch' = {}
    BY <1>3
  <2> QED BY <1>3, <2>1, <2>2
<1>4. CASE Tick \/ SetBack
  <2>1. /\ UNCHANGED <<pc, batch, probed, runs>>
        /\ \A s \in Slots : /\ probe_table'[s].active = probe_table[s].active
                            /\ probe_table'[s].dest = probe_table[s].dest
    BY <1>4, ClockKeepsHosts DEF histVars
  <2> QED BY <1>0, <2>1
<1>5. CASE UNCHANGED <<batch, probe_table, probed, runs>>
           /\ (pc' \in {"populate", "flush", "writable"} \/ batch = <<>>)
  BY <1>5
<1>6. CASE FlushRefused \/ WritableTimeout \/ Rerun
  BY <1>3, <1>6 DEF FlushRefused, WritableTimeout, GiveUpBatch, Rerun, histVars
<1>7. CASE ProcessPacket \/ Reap
  <2>1. batch = <<>> /\ batch' = batch /\ runs' = runs
    BY <1>7
    DEF ProcessPacket, PassOver, CountShort, CountForeign, CountDuplicate, RecordReply,
        NextDatagram, Reap, histVars
  <2> QED BY <1>3, <2>1
<1>8. CASE StartIteration \/ SkipHost \/ PopulateDone \/ FlushThrottled \/ FlushDone
           \/ WritableEvent \/ WritableOtherEvent \/ ReceiveReady \/ ReceiveTimeout
           \/ Drain \/ DrainFails \/ ProcessDone \/ Network \/ UNCHANGED vars
  BY <1>5, <1>8
  DEF vars, scannerVars, sweepVars, histVars, StartIteration, SkipHost, PopulateDone,
      FlushThrottled, FlushDone, WritableEvent, WritableOtherEvent, ReceiveReady,
      ReceiveTimeout, Drain, DrainFails, Take, ProcessDone, Network
<1> QED
  BY <1>1, <1>2, <1>4, <1>6, <1>7, <1>8 DEF Next, ScannerStep, Stopped

\* What a datagram handled leaves of the batch it came in.
LEMMA HandledPacket ==
  ASSUME TypeOK, ProcessPacket
  PROVE  /\ 1 \in DOMAIN inbox /\ Head(inbox) = inbox[1]
         /\ \A i \in DOMAIN inbox' : i + 1 \in DOMAIN inbox /\ inbox'[i] = inbox[i + 1]
         /\ UNCHANGED <<pc, next_host_idx, batch, probe_timeouts, histVars, socketVars>>
         /\ RecordReply(Head(inbox)) \/ Unchanged
<1>1. inbox \in Seq(Datagrams) /\ inbox # <<>>
  BY DEF ProcessPacket, TypeOK, SocketTypes
<1>2. /\ inbox' = Tail(inbox)
      /\ UNCHANGED <<pc, next_host_idx, batch, probe_timeouts, histVars, socketVars>>
      /\ RecordReply(Head(inbox)) \/ Unchanged
  BY DEF ProcessPacket, PassOver, CountShort, CountForeign, CountDuplicate, RecordReply,
     NextDatagram
<1>3. 1 \in DOMAIN inbox /\ Head(inbox) = inbox[1]
  BY <1>1, LenProperties, HeadTailProperties, EmptySeq
<1>4. \A i \in DOMAIN Tail(inbox) : i + 1 \in DOMAIN inbox /\ Tail(inbox)[i] = inbox[i + 1]
  BY <1>1, HeadTailProperties, LenProperties
<1> QED BY <1>2, <1>3, <1>4

\* Whatever the network and the kernel do, they answer requests that were made.
LEMMA NetworkAsked ==
  ASSUME TypeOK, Network,
         \A request \in txq : request.target \in probed,
         \A reply \in net : reply.target \in probed,
         AskedFor(rxq)
  PROVE  /\ \A request \in txq' : request.target \in probed
         /\ \A reply \in net' : reply.target \in probed
         /\ \A i \in DOMAIN rxq' : rxq'[i].target \in probed
<1>1. CASE \E request \in txq : Transmit(request)
  BY <1>1 DEF Transmit, AskedFor
<1>2. ASSUME NEW reply \in net, Deliver(reply)
      PROVE  /\ \A request \in txq' : request.target \in probed
             /\ \A other \in net' : other.target \in probed
             /\ \A i \in DOMAIN rxq' : rxq'[i].target \in probed
  <2> DEFINE datagram == [target |-> reply.target, kind |-> reply.kind, age |-> reply.age,
                          drops |-> rxdrops]
  <2>1. rxq' = Append(rxq, datagram) /\ datagram.target = reply.target
    BY <1>2 DEF Deliver
  <2>2. rxq \in Seq(Datagrams) /\ datagram \in Datagrams
    BY DEF TypeOK, SocketTypes, Replies, Datagrams
  <2>3. \A i \in DOMAIN rxq' : (i \in DOMAIN rxq /\ rxq'[i] = rxq[i]) \/ rxq'[i] = datagram
    BY <2>1, <2>2, AppendProperties, LenProperties
  <2>4. \A i \in DOMAIN rxq' : rxq'[i].target \in probed
    BY <2>1, <2>3 DEF AskedFor
  <2> QED BY <1>2, <2>4 DEF Deliver
<1>3. CASE \E reply \in net : Overflow(reply)
  BY <1>3 DEF Overflow, AskedFor
<1> QED BY <1>1, <1>2, <1>3 DEF Network

\* recvmmsg hands on what was in the buffer.
LEMMA TakenAsked ==
  ASSUME TypeOK, AskedFor(rxq), NEW k \in 0 .. Len(rxq), NEW error, Take(k, error)
  PROVE  /\ \A i \in DOMAIN inbox' : inbox'[i].target \in probed
         /\ \A i \in DOMAIN rxq' : rxq'[i].target \in probed
<1>1. rxq \in Seq(Datagrams) /\ Len(rxq) \in Nat /\ DOMAIN rxq = 1 .. Len(rxq)
  BY LenProperties DEF TypeOK, SocketTypes
<1>2. inbox' = SubSeq(rxq, 1, k) /\ rxq' = SubSeq(rxq, k + 1, Len(rxq))
  BY DEF Take
<1>3. DOMAIN inbox' = 1 .. k /\ \A i \in 1 .. k : inbox'[i] = rxq[i] /\ i \in DOMAIN rxq
  BY <1>1, <1>2, SubSeqProperties
<1>4. /\ DOMAIN rxq' = 1 .. Len(rxq) - k
      /\ \A i \in 1 .. Len(rxq) - k : rxq'[i] = rxq[k + i] /\ k + i \in DOMAIN rxq
  BY <1>1, <1>2, SubSeqProperties
<1> QED BY <1>3, <1>4 DEF AskedFor

\* The clock changes nobody's address.
LEMMA AgedAsked ==
  ASSUME NEW q \in Seq(Datagrams), NEW d \in Int, AskedFor(q)
  PROVE  \A i \in DOMAIN Aged(q, d) : Aged(q, d)[i].target \in probed
<1>1. \A i \in DOMAIN q : q[i] \in Datagrams
  BY ElementOfSeq, LenProperties
<1>2. DOMAIN Aged(q, d) = DOMAIN q /\ \A i \in DOMAIN q : Aged(q, d)[i].target = q[i].target
  BY <1>1 DEF Aged, Datagrams
<1> QED BY <1>2 DEF AskedFor

\* No reply is read in the first run that this run did not ask for.
LEMMA AskedStep ==
  ASSUME TypeOK, SlotTable, BatchInv, AskedInv, [Next]_vars
  PROVE  AskedInv'
<1> SUFFICES ASSUME runs' = 1 PROVE AskedInv'
  BY DEF AskedInv
<1>0. runs = 1 /\ ~ Rerun
  <2>1. ~ Rerun
    BY DEF Rerun, BatchInv, TypeOK, SweepTypes
  <2>2. EnqueueProbe \/ FlushSend => runs' = runs
    BY EnqueuedProbe, SentRequest
  <2> QED BY <2>1, <2>2, OtherSteps
<1>1. /\ found_ips_cache \subseteq probed
      /\ \A s \in ActiveSlots : probe_table[s].dest \notin found_ips_cache
      /\ \A request \in txq : request.target \in probed
      /\ \A reply \in net : reply.target \in probed
      /\ AskedFor(rxq) /\ AskedFor(inbox)
  BY <1>0 DEF AskedInv, ResultWasProbed
<1>2. CASE EnqueueProbe
  <2>1. PICK slot \in Slots :
          /\ ActiveSlots' = ActiveSlots \cup {slot}
          /\ \A s \in Slots : probe_table'[s] = IF s = slot
               THEN [active |-> TRUE, dest |-> next_host_idx, age |-> 0] ELSE probe_table[s]
    BY <1>2, EnqueuedProbe
  <2>2. /\ next_host_idx \notin found_ips_cache
        /\ UNCHANGED <<probed, found_ips_cache, inbox, txq, net, rxq>>
    BY <1>2, EnqueuedProbe DEF socketVars
  <2>3. \A s \in ActiveSlots' : probe_table'[s].dest \notin found_ips_cache
    BY <1>1, <2>1, <2>2 DEF ActiveSlots
  <2> QED BY <1>1, <2>2, <2>3 DEF AskedInv, ResultWasProbed, AskedFor
<1>3. CASE FlushSend
  <2>1. /\ probed' = probed \cup {Target}
        /\ txq' = txq \cup {[target |-> Target, age |-> probe_table[Head(batch)].age]}
        /\ UNCHANGED <<probe_table, found_ips_cache, inbox, net, rxq>>
    BY <1>3, SentRequest DEF sweepVars, foundVars
  <2> QED BY <1>1, <2>1 DEF AskedInv, ResultWasProbed, AskedFor, ActiveSlots
<1>4. CASE ProcessPacket
  <2>1. /\ \A i \in DOMAIN inbox' : inbox'[i].target \in probed
        /\ Head(inbox).target \in probed
        /\ UNCHANGED <<probed, txq, net, rxq>>
    BY <1>1, <1>4, HandledPacket DEF AskedFor, histVars, socketVars
  <2>2. CASE RecordReply(Head(inbox))
    BY <1>1, <1>4, <2>1, <2>2, RecordedReply DEF AskedInv, ResultWasProbed, AskedFor
  <2>3. CASE Unchanged
    BY <1>1, <2>1, <2>3 DEF AskedInv, ResultWasProbed, AskedFor, Unchanged, foundVars, ActiveSlots
  <2> QED BY <1>4, <2>2, <2>3, HandledPacket
<1>5. ASSUME ~ EnqueueProbe, ~ FlushSend, ~ ProcessPacket
      PROVE  /\ probed' = probed /\ found_ips_cache' = found_ips_cache
             /\ \A s \in ActiveSlots' : probe_table'[s].dest \notin found_ips_cache
  <2>1. /\ probed' = probed
        /\ \A s \in ActiveSlots' :
             s \in ActiveSlots /\ probe_table'[s].dest = probe_table[s].dest
    BY <1>0, <1>5, OtherSteps
  <2>2. found_ips_cache' = found_ips_cache
    BY <1>0, <1>5
    DEF Next, ScannerStep, vars, scannerVars, foundVars, StartIteration, SkipHost,
        PopulateDone, FlushThrottled, FlushRefused, GiveUpBatch, FlushDone, WritableEvent,
        WritableOtherEvent, WritableTimeout, ReceiveReady, ReceiveTimeout, Drain, DrainFails,
        Take, ProcessDone, Reap, Network, Tick, SetBack, ClockMoves, Stopped
  <2> QED BY <1>1, <2>1, <2>2
<1>6. CASE Drain \/ DrainFails
  <2>1. PICK k \in 0 .. Len(rxq), error \in BOOLEAN : Take(k, error)
    <3>1. CASE Drain
      BY <3>1, ReceivedBound DEF Drain
    <3>2. CASE DrainFails
      <4>1. PICK k \in 0 .. Received(RecvBatchSize) - 1 : Take(k, TRUE)
        BY <3>2 DEF DrainFails
      <4>2. k \in 0 .. Len(rxq)
        BY <4>1, ReceivedBound, LenProperties
      <4> QED BY <4>1, <4>2
    <3> QED BY <1>6, <3>1, <3>2
  <2>2. /\ \A i \in DOMAIN inbox' : inbox'[i].target \in probed
        /\ \A i \in DOMAIN rxq' : rxq'[i].target \in probed
    BY <1>1, <2>1, TakenAsked
  <2>3. txq' = txq /\ net' = net
    BY <2>1 DEF Take
  <2>4. ~ EnqueueProbe /\ ~ FlushSend /\ ~ ProcessPacket
    BY <1>6 DEF Drain, DrainFails, EnqueueProbe, FlushSend, ProcessPacket
  <2> QED BY <1>1, <1>5, <2>2, <2>3, <2>4 DEF AskedInv, ResultWasProbed, AskedFor
<1>7. CASE Network
  <2>1. /\ \A request \in txq' : request.target \in probed
        /\ \A reply \in net' : reply.target \in probed
        /\ \A i \in DOMAIN rxq' : rxq'[i].target \in probed
    BY <1>1, <1>7, NetworkAsked
  <2>2. UNCHANGED <<probed, found_ips_cache, probe_table, inbox>>
    BY <1>7 DEF Network, scannerVars, histVars, foundVars, sweepVars, inVars
  <2> QED BY <1>1, <2>1, <2>2 DEF AskedInv, ResultWasProbed, AskedFor, ActiveSlots
<1>8. CASE Tick \/ SetBack
  <2>1. PICK d \in Int : SocketClock(d) /\ inbox' = Aged(inbox, d)
    BY <1>8, ClockKeepsHosts
  <2>2. /\ \A request \in txq' : request.target \in probed
        /\ \A reply \in net' : reply.target \in probed
    BY <1>1, <2>1 DEF SocketClock, TypeOK, SocketTypes, Requests, Replies
  <2>3. /\ \A i \in DOMAIN inbox' : inbox'[i].target \in probed
        /\ \A i \in DOMAIN rxq' : rxq'[i].target \in probed
    BY <1>1, <2>1, AgedAsked DEF SocketClock, TypeOK, SocketTypes
  <2>4. /\ probed' = probed /\ found_ips_cache' = found_ips_cache
        /\ \A s \in ActiveSlots' : probe_table'[s].dest \notin found_ips_cache
    BY <1>1, <1>8, ClockKeepsHosts DEF histVars, foundVars, ActiveSlots
  <2> QED BY <1>1, <2>2, <2>3, <2>4 DEF AskedInv, ResultWasProbed, AskedFor
<1>9. CASE UNCHANGED <<txq, net, rxq, inbox>> /\ ~ EnqueueProbe /\ ~ FlushSend /\ ~ ProcessPacket
  BY <1>1, <1>5, <1>9 DEF AskedInv, ResultWasProbed, AskedFor
<1> QED
  BY <1>0, <1>2, <1>3, <1>4, <1>6, <1>7, <1>8, <1>9
  DEF Next, ScannerStep, vars, scannerVars, inVars, socketVars, StartIteration, SkipHost,
      PopulateDone, FlushThrottled, FlushRefused, GiveUpBatch, FlushDone, WritableEvent,
      WritableOtherEvent, WritableTimeout, ReceiveReady, ReceiveTimeout, ProcessDone, Reap,
      Stopped

\* A host the cursor passes is found, under way or reserved; a probe that is taken back
\* at the end of its timeout was sent.
LEMMA SettledStep ==
  ASSUME TypeOK, SlotTable, SentOrBatched, BatchInv, SettledInv, [Next]_vars
  PROVE  SettledInv'
<1> DEFINE Done(h) == \/ h \in probed \cup found_ips_cache
                      \/ \E s \in ActiveSlots : probe_table[s].dest = h
<1>0. next_host_idx \in Int /\ \A h \in Hosts : h \in Int
  BY DEF TypeOK, SweepTypes, Hosts
<1>1. ASSUME pc # "aborted", pc' # "returned",
             \A h \in Hosts \ LocalReserved : h < next_host_idx' =>
               h < next_host_idx \/ Done(h)',
             \A h \in Hosts : Done(h) => Done(h)'
      PROVE  SettledInv'
  BY <1>1 DEF SettledInv
<1>2. CASE SkipHost
  <2>1. /\ pc = "populate" /\ next_host_idx' = next_host_idx + 1
        /\ UNCHANGED <<pc, probe_table, found_ips_cache, probed>>
        /\ MustSkip(next_host_idx) /\ next_host_idx \in Hosts
    BY <1>2, ScannerAssumption
    DEF SkipHost, MayPopulate, foundVars, histVars, TypeOK, SweepTypes, Hosts
  <2>2. next_host_idx \notin LocalReserved => Done(next_host_idx)
    <3>1. SUFFICES ASSUME host_to_probe[next_host_idx] # NoSlot
                   PROVE  \E s \in ActiveSlots : probe_table[s].dest = next_host_idx
      BY <2>1 DEF MustSkip, is_host_found
    <3>2. host_to_probe[next_host_idx] \in Slots
      BY <2>1, <3>1 DEF TypeOK, SweepTypes
    <3> QED BY <2>1, <3>2 DEF SlotTable, ActiveSlots
  <2>3. \A h : Done(h)' <=> Done(h)
    BY <2>1 DEF ActiveSlots
  <2>4. \A h \in Hosts : h < next_host_idx' => h < next_host_idx \/ h = next_host_idx
    BY <1>0, <2>1
  <2> HIDE DEF Done
  <2> QED BY <1>1, <2>1, <2>2, <2>3, <2>4
<1>3. CASE EnqueueProbe
  <2>1. PICK slot \in Slots :
          /\ slot \notin ActiveSlots
          /\ ActiveSlots' = ActiveSlots \cup {slot}
          /\ \A s \in Slots : probe_table'[s] = IF s = slot
               THEN [active |-> TRUE, dest |-> next_host_idx, age |-> 0] ELSE probe_table[s]
    BY <1>3, EnqueuedProbe
  <2>2. /\ pc = "populate" /\ pc' = "populate" /\ next_host_idx' = next_host_idx + 1
        /\ UNCHANGED <<found_ips_cache, probed>>
    BY <1>3, EnqueuedProbe
  <2>3. \A h : Done(h) \/ h = next_host_idx => Done(h)'
    BY <2>1, <2>2 DEF ActiveSlots
  <2>4. \A h \in Hosts : h < next_host_idx' => h < next_host_idx \/ h = next_host_idx
    BY <1>0, <2>2
  <2> HIDE DEF Done
  <2> QED BY <1>1, <2>2, <2>3, <2>4
<1>4. CASE FlushSend
  <2>1. /\ probed' = probed \cup {Target} /\ pc = "flush" /\ pc' = pc
        /\ UNCHANGED <<next_host_idx, probe_table, found_ips_cache>>
    BY <1>4, SentRequest DEF sweepVars, foundVars, FlushSend
  <2>2. \A h : Done(h) => Done(h)'
    BY <2>1 DEF ActiveSlots
  <2> HIDE DEF Done
  <2> QED BY <1>1, <2>1, <2>2
<1>5. CASE ProcessPacket
  <2>1. pc = "process" /\ UNCHANGED <<pc, next_host_idx, probed>>
    BY <1>5, HandledPacket DEF ProcessPacket, histVars
  <2>2. \A h \in Hosts : Done(h) => Done(h)'
    <3>1. CASE RecordReply(Head(inbox))
      BY <1>5, <2>1, <3>1, RecordedReply
    <3>2. CASE Unchanged
      BY <2>1, <3>2 DEF Unchanged, foundVars, ActiveSlots
    <3> QED BY <1>5, <3>1, <3>2, HandledPacket
  <2> HIDE DEF Done
  <2> QED BY <1>1, <2>1, <2>2
<1>6. CASE Reap
  <2>1. /\ pc = "reap" /\ pc' = "send_batch" /\ UNCHANGED <<next_host_idx, found_ips_cache, probed>>
        /\ ReleaseSlots(TimedOut)
    BY <1>6 DEF Reap, foundVars, histVars
  <2>2. \A s \in ActiveSlots : probe_table[s].dest \in probed
    <3>1. batch = <<>>
      BY <2>1 DEF BatchInv
    <3>2. Range(batch) = {}
      BY <3>1 DEF Range
    <3> QED BY <3>2 DEF SentOrBatched
  <2>3. \A h : Done(h) => Done(h)'
    BY <2>1, <2>2
  <2> HIDE DEF Done
  <2> QED BY <1>1, <2>1, <2>3
<1>7. CASE Tick \/ SetBack
  <2>1. /\ UNCHANGED <<pc, next_host_idx, probed, found_ips_cache>>
        /\ ActiveSlots' = ActiveSlots
        /\ \A s \in ActiveSlots : probe_table'[s].dest = probe_table[s].dest
    BY <1>7, ClockKeepsHosts DEF histVars, foundVars, ActiveSlots
  <2>2. \A h : Done(h) => Done(h)'
    BY <2>1
  <2>3. pc \notin {"aborted", "returned"}
    BY <1>7 DEF Tick, SetBack, ClockMoves, Outside
  <2> HIDE DEF Done
  <2> QED BY <1>1, <2>1, <2>2, <2>3
<1>8. CASE FlushRefused \/ WritableTimeout
  BY <1>8 DEF FlushRefused, WritableTimeout, GiveUpBatch, SettledInv
<1>9. CASE Rerun
  <2>1. next_host_idx' = 0 /\ pc' = "send_batch"
    BY <1>9 DEF Rerun
  <2> QED BY <2>1 DEF SettledInv, Hosts
<1>10. CASE StartIteration
  <2>1. /\ pc = "send_batch"
        /\ UNCHANGED <<next_host_idx, active_probes, probe_table, probed, found_ips_cache>>
        /\ pc' = IF WorkLeft THEN "populate" ELSE "returned"
    BY <1>10 DEF StartIteration, sweepVars, histVars, foundVars
  <2>2. ~ WorkLeft => next_host_idx = TotalHosts /\ active_probes = 0
    BY ScannerAssumption, Sizes DEF WorkLeft, TypeOK, SweepTypes
  <2> QED BY <2>1, <2>2 DEF SettledInv, ActiveSlots
<1>11. CASE UNCHANGED <<pc, next_host_idx, active_probes, probe_table, probed, found_ips_cache>>
  BY <1>11 DEF SettledInv, ActiveSlots
<1>12. CASE UNCHANGED <<next_host_idx, probe_table, probed, found_ips_cache>>
            /\ pc # "aborted" /\ pc' # "returned"
  <2>1. \A h : Done(h) => Done(h)'
    BY <1>12 DEF ActiveSlots
  <2> HIDE DEF Done
  <2> QED BY <1>1, <1>12, <2>1
<1>13. CASE PopulateDone \/ FlushThrottled \/ FlushDone \/ WritableEvent \/ ReceiveReady
            \/ ReceiveTimeout \/ Drain \/ DrainFails \/ ProcessDone
  BY <1>12, <1>13
  DEF sweepVars, foundVars, histVars, PopulateDone, FlushThrottled, FlushDone, WritableEvent,
      ReceiveReady, ReceiveTimeout, Drain, DrainFails, Take, ProcessDone
<1> QED
  BY <1>2, <1>3, <1>4, <1>5, <1>6, <1>7, <1>8, <1>9, <1>10, <1>11, <1>13
  DEF Next, ScannerStep, vars, scannerVars, sweepVars, foundVars, histVars,
      WritableOtherEvent, Network, Stopped

-----------------------------------------------------------------------------
(* The results of a sweep                                                  *)

\* All that is known of the tables and of the hosts.
SweepInv ==
  /\ TypeOK /\ SlotTable /\ ActiveCount /\ SentOrBatched
  /\ BatchInv /\ CursorInv /\ AskedInv /\ SettledInv

\* It holds in every state of every run.
LEMMA SweepInvariant == Spec => []SweepInv
<1>1. Init => BatchInv /\ CursorInv /\ AskedInv /\ SettledInv
  BY ScannerAssumption
  DEF Init, SocketInit, BatchInv, CursorInv, AskedInv, ResultWasProbed, AskedFor, SettledInv,
      ActiveSlots, FreeProbe, Hosts
<1> DEFINE Known == TypeOK /\ SlotTable /\ ActiveCount /\ SentOrBatched
           Inv == BatchInv /\ CursorInv /\ AskedInv /\ SettledInv
<1>2. Known /\ Inv /\ [Next]_vars => Inv'
  BY BatchInvStep, CursorStep, AskedStep, SettledStep
<1>3. Spec => []Known
  BY TypeCorrect, TablesInvariant, ProbesSent, PTL DEF Tables
<1>4. Known /\ Inv => SweepInv
  BY DEF SweepInv
<1> HIDE DEF Known, Inv
<1>5. Init => Inv
  BY <1>1 DEF Inv
<1> QED BY <1>2, <1>3, <1>4, <1>5, PTL DEF Spec

\* Of a run on a fresh socket: nobody is reported that it did not ask, and nobody
\* reported is still waited for.
THEOREM OnlyAskedReported == Spec => []ResultWasProbed
<1>1. SweepInv => ResultWasProbed
  BY DEF SweepInv, AskedInv, ResultWasProbed
<1> QED BY <1>1, SweepInvariant, PTL

\* A run that was not cut short asked every host that is not reserved, unless it
\* answered before, and leaves no probe behind; this holds of each call of run().
THEOREM NobodyForgotten == Spec => []SweepComplete
<1>1. ASSUME SweepInv, pc = "returned"
      PROVE  /\ active_probes = 0 /\ ActiveSlots = {}
             /\ Hosts \ LocalReserved \subseteq probed \cup found_ips_cache
  <2>1. active_probes = 0 /\ next_host_idx = TotalHosts
    BY <1>1 DEF SweepInv, SettledInv
  <2>2. ActiveSlots = {}
    <3>1. IsFiniteSet(ActiveSlots) /\ Cardinality(ActiveSlots) = 0
      BY <1>1, <2>1, SlotSets DEF SweepInv, ActiveCount, ActiveSlots
    <3> QED BY <3>1, FS_EmptySet
  <2>3. \A h \in Hosts : h < next_host_idx
    BY <2>1, ScannerAssumption DEF Hosts
  <2> QED BY <1>1, <2>1, <2>2, <2>3 DEF SweepInv, SettledInv
<1>2. SweepInv => SweepComplete
  BY <1>1 DEF SweepComplete
<1> QED BY <1>2, SweepInvariant, PTL

-----------------------------------------------------------------------------
(* The counts of the summary                                               *)

\* The hosts asked so far: sent a request, or to be sent one with the batch.
Asked == Cardinality(probed) + Len(batch)

\* The batch has a slot of its own for each host in it, so giving it up takes back as
\* many probes as it is long.
LEMMA BatchSize ==
  ASSUME TypeOK, BatchInv, ActiveCount
  PROVE  /\ Range(batch) \cap ActiveSlots = Range(batch)
         /\ IsFiniteSet(Range(batch)) /\ Cardinality(Range(batch)) = Len(batch)
         /\ Len(batch) \in Nat /\ Len(batch) <= active_probes
<1>1. batch \in Seq(Slots) /\ Len(batch) \in Nat /\ DOMAIN batch = 1 .. Len(batch)
  BY LenProperties DEF TypeOK, BatchTypes
<1>2. Range(batch) \subseteq ActiveSlots
  BY <1>1, ElementOfSeq DEF BatchInv, Range, ActiveSlots
<1>3. ActiveSlots \in SUBSET Slots
  BY DEF ActiveSlots
<1>4. /\ IsFiniteSet(Range(batch)) /\ Cardinality(Range(batch)) \in Nat
      /\ Cardinality(Range(batch)) <= Cardinality(ActiveSlots)
  BY <1>2, <1>3, SlotSets, FS_Subset
<1>5. Cardinality(Range(batch)) = Len(batch)
  <2>1. batch \in Surjection(1 .. Len(batch), Range(batch))
    <3>1. batch \in [1 .. Len(batch) -> Range(batch)]
      BY <1>1 DEF Range
    <3> QED BY <1>1, <3>1 DEF Surjection, Range
  <2>2. batch \in Injection(1 .. Len(batch), Range(batch))
    <3>1. \A i, j \in 1 .. Len(batch) : batch[i] = batch[j] => i = j
      BY <1>1 DEF BatchInv
    <3> QED BY <2>1, <3>1 DEF Injection, Surjection, IsInjective
  <2>3. IsFiniteSet(1 .. Len(batch)) /\ Cardinality(1 .. Len(batch)) = Len(batch)
    BY <1>1, FS_Interval
  <2> QED BY <2>1, <2>2, <2>3, FS_Surjection
<1> QED BY <1>1, <1>2, <1>4, <1>5 DEF ActiveCount

\* A step that keeps the batch, or moves its head to the hosts sent, asks nobody new.
LEMMA AskedSteps ==
  ASSUME TypeOK, BatchInv
  PROVE  /\ Cardinality(probed) \in Nat
         /\ EnqueueProbe => Asked' = Asked + 1
         /\ FlushSend => Asked' = Asked
<1>1. IsFiniteSet(probed) /\ Cardinality(probed) \in Nat
  <2>1. IsFiniteSet(Hosts) /\ probed \in SUBSET Hosts
    BY FS_Interval, ScannerAssumption DEF Hosts, TypeOK, SweepTypes
  <2> QED BY <2>1, FS_Subset, FS_CardinalityType
<1>2. batch \in Seq(Slots) /\ Len(batch) \in Nat
  BY LenProperties DEF TypeOK, BatchTypes
<1>3. ASSUME EnqueueProbe PROVE Asked' = Asked + 1
  <2>1. PICK slot \in Slots : batch' = Append(batch, slot)
    BY <1>3 DEF EnqueueProbe
  <2>2. Len(batch') = Len(batch) + 1
    BY <1>2, <2>1, AppendProperties
  <2>3. probed' = probed
    BY <1>3, EnqueuedProbe
  <2> QED BY <1>1, <1>2, <2>2, <2>3 DEF Asked
<1>4. ASSUME FlushSend PROVE Asked' = Asked
  <2>1. batch # <<>> /\ batch' = Tail(batch) /\ probed' = probed \cup {Target}
    BY <1>4 DEF FlushSend
  <2>2. Len(batch) \in Nat \ {0} /\ Len(batch') = Len(batch) - 1
    BY <1>2, <2>1, HeadTailProperties, EmptySeq
  <2>3. Target \notin probed
    BY <1>4, SentRequest DEF Target, BatchInv
  <2>4. Cardinality(probed') = Cardinality(probed) + 1
    BY <1>1, <2>1, <2>3, FS_AddElement
  <2> QED BY <1>1, <2>2, <2>4 DEF Asked
<1> QED BY <1>1, <1>3, <1>4

\* Each way a probe ends moves it from the count of those under way to one of the
\* others, or takes it back together with its place in the batch.
LEMMA AccountingStep ==
  ASSUME SweepInv, ProbeAccounting, [Next]_vars
  PROVE  ProbeAccounting'
<1> USE DEF SweepInv
<1> SUFFICES ASSUME runs' = 1 PROVE ProbeAccounting'
  BY DEF ProbeAccounting
<1> DEFINE results == Len(scan_results)
<1>1. /\ active_probes \in Nat /\ probe_timeouts \in Nat /\ results \in Nat
      /\ Cardinality(probed) \in Nat /\ Len(batch) \in Nat /\ Asked \in Nat
  BY Sizes, AskedSteps, BatchSize, LenProperties
  DEF TypeOK, SweepTypes, StatTypes, FoundTypes, Asked
<1>2. runs = 1 /\ ~ Rerun
  <2>1. ~ Rerun
    BY DEF Rerun, BatchInv, TypeOK, SweepTypes
  <2>2. EnqueueProbe \/ FlushSend => runs' = runs
    BY EnqueuedProbe, SentRequest
  <2> QED BY <2>1, <2>2, OtherSteps
<1>3. /\ active_probes + probe_timeouts <= Asked
      /\ Asked <= active_probes + probe_timeouts + results
  BY <1>2 DEF ProbeAccounting, Asked
<1>4. ASSUME /\ active_probes' + probe_timeouts' <= Asked'
             /\ Asked' <= active_probes' + probe_timeouts' + Len(scan_results')
      PROVE  ProbeAccounting'
  BY <1>4 DEF ProbeAccounting, Asked
<1> HIDE DEF results
<1>5. CASE EnqueueProbe
  <2>1. active_probes' = active_probes + 1 /\ UNCHANGED <<probe_timeouts, scan_results>>
    BY <1>5 DEF EnqueueProbe, foundVars, statVars
  <2> QED BY <1>1, <1>3, <1>4, <1>5, <2>1, AskedSteps DEF results
<1>6. CASE FlushSend
  <2>1. UNCHANGED <<active_probes, probe_timeouts, scan_results>>
    BY <1>6 DEF FlushSend, sweepVars, foundVars, statVars
  <2> QED BY <1>1, <1>3, <1>4, <1>6, <2>1, AskedSteps DEF results
<1>7. CASE FlushRefused \/ WritableTimeout
  <2>1. /\ active_probes' = Minus(active_probes, Cardinality(Range(batch) \cap ActiveSlots))
        /\ batch' = <<>> /\ UNCHANGED <<probed, probe_timeouts, scan_results>>
    BY <1>7 DEF FlushRefused, WritableTimeout, GiveUpBatch, ReleaseSlots, Unsent, foundVars,
       statVars, histVars
  <2>2. Len(batch) <= active_probes /\ active_probes' = active_probes - Len(batch)
    <3>1. Len(batch) <= active_probes /\ Cardinality(Range(batch) \cap ActiveSlots) = Len(batch)
      BY BatchSize
    <3> QED BY <1>1, <2>1, <3>1 DEF Minus
  <2>3. Asked' = Asked - Len(batch)
    <3>1. Len(batch') = 0
      BY <2>1, EmptySeq
    <3> QED BY <1>1, <2>1, <3>1 DEF Asked
  <2> QED BY <1>1, <1>3, <1>4, <2>1, <2>2, <2>3 DEF results
<1>8. CASE ProcessPacket
  <2>1. Asked' = Asked /\ probe_timeouts' = probe_timeouts
    BY <1>8, HandledPacket DEF Asked, histVars
  <2>2. CASE RecordReply(Head(inbox))
    <3>1. active_probes' \in Nat /\ active_probes' <= active_probes
          /\ active_probes <= active_probes' + 1
      BY <1>1, <2>2 DEF RecordReply, Minus
    <3>2. Len(scan_results') = results + 1
      <4>1. Head(inbox) \in Datagrams /\ scan_results \in Seq([host : Hosts, rtt : Ages])
        BY <1>8, PacketTypes DEF TypeOK, FoundTypes
      <4>2. [host |-> Head(inbox).target, rtt |-> Head(inbox).age] \in [host : Hosts, rtt : Ages]
        BY <4>1 DEF Datagrams
      <4> QED BY <2>2, <4>1, <4>2, AppendProperties DEF RecordReply, results
    <3>3. \A a, b, t, r, n \in Nat :
            (b <= a /\ a <= b + 1 /\ a + t <= n /\ n <= a + t + r)
              => b + t <= n /\ n <= b + t + (r + 1)
      OBVIOUS
    <3> QED BY <1>1, <1>3, <1>4, <2>1, <3>1, <3>2, <3>3
  <2>3. CASE Unchanged
    BY <1>3, <1>4, <2>1, <2>3 DEF Unchanged, foundVars, results
  <2> QED BY <1>8, <2>2, <2>3, HandledPacket
<1>9. CASE Reap
  <2>1. /\ Asked' = Asked /\ scan_results' = scan_results
        /\ probe_timeouts' = probe_timeouts + Cardinality(TimedOut)
        /\ active_probes' = Minus(active_probes, Cardinality(TimedOut))
    <3>1. TimedOut \cap ActiveSlots = TimedOut
      BY DEF TimedOut
    <3> QED BY <1>9, <3>1 DEF Reap, ReleaseSlots, foundVars, histVars, Asked
  <2>2. Cardinality(TimedOut) \in Nat /\ Cardinality(TimedOut) <= active_probes
    <3>1. TimedOut \subseteq ActiveSlots /\ ActiveSlots \subseteq Slots
      BY DEF TimedOut, ActiveSlots
    <3> QED BY <3>1, SlotSets, FS_Subset DEF ActiveCount
  <2>3. active_probes' + probe_timeouts' = active_probes + probe_timeouts
    BY <1>1, <2>1, <2>2 DEF Minus
  <2> QED BY <1>3, <1>4, <2>1, <2>3 DEF results
<1>10. CASE UNCHANGED <<probed, batch, active_probes, probe_timeouts, scan_results>>
  BY <1>3, <1>4, <1>10 DEF results, Asked
<1> QED
  BY <1>2, <1>5, <1>6, <1>7, <1>8, <1>9, <1>10
  DEF Next, ScannerStep, vars, scannerVars, sweepVars, foundVars, statVars, histVars,
      StartIteration, SkipHost, PopulateDone, FlushThrottled, FlushDone, WritableEvent,
      WritableOtherEvent, ReceiveReady, ReceiveTimeout, Drain, DrainFails, Take,
      ProcessDone, Network, Tick, SetBack, ClockMoves, Stopped

\* Of the hosts asked in a run on a fresh socket - sent a request, or in the batch -
\* each is under way, counted as timed out, or listed: no probe drops out of the
\* summary, and a batch given up takes back no probe that was sent.
THEOREM ProbesAccountedFor == Spec => []ProbeAccounting
<1>1. Init => ProbeAccounting
  <2> SUFFICES ASSUME Init PROVE ProbeAccounting
    OBVIOUS
  <2>1. Cardinality(probed) = 0 /\ Len(batch) = 0 /\ Len(scan_results) = 0
    BY FS_EmptySet, EmptySeq DEF Init
  <2> QED BY <2>1 DEF Init, ProbeAccounting
<1>2. SweepInv /\ ProbeAccounting /\ [Next]_vars => ProbeAccounting'
  BY AccountingStep
<1> QED BY <1>1, <1>2, SweepInvariant, PTL DEF Spec

-----------------------------------------------------------------------------
(* The reuse of slots                                                      *)

\* What may become of a slot's probe in one step.
Settled(s) ==
  (probe_table[s].active /\ probe_table[s] # probe_table'[s] /\ ~ Over) =>
    \/ probe_table'[s].active /\ probe_table'[s].dest = probe_table[s].dest
    \/ /\ ~ probe_table'[s].active
       /\ \/ probe_table[s].age > Timeout
          \/ probe_table[s].dest \in found_ips_cache'
          \/ pc' = "aborted"

LEMMA SlotsSettled ==
  ASSUME TypeOK, SlotTable, [Next]_vars, NEW s \in Slots
  PROVE  Settled(s)
<1>1. CASE EnqueueProbe
  BY <1>1, EnqueuedProbe DEF Settled, ActiveSlots
<1>2. CASE FlushRefused \/ WritableTimeout
  <2>1. pc' = "aborted"
        /\ (probe_table'[s] = FreeProbe \/ probe_table'[s] = probe_table[s])
    BY <1>2 DEF FlushRefused, WritableTimeout, GiveUpBatch, ReleaseSlots
  <2> QED BY <2>1 DEF Settled, FreeProbe
<1>3. CASE Reap
  <2>1. probe_table'[s] = IF s \in TimedOut \cap ActiveSlots THEN FreeProbe ELSE probe_table[s]
    BY <1>3, ReleasedSlots DEF Reap
  <2> QED BY <2>1 DEF Settled, FreeProbe, TimedOut
<1>4. CASE ProcessPacket
  <2>1. CASE RecordReply(Head(inbox))
    BY <2>1 DEF RecordReply, Holds, Settled, FreeProbe
  <2>2. CASE Unchanged
    BY <2>2 DEF Unchanged, Settled
  <2> QED BY <1>4, <2>1, <2>2, HandledPacket
<1>5. CASE Tick \/ SetBack
  BY <1>5, ClockKeepsHosts DEF Settled
<1>6. CASE Rerun
  BY <1>6 DEF Rerun, Settled
<1>7. CASE probe_table' = probe_table
  BY <1>7 DEF Settled
<1> QED
  BY <1>1, <1>2, <1>3, <1>4, <1>5, <1>6, <1>7
  DEF Next, ScannerStep, vars, scannerVars, sweepVars, StartIteration, SkipHost, PopulateDone,
      FlushSend, FlushThrottled, FlushDone, WritableEvent, WritableOtherEvent, ReceiveReady,
      ReceiveTimeout, Drain, DrainFails, Take, ProcessDone, Network, Stopped

\* A slot goes to another host only after its probe was answered, ran out its whole
\* timeout, or the sweep broke off.
THEOREM SlotsReusedInTime == Spec => SlotReuse
<1>1. TypeOK /\ SlotTable /\ [Next]_vars =>
        [\A s \in Slots :
           (probe_table[s].active /\ probe_table[s] # probe_table'[s] /\ ~ Over) =>
             \/ probe_table'[s].active /\ probe_table'[s].dest = probe_table[s].dest
             \/ /\ ~ probe_table'[s].active
                /\ \/ probe_table[s].age > Timeout
                   \/ probe_table[s].dest \in found_ips_cache'
                   \/ pc' = "aborted"]_vars
  BY SlotsSettled DEF Settled
<1> QED BY <1>1, TypeCorrect, TablesAgree, PTL DEF Spec, SlotReuse

-----------------------------------------------------------------------------
(* The sweep that one run implements                                       *)

\* How a host's status is read off the tables.
StatusRight ==
  \A h \in Hosts :
    LET status == ScanStatus[h]
        free == host_to_probe[h] = NoSlot IN
      /\ status = "reported" <=> h \in found_ips_cache
      /\ status = "inflight" <=> h \notin found_ips_cache /\ ~ free
      /\ status = "expired" <=> h \in probed \ found_ips_cache /\ free
      /\ status = "pending" <=>
           h \notin probed \cup found_ips_cache \cup LocalReserved /\ free
      /\ status \in {"reported", "skipped", "expired", "inflight", "pending"}

LEMMA StatusNamesPlace == StatusRight
<1> SUFFICES ASSUME NEW h \in Hosts
             PROVE  LET status == ScanStatus[h]
                        free == host_to_probe[h] = NoSlot IN
               /\ status = "reported" <=> h \in found_ips_cache
               /\ status = "inflight" <=> h \notin found_ips_cache /\ ~ free
               /\ status = "expired" <=> h \in probed \ found_ips_cache /\ free
               /\ status = "pending" <=>
                    h \notin probed \cup found_ips_cache \cup LocalReserved /\ free
               /\ status \in {"reported", "skipped", "expired", "inflight", "pending"}
  BY DEF StatusRight
<1>1. ScanStatus[h] =
        CASE h \in found_ips_cache       -> "reported"
          [] h \notin found_ips_cache /\ host_to_probe[h] # NoSlot -> "inflight"
          [] h \in probed \ found_ips_cache /\ host_to_probe[h] = NoSlot -> "expired"
          [] OTHER -> IF h \in LocalReserved THEN "skipped" ELSE "pending"
  BY DEF ScanStatus
<1>2. CASE h \in found_ips_cache
  BY <1>1, <1>2
<1>3. CASE h \notin found_ips_cache /\ host_to_probe[h] # NoSlot
  BY <1>1, <1>3
<1>4. CASE h \in probed \ found_ips_cache /\ host_to_probe[h] = NoSlot
  BY <1>1, <1>4
<1>5. CASE h \notin probed \cup found_ips_cache /\ host_to_probe[h] = NoSlot
  BY <1>1, <1>5
<1> QED BY <1>2, <1>3, <1>4, <1>5

\* A host of which the tables say the same keeps its status.
LEMMA StatusStays ==
  ASSUME StatusRight, StatusRight', NEW h \in Hosts,
         (h \in found_ips_cache)' <=> h \in found_ips_cache,
         (host_to_probe'[h] = NoSlot) <=> (host_to_probe[h] = NoSlot),
         \/ (h \in probed)' <=> h \in probed
         \/ host_to_probe[h] # NoSlot
  PROVE  ScanStatus'[h] = ScanStatus[h]
BY DEF StatusRight

\* A step of the abstract sweep that moves some hosts on, told host by host.
LEMMA HostsMove ==
  ASSUME NEW S, NEW state,
         \A h \in Hosts : ScanStatus'[h] = IF h \in S THEN state ELSE ScanStatus[h]
  PROVE  HS!Become(S, state)
BY DEF HS!Become, ScanStatus

LEMMA SameStatus ==
  ASSUME UNCHANGED <<found_ips_cache, host_to_probe, probed>>
  PROVE  ScanStatus' = ScanStatus
BY DEF ScanStatus

\* Of a run on a fresh socket, a host is under way in the abstract sweep where it is in
\* an active slot: there are no more of them than probes.
LEMMA InflightBounded ==
  ASSUME SweepInv, runs = 1, StatusRight
  PROVE  /\ HS!HostsIn("inflight") = {probe_table[s].dest : s \in ActiveSlots}
         /\ IsFiniteSet(HS!HostsIn("inflight"))
         /\ Cardinality(HS!HostsIn("inflight")) <= active_probes
<1> DEFINE dest == [s \in ActiveSlots |-> probe_table[s].dest]
           under == HS!HostsIn("inflight")
           hosts == {probe_table[s].dest : s \in ActiveSlots}
<1>1. IsFiniteSet(ActiveSlots) /\ active_probes = Cardinality(ActiveSlots)
  BY SlotSets DEF SweepInv, ActiveCount, ActiveSlots
<1>2. \A s \in ActiveSlots : /\ s \in Slots /\ probe_table[s].dest \in Hosts
                             /\ probe_table[s].dest \notin found_ips_cache
                             /\ host_to_probe[probe_table[s].dest] = s
  BY DEF SweepInv, TypeOK, SweepTypes, ActiveSlots, AskedInv, ResultWasProbed, SlotTable
<1>3. \A h \in Hosts : host_to_probe[h] # NoSlot => h \in hosts
  BY DEF SweepInv, TypeOK, SweepTypes, SlotTable, ActiveSlots
<1>4. \A h \in hosts : h \in Hosts /\ h \notin found_ips_cache /\ host_to_probe[h] # NoSlot
  BY <1>2, Sizes
<1>5. under = {h \in Hosts : h \notin found_ips_cache /\ host_to_probe[h] # NoSlot}
  BY DEF HS!HostsIn, StatusRight
<1>6. under = hosts
  <2> HIDE DEF hosts, under
  <2> QED BY <1>3, <1>4, <1>5
<1>7. dest \in Surjection(ActiveSlots, hosts)
  BY DEF Surjection
<1> HIDE DEF dest, under, hosts
<1>8. IsFiniteSet(under) /\ Cardinality(under) <= Cardinality(ActiveSlots)
  BY <1>1, <1>6, <1>7, FS_Surjection
<1> QED BY <1>1, <1>6, <1>8 DEF under, hosts

\* The hosts of released slots point nowhere any more; the other pointers stay.
LEMMA ReleasedHosts ==
  ASSUME TypeOK, SlotTable, NEW S, ReleaseSlots(S)
  PROVE  LET dropped == {probe_table[s].dest : s \in S \cap ActiveSlots} IN
         /\ dropped \subseteq Hosts
         /\ \A h \in dropped : host_to_probe[h] # NoSlot
         /\ \A h \in Hosts : host_to_probe'[h] = IF h \in dropped THEN NoSlot
                                                 ELSE host_to_probe[h]
<1> DEFINE held == S \cap ActiveSlots
           dropped == {probe_table[s].dest : s \in held}
<1>1. \A s \in held : s \in Slots /\ probe_table[s].dest \in Hosts
                      /\ host_to_probe[probe_table[s].dest] = s
  BY DEF ActiveSlots, TypeOK, SweepTypes, SlotTable
<1>2. dropped \subseteq Hosts /\ \A h \in dropped : host_to_probe[h] # NoSlot
  BY <1>1, Sizes
<1>3. \A h \in Hosts : (\E s \in held : PointsAt(h, s)) <=> h \in dropped
  BY <1>1 DEF PointsAt
<1>4. \A h \in Hosts : host_to_probe'[h] = IF h \in dropped THEN NoSlot ELSE host_to_probe[h]
  BY <1>3 DEF ReleaseSlots
<1> QED BY <1>2, <1>4

\* What one run knows before and after a step.
OneRun == SweepInv /\ runs = 1 /\ StatusRight

\* A request enters the batch: the host at the cursor was never asked.
LEMMA EnqueueProbes ==
  ASSUME OneRun, StatusRight', EnqueueProbe
  PROVE  HS!Probe(next_host_idx) /\ next_host_idx \in Hosts
<1> USE DEF OneRun, SweepInv
<1> DEFINE host == next_host_idx
<1>1. /\ host \in Hosts /\ host \notin LocalReserved \cup found_ips_cache
      /\ host_to_probe[host] = NoSlot
      /\ pc = "populate" /\ pc' = "populate"
      /\ UNCHANGED <<probed, found_ips_cache>>
  BY EnqueuedProbe
<1>2. PICK slot \in Slots :
        \A h \in Hosts : host_to_probe'[h] = IF h = host THEN slot ELSE host_to_probe[h]
  BY EnqueuedProbe
<1>3. host \notin probed
  <2>1. host \in Int
    BY DEF TypeOK, SweepTypes
  <2> QED BY <1>1, <2>1 DEF CursorInv
<1>4. ScanStatus[host] = "pending"
  BY <1>1, <1>3 DEF StatusRight
<1>5. ScanStatus'[host] = "inflight"
  BY <1>1, <1>2, Sizes DEF StatusRight
<1>6. \A h \in Hosts \ {host} : ScanStatus'[h] = ScanStatus[h]
  BY <1>1, <1>2, StatusStays
<1>7. HS!Become({host}, "inflight")
  BY <1>5, <1>6, HostsMove
<1>8. Cardinality(HS!HostsIn("inflight")) < MaxProbes
  <2>1. Cardinality(HS!HostsIn("inflight")) \in Nat
    BY InflightBounded, FS_CardinalityType
  <2>2. active_probes < MaxProbes
    BY DEF EnqueueProbe, MayPopulate
  <2> QED BY <2>1, <2>2, InflightBounded, Sizes DEF TypeOK, SweepTypes
<1>9. HS!Cardinality(HS!HostsIn("inflight")) < MaxProbes
  BY <1>8 DEF HS!Cardinality, Cardinality
<1>10. UNCHANGED ScanPhase
  BY <1>1 DEF ScanPhase
<1> QED BY <1>1, <1>4, <1>7, <1>9, <1>10 DEF HS!Probe

\* A request that goes out was under way already.
LEMMA SendingStutters ==
  ASSUME OneRun, StatusRight', FlushSend
  PROVE  ScanStatus' = ScanStatus
<1> USE DEF OneRun, SweepInv
<1>1. /\ probed' = probed \cup {Target} /\ Target \in Hosts
      /\ UNCHANGED <<host_to_probe, found_ips_cache>>
      /\ 1 \in DOMAIN batch /\ Head(batch) = batch[1] /\ Head(batch) \in Slots
  BY SentRequest DEF sweepVars, foundVars
<1>2. host_to_probe[Target] = Head(batch)
  BY <1>1 DEF BatchInv, SlotTable, Target
<1>3. \A h \in Hosts : ScanStatus'[h] = ScanStatus[h]
  BY <1>1, <1>2, StatusStays, Sizes
<1> QED BY <1>3 DEF ScanStatus

\* A host is reported: it was under way or had been given up, as this run asked it.
LEMMA RecordReports ==
  ASSUME OneRun, StatusRight', ProcessPacket, RecordReply(Head(inbox))
  PROVE  HS!Report(Head(inbox).target) /\ Head(inbox).target \in Hosts
<1> USE DEF OneRun, SweepInv
<1> DEFINE host == Head(inbox).target
<1>1. /\ host \in Hosts /\ host \notin found_ips_cache
      /\ found_ips_cache' = found_ips_cache \cup {host}
      /\ \A h \in Hosts : host_to_probe'[h] = IF h = host THEN NoSlot ELSE host_to_probe[h]
  BY RecordedReply
<1>2. host \in probed /\ probed' = probed /\ pc' = pc
  BY HandledPacket DEF AskedInv, AskedFor, histVars
<1>3. ScanStatus[host] \in {"inflight", "expired"} /\ ScanStatus'[host] = "reported"
  BY <1>1, <1>2 DEF StatusRight
<1>4. \A h \in Hosts \ {host} : ScanStatus'[h] = ScanStatus[h]
  BY <1>1, <1>2, StatusStays
<1>5. HS!Become({host}, "reported")
  BY <1>3, <1>4, HostsMove
<1>6. UNCHANGED ScanPhase
  BY <1>2 DEF ScanPhase
<1> QED BY <1>1, <1>3, <1>5, <1>6 DEF HS!Report

\* Probes that are taken back were under way; what becomes of their hosts is told by
\* whether they were sent.
LEMMA ReleaseMoves ==
  ASSUME OneRun, StatusRight', NEW S, ReleaseSlots(S), UNCHANGED <<found_ips_cache, probed>>,
         NEW state,
         \/ /\ \A s \in S \cap ActiveSlots : probe_table[s].dest \in probed
            /\ state = "expired"
         \/ /\ \A s \in S \cap ActiveSlots : probe_table[s].dest \notin probed
            /\ state = "pending"
  PROVE  LET dropped == {probe_table[s].dest : s \in S \cap ActiveSlots} IN
         dropped \subseteq HS!HostsIn("inflight") /\ HS!Become(dropped, state)
<1> USE DEF OneRun, SweepInv
<1> DEFINE dropped == {probe_table[s].dest : s \in S \cap ActiveSlots}
<1>1. /\ dropped \subseteq Hosts
      /\ \A h \in dropped : host_to_probe[h] # NoSlot
      /\ \A h \in Hosts : host_to_probe'[h] = IF h \in dropped THEN NoSlot ELSE host_to_probe[h]
  BY ReleasedHosts
<1>2. dropped \subseteq HS!HostsIn("inflight")
  BY InflightBounded
<1>3. \A h \in dropped : h \notin found_ips_cache /\ h \notin LocalReserved
  BY DEF AskedInv, ResultWasProbed, CursorInv
<1>4. \/ state = "expired" /\ \A h \in dropped : h \in probed
      \/ state = "pending" /\ \A h \in dropped : h \notin probed
  OBVIOUS
<1> HIDE DEF dropped
<1>5. \A h \in dropped : ScanStatus'[h] = state
  BY <1>1, <1>3, <1>4 DEF StatusRight
<1>6. \A h \in Hosts \ dropped : ScanStatus'[h] = ScanStatus[h]
  BY <1>1, StatusStays
<1>7. HS!Become(dropped, state)
  BY <1>5, <1>6, HostsMove
<1> QED BY <1>2, <1>7 DEF dropped

\* Every step of one run is a step of the abstract sweep, or none.
LEMMA OneRunStep ==
  ASSUME OneRun, StatusRight', [Next]_vars, ~ Rerun
  PROVE  [HS!Next]_<<ScanStatus, ScanPhase>>
<1> USE DEF OneRun, SweepInv
<1>1. CASE EnqueueProbe
  <2>1. ScanPhase = "running"
    BY <1>1 DEF EnqueueProbe, ScanPhase
  <2> QED BY <1>1, <2>1, EnqueueProbes DEF HS!Next
<1>2. CASE FlushSend
  <2>1. ScanPhase' = ScanPhase
    BY <1>2 DEF FlushSend, ScanPhase
  <2> QED BY <1>2, <2>1, SendingStutters
<1>3. CASE ProcessPacket
  <2>1. pc = "process" /\ pc' = pc /\ probed' = probed
    BY <1>3, HandledPacket DEF ProcessPacket, histVars
  <2>2. ScanPhase = "running" /\ UNCHANGED ScanPhase
    BY <2>1 DEF ScanPhase
  <2>3. CASE RecordReply(Head(inbox))
    BY <1>3, <2>2, <2>3, RecordReports DEF HS!Next
  <2>4. CASE Unchanged
    BY <2>1, <2>2, <2>4, SameStatus DEF Unchanged, foundVars
  <2> QED BY <1>3, <2>3, <2>4, HandledPacket
<1>4. CASE Reap
  <2> DEFINE dropped == {probe_table[s].dest : s \in TimedOut \cap ActiveSlots}
  <2>1. /\ pc = "reap" /\ pc' = "send_batch" /\ ReleaseSlots(TimedOut)
        /\ UNCHANGED <<found_ips_cache, probed>>
    BY <1>4 DEF Reap, foundVars, histVars
  <2>2. \A s \in TimedOut \cap ActiveSlots : probe_table[s].dest \in probed
    <3>1. batch = <<>>
      BY <2>1 DEF BatchInv
    <3>2. Range(batch) = {}
      BY <3>1 DEF Range
    <3> QED BY <3>2 DEF SentOrBatched
  <2>3. dropped \subseteq HS!HostsIn("inflight") /\ HS!Become(dropped, "expired")
    BY <2>1, <2>2, ReleaseMoves
  <2>4. ScanPhase = "running" /\ UNCHANGED ScanPhase
    BY <2>1 DEF ScanPhase
  <2> HIDE DEF dropped
  <2>5. CASE dropped = {}
    <3>1. \A h \in Hosts : ScanStatus'[h] = ScanStatus[h]
      BY <2>3, <2>5 DEF HS!Become
    <3>2. ScanStatus' = ScanStatus
      BY <3>1 DEF ScanStatus
    <3> QED BY <2>4, <3>2
  <2>6. CASE dropped # {}
    <3>1. HS!Expire(dropped)
      BY <2>3, <2>4, <2>6 DEF HS!Expire
    <3> QED BY <2>3, <2>4, <3>1 DEF HS!Next
  <2> QED BY <2>5, <2>6
<1>5. CASE FlushRefused \/ WritableTimeout
  <2> DEFINE dropped == {probe_table[s].dest : s \in Unsent \cap ActiveSlots}
  <2>1. /\ pc \in {"flush", "writable"} /\ pc' = "aborted" /\ ReleaseSlots(Unsent)
        /\ UNCHANGED <<found_ips_cache, probed>>
    BY <1>5 DEF FlushRefused, WritableTimeout, GiveUpBatch, foundVars, histVars
  <2>2. \A s \in Unsent \cap ActiveSlots : probe_table[s].dest \notin probed
    BY DEF BatchInv, Unsent, Range
  <2>3. dropped \subseteq HS!HostsIn("inflight") /\ HS!Become(dropped, "pending")
    BY <2>1, <2>2, ReleaseMoves
  <2>4. ScanPhase = "running" /\ ScanPhase' = "abandoned"
    BY <2>1 DEF ScanPhase
  <2> HIDE DEF dropped
  <2>5. HS!Abandon(dropped)
    BY <2>3, <2>4 DEF HS!Abandon
  <2> QED BY <2>3, <2>4, <2>5 DEF HS!Next
<1>6. CASE StartIteration
  <2>1. /\ pc = "send_batch" /\ pc' = IF WorkLeft THEN "populate" ELSE "returned"
        /\ UNCHANGED <<found_ips_cache, host_to_probe, probed, probe_table>>
    BY <1>6 DEF StartIteration, foundVars, sweepVars, histVars
  <2>2. ScanStatus' = ScanStatus
    BY <2>1, SameStatus
  <2>3. CASE WorkLeft
    BY <2>1, <2>2, <2>3 DEF ScanPhase
  <2>4. CASE ~ WorkLeft
    <3>1. next_host_idx = TotalHosts /\ active_probes = 0
      BY <2>4, ScannerAssumption, Sizes DEF WorkLeft, TypeOK, SweepTypes
    <3>2. ActiveSlots = {}
      BY <3>1, SlotSets, FS_EmptySet DEF ActiveCount, ActiveSlots
    <3>3. HS!HostsIn("inflight") = {}
      BY <3>2, InflightBounded
    <3>4. \A h \in Hosts : h \in LocalReserved \cup probed \cup found_ips_cache
      BY <2>1, <3>1, <3>2, ScannerAssumption DEF SettledInv, Hosts
    <3>5. HS!HostsIn("pending") = {}
      BY <3>4 DEF StatusRight, HS!HostsIn
    <3>6. ScanPhase = "running" /\ ScanPhase' = "finished"
      BY <2>1, <2>4 DEF ScanPhase
    <3>7. HS!Finish
      BY <2>2, <3>3, <3>5, <3>6 DEF HS!Finish
    <3> QED BY <3>6, <3>7 DEF HS!Next
  <2> QED BY <2>3, <2>4
<1>7. CASE UNCHANGED <<pc, found_ips_cache, host_to_probe, probed>>
  BY <1>7, SameStatus DEF ScanPhase
<1>8. CASE PopulateDone \/ FlushThrottled \/ FlushDone \/ WritableEvent \/ ReceiveReady
           \/ ReceiveTimeout \/ Drain \/ DrainFails \/ ProcessDone
  <2>1. pc \notin {"returned", "aborted"} /\ pc' \notin {"returned", "aborted"}
    BY <1>8 DEF PopulateDone, FlushThrottled, FlushDone, WritableEvent, ReceiveReady,
       ReceiveTimeout, Drain, DrainFails, Take, ProcessDone
  <2>2. ScanPhase' = ScanPhase
    BY <2>1 DEF ScanPhase
  <2>3. UNCHANGED <<found_ips_cache, host_to_probe, probed>>
    BY <1>8 DEF PopulateDone, FlushThrottled, FlushDone, WritableEvent, ReceiveReady,
       ReceiveTimeout, Drain, DrainFails, Take, ProcessDone, sweepVars, foundVars, histVars
  <2> QED BY <2>2, <2>3, SameStatus
<1> QED
  BY <1>1, <1>2, <1>3, <1>4, <1>5, <1>6, <1>7, <1>8
  DEF Next, ScannerStep, vars, scannerVars, sweepVars, foundVars, histVars, SkipHost,
      WritableOtherEvent, Network, Tick, SetBack, ClockMoves, Stopped

\* One run of the ping sweep, on the socket its constructor opened, keeps the promise of
\* every sweep: each host is settled once, with at most max_probes_ under way, answers
\* are reported in time or late, and a run that breaks off takes back what never left.
\* A second run does not (it may report what it has not asked), so MaxRuns is 1.
THEOREM PingSweeps == MaxRuns = 1 => (Spec => ImplementsHostScan)
<1> SUFFICES ASSUME MaxRuns = 1 PROVE Spec => ImplementsHostScan
  OBVIOUS
<1>1. Init => HS!Init /\ runs = 1
  <2> SUFFICES ASSUME Init PROVE HS!Init
    BY DEF Init
  <2>1. ScanStatus = [h \in Hosts |-> IF h \in LocalReserved THEN "skipped" ELSE "pending"]
    BY DEF Init, ScanStatus
  <2>2. ScanPhase = "running"
    BY DEF Init, ScanPhase
  <2> QED BY <2>1, <2>2 DEF HS!Init
<1>2. SweepInv /\ runs = 1 /\ [Next]_vars => ~ Rerun /\ (runs = 1)'
  <2> SUFFICES ASSUME SweepInv, runs = 1, [Next]_vars PROVE ~ Rerun /\ (runs = 1)'
    OBVIOUS
  <2>1. ~ Rerun
    BY DEF Rerun
  <2>2. EnqueueProbe \/ FlushSend => runs' = runs
    BY EnqueuedProbe, SentRequest DEF SweepInv
  <2> QED BY <2>1, <2>2, OtherSteps DEF SweepInv
<1>3. SweepInv /\ runs = 1 /\ StatusRight /\ StatusRight' /\ [Next]_vars /\ ~ Rerun
        => [HS!Next]_<<ScanStatus, ScanPhase>>
  BY OneRunStep DEF OneRun
<1>4. SweepInv => StatusRight
  BY StatusNamesPlace
<1>5. Spec => HS!Init /\ [][HS!Next]_<<ScanStatus, ScanPhase>>
  BY <1>1, <1>2, <1>3, <1>4, SweepInvariant, PTL DEF Spec
<1> QED BY <1>5 DEF ImplementsHostScan, HS!Spec
=============================================================================
