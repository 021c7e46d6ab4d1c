----------------------------- MODULE PingSafety -----------------------------
(* The safety invariants of PingScanner, proved for every value of its     *)
(* constants on top of the type correctness of PingProof.                  *)
EXTENDS PingProof

-----------------------------------------------------------------------------
(* The probe table and the host map                                        *)

\* The part of the inductive invariant that is about the tables.
Tables == SlotTable /\ ActiveCount

\* A set of slots is finite, and so has a size.
LEMMA SlotSets ==
  ASSUME NEW S \in SUBSET Slots
  PROVE  IsFiniteSet(S) /\ Cardinality(S) \in Nat
BY Sizes, FS_Subset, FS_CardinalityType

\* release_probe_slot and its copies take slots out of both tables and the count at
\* once; the guard of the count is never needed.
LEMMA ReleaseKeepsTables ==
  ASSUME NEW S, TypeOK, Tables, ReleaseSlots(S)
  PROVE  Tables'
<1> USE DEF Tables
<1> DEFINE held == S \cap ActiveSlots
<1>1. held \subseteq ActiveSlots /\ ActiveSlots \subseteq Slots
  BY DEF ActiveSlots
<1>2. \A s \in Slots : probe_table'[s] = IF s \in held THEN FreeProbe ELSE probe_table[s]
  BY DEF ReleaseSlots
<1>3. \A h \in Hosts : host_to_probe'[h] = IF host_to_probe[h] \in held THEN NoSlot
                                           ELSE host_to_probe[h]
  <2>1. \A h \in Hosts :
          (\E s \in held : PointsAt(h, s)) <=> host_to_probe[h] \in held
    BY <1>1 DEF PointsAt, SlotTable, ActiveSlots
  <2> QED BY <2>1 DEF ReleaseSlots
<1>4. SlotTable'
  <2> SUFFICES ASSUME NEW h \in Hosts, NEW s \in Slots
               PROVE  host_to_probe'[h] = s <=> probe_table'[s].active /\ probe_table'[s].dest = h
    BY DEF SlotTable
  <2>1. CASE s \in held
    <3>1. ~ probe_table'[s].active BY <1>2, <2>1 DEF FreeProbe
    <3>2. host_to_probe'[h] # s BY <1>3, <2>1, Sizes
    <3> QED BY <3>1, <3>2
  <2>2. CASE s \notin held
    <3>1. probe_table'[s] = probe_table[s] BY <1>2, <2>2
    <3>2. host_to_probe'[h] = s <=> host_to_probe[h] = s BY <1>3, <2>2, Sizes
    <3> QED BY <3>1, <3>2 DEF SlotTable
  <2> QED BY <2>1, <2>2
<1>5. ActiveCount'
  <2>1. ActiveSlots' = ActiveSlots \ held
    BY <1>2 DEF ActiveSlots, FreeProbe
  <2>2. Cardinality(ActiveSlots \ held) = Cardinality(ActiveSlots) - Cardinality(held)
    <3>1. ActiveSlots \cap held = held BY <1>1
    <3> QED BY <1>1, <3>1, SlotSets, FS_Difference
  <2>3. Cardinality(held) <= Cardinality(ActiveSlots)
    BY <1>1, SlotSets, FS_Subset
  <2>4. Cardinality(held) \in Nat /\ Cardinality(ActiveSlots) \in Nat
    BY <1>1, SlotSets
  <2>5. active_probes' = Cardinality(ActiveSlots) - Cardinality(held)
    BY <2>3, <2>4 DEF ReleaseSlots, Minus, ActiveCount
  <2> QED BY <2>1, <2>2, <2>5 DEF ActiveCount
<1> QED BY <1>4, <1>5

\* populate_batch_entries fills a free slot with a host that points nowhere.
LEMMA EnqueueKeepsTables ==
  ASSUME TypeOK, Tables, EnqueueProbe
  PROVE  Tables'
<1> USE DEF Tables
<1> DEFINE host == next_host_idx
<1>1. PICK slot \in Slots :
        /\ Available(slot)
        /\ probe_table' = [probe_table EXCEPT ![slot] =
                             [active |-> TRUE, dest |-> host, age |-> 0]]
        /\ host_to_probe' = [host_to_probe EXCEPT ![host] = slot]
  BY DEF EnqueueProbe
<1>2. host \in Hosts /\ host_to_probe[host] = NoSlot
  BY ScannerAssumption DEF EnqueueProbe, MayPopulate, MustSkip, TypeOK, SweepTypes, Hosts
<1>3. slot \notin ActiveSlots /\ ~ probe_table[slot].active
  BY <1>1 DEF Available, FreeSlots, ActiveSlots
<1>4. \A s \in Slots : probe_table'[s] = IF s = slot
                         THEN [active |-> TRUE, dest |-> host, age |-> 0]
                         ELSE probe_table[s]
  BY <1>1 DEF TypeOK, SweepTypes
<1>5. \A h \in Hosts : host_to_probe'[h] = IF h = host THEN slot ELSE host_to_probe[h]
  BY <1>1 DEF TypeOK, SweepTypes
<1>6. SlotTable'
  <2> SUFFICES ASSUME NEW h \in Hosts, NEW s \in Slots
               PROVE  host_to_probe'[h] = s <=> probe_table'[s].active /\ probe_table'[s].dest = h
    BY DEF SlotTable
  <2>1. CASE s = slot
    BY <1>2, <1>3, <1>4, <1>5, <2>1 DEF SlotTable
  <2>2. CASE s # slot
    BY <1>2, <1>4, <1>5, <2>2, Sizes DEF SlotTable
  <2> QED BY <2>1, <2>2
<1>7. ActiveCount'
  <2>1. ActiveSlots' = ActiveSlots \cup {slot}
    BY <1>4 DEF ActiveSlots
  <2>2. IsFiniteSet(ActiveSlots)
    BY SlotSets DEF ActiveSlots
  <2>3. Cardinality(ActiveSlots') = Cardinality(ActiveSlots) + 1
    BY <1>3, <2>1, <2>2, FS_AddElement
  <2> QED BY <2>3 DEF EnqueueProbe, ActiveCount
<1> QED BY <1>6, <1>7

\* A reply frees the slot its host points at, if any.  The check of the slot's active
\* flag and destination never fails: a host points only at its own active probe.
LEMMA ReplyKeepsTables ==
  ASSUME NEW reply \in Datagrams, TypeOK, Tables, RecordReply(reply)
  PROVE  Tables'
<1> USE DEF Tables
<1> DEFINE host == reply.target
           slot == host_to_probe[host]
           held == Holds(slot, host)
<1>1. host \in Hosts /\ slot \in Slots \cup {NoSlot}
  BY DEF Datagrams, TypeOK, SweepTypes
<1>2. held <=> slot # NoSlot
  BY <1>1 DEF Holds, SlotTable
<1>3. \A s \in Slots : probe_table'[s] = IF s = slot THEN FreeProbe ELSE probe_table[s]
  BY <1>1, <1>2, Sizes DEF RecordReply
<1>4. \A h \in Hosts : host_to_probe'[h] = IF h = host THEN NoSlot ELSE host_to_probe[h]
  BY DEF RecordReply, TypeOK, SweepTypes
<1>5. SlotTable'
  <2> SUFFICES ASSUME NEW h \in Hosts, NEW s \in Slots
               PROVE  host_to_probe'[h] = s <=> probe_table'[s].active /\ probe_table'[s].dest = h
    BY DEF SlotTable
  <2>1. CASE s = slot
    <3>1. ~ probe_table'[s].active BY <1>3, <2>1 DEF FreeProbe
    <3>2. probe_table[s].dest = host BY <1>1, <2>1 DEF SlotTable
    <3>3. host_to_probe'[h] # s BY <1>4, <2>1, <3>2, Sizes DEF SlotTable
    <3> QED BY <3>1, <3>3
  <2>2. CASE s # slot
    BY <1>1, <1>3, <1>4, <2>2, Sizes DEF SlotTable
  <2> QED BY <2>1, <2>2
<1>6. ActiveCount'
  <2>1. CASE slot = NoSlot
    <3>1. ActiveSlots' = ActiveSlots BY <1>3, <2>1, Sizes DEF ActiveSlots
    <3> QED BY <1>2, <2>1, <3>1 DEF RecordReply, ActiveCount
  <2>2. CASE slot # NoSlot
    <3>1. slot \in ActiveSlots BY <1>1, <2>2 DEF ActiveSlots, SlotTable
    <3>2. ActiveSlots' = ActiveSlots \ {slot}
      BY <1>3 DEF ActiveSlots, FreeProbe
    <3>3. IsFiniteSet(ActiveSlots) /\ Cardinality(ActiveSlots) \in Nat
      BY SlotSets DEF ActiveSlots
    <3>4. Cardinality(ActiveSlots') = Cardinality(ActiveSlots) - 1
      BY <3>1, <3>2, <3>3, FS_RemoveElement
    <3>5. Cardinality(ActiveSlots) > 0
      BY <3>1, <3>3, FS_EmptySet
    <3>6. active_probes' = active_probes - 1
      BY <1>2, <2>2, <3>3, <3>5 DEF RecordReply, Minus, ActiveCount
    <3> QED BY <3>4, <3>6 DEF ActiveCount
  <2> QED BY <2>1, <2>2
<1> QED BY <1>5, <1>6

\* Steps that only age the probes, or leave the tables alone.
LEMMA AgeingKeepsTables ==
  ASSUME TypeOK, Tables,
         UNCHANGED <<active_probes, host_to_probe>>,
         \A s \in Slots : /\ probe_table'[s].active = probe_table[s].active
                          /\ probe_table'[s].dest = probe_table[s].dest
  PROVE  Tables'
<1>1. ActiveSlots' = ActiveSlots BY DEF ActiveSlots
<1> QED BY <1>1 DEF Tables, SlotTable, ActiveCount

\* No step of the scanner or its environment parts the tables.
LEMMA TablesStep ==
  ASSUME TypeOK, Tables, [Next]_vars
  PROVE  Tables'
<1>1. CASE EnqueueProbe
  BY <1>1, EnqueueKeepsTables
<1>2. CASE FlushRefused \/ WritableTimeout
  BY <1>2, ReleaseKeepsTables DEF FlushRefused, WritableTimeout, GiveUpBatch
<1>3. CASE Reap
  BY <1>3, ReleaseKeepsTables DEF Reap
<1>4. CASE ProcessPacket
  <2>1. Head(inbox) \in Datagrams
    BY <1>4, PacketTypes
  <2>2. CASE RecordReply(Head(inbox))
    BY <2>1, <2>2, ReplyKeepsTables
  <2>3. CASE ~ RecordReply(Head(inbox))
    <3>1. Unchanged
      BY <1>4, <2>3 DEF ProcessPacket, PassOver, CountShort, CountForeign, CountDuplicate
    <3> QED BY <3>1, AgeingKeepsTables DEF Unchanged
  <2> QED BY <2>2, <2>3
<1>5. CASE Rerun
  <2>1. ActiveSlots' = {}
    BY <1>5 DEF Rerun, ActiveSlots, FreeProbe
  <2>2. active_probes' = 0 /\ Cardinality({}) = 0
    BY <1>5, FS_EmptySet DEF Rerun
  <2>3. SlotTable'
    BY <1>5, Sizes DEF Rerun, SlotTable, FreeProbe
  <2> QED BY <2>1, <2>2, <2>3 DEF Tables, ActiveCount
<1>6. CASE Tick \/ SetBack
  <2>0. PICK d \in Int : ClockMoves(d)
    BY <1>6, ClockSteps
  <2>1. \A s \in Slots : /\ probe_table'[s].active = probe_table[s].active
                         /\ probe_table'[s].dest = probe_table[s].dest
    BY <2>0 DEF ClockMoves, TypeOK, SweepTypes
  <2> QED BY <2>0, <2>1, AgeingKeepsTables DEF ClockMoves
<1>7. CASE UNCHANGED <<active_probes, probe_table, host_to_probe>>
  BY <1>7, AgeingKeepsTables
<1> QED
  BY <1>1, <1>2, <1>3, <1>4, <1>5, <1>6, <1>7
  DEF Next, ScannerStep, vars, scannerVars, sweepVars, StartIteration, SkipHost, PopulateDone,
      FlushSend, FlushThrottled, FlushDone, WritableEvent, WritableOtherEvent, ReceiveReady,
      ReceiveTimeout, Drain, DrainFails, Take, ProcessDone, Network, Stopped

\* TypeOK makes Tables inductive.
LEMMA TablesInvariant == Spec => []Tables
<1>1. Init => Tables
  <2> SUFFICES ASSUME Init PROVE Tables
    OBVIOUS
  <2>1. ActiveSlots = {} BY DEF Init, ActiveSlots, FreeProbe
  <2>2. SlotTable BY Sizes DEF Init, SlotTable, FreeProbe
  <2> QED BY <2>1, <2>2, FS_EmptySet DEF Init, Tables, ActiveCount
<1>2. TypeOK /\ Tables /\ [Next]_vars => Tables'
  BY TablesStep
<1> QED BY <1>1, <1>2, TypeCorrect, PTL DEF Spec

\* The probe table and host_to_probe mirror each other in every state of every run.
THEOREM TablesAgree == Spec => []SlotTable
BY TablesInvariant, PTL DEF Tables

\* active_probes, which decides when run() ends, never drifts from the number of active
\* slots, in every state of every run.
THEOREM ProbesCounted == Spec => []ActiveCount
BY TablesInvariant, PTL DEF Tables

-----------------------------------------------------------------------------
(* The edge-triggered socket                                               *)

\* A recvmmsg that fills its batch is followed by another; one that does not leaves the
\* receive buffer empty.
LEMMA DrainKeepsWakeup ==
  ASSUME TypeOK, Drain
  PROVE  NoLostWakeup'
<1> DEFINE k == Received(RecvBatchSize)
<1>1. Take(k, FALSE) /\ k \in 0 .. Len(rxq) /\ k <= RecvBatchSize
      /\ (k < RecvBatchSize => k = Len(rxq))
  BY ReceivedBound DEF Drain
<1>2. rxq' \in Seq(Datagrams) /\ Len(rxq') = Len(rxq) - k
  BY <1>1, TakeTypes
<1>3. rxq \in Seq(Datagrams) /\ Len(rxq) \in Nat
  BY LenProperties DEF TypeOK, SocketTypes
<1>4. SUFFICES ASSUME rxq' # <<>>, RecvBatchSize > 0 PROVE pc' = "process" /\ more'
  BY DEF NoLostWakeup
<1>5. Len(rxq') # 0
  BY <1>2, <1>4, EmptySeq
<1>6. k = RecvBatchSize
  BY <1>1, <1>2, <1>3, <1>5, Sizes
<1>8. k > 0
  BY <1>4, <1>6
<1>9. pc' = "process" /\ more' = (k >= RecvBatchSize)
  BY <1>1, <1>8 DEF Take, FullBatch
<1>10. k >= RecvBatchSize
  BY <1>6, Sizes
<1> QED BY <1>9, <1>10

\* No step lets the socket fall asleep on data.
LEMMA WakeupStep ==
  ASSUME TypeOK, NoLostWakeup, [Next]_vars
  PROVE  NoLostWakeup'
<1>1. CASE Drain
  BY <1>1, DrainKeepsWakeup
<1>2. CASE DrainFails
  BY <1>2 DEF DrainFails, Take, NoLostWakeup
<1>3. CASE ReceiveReady
  BY <1>3 DEF ReceiveReady, NoLostWakeup
<1>4. CASE ReceiveTimeout
  <2>1. SUFFICES ASSUME rxq # <<>>, ~ recv_failed, RecvBatchSize > 0
                 PROVE  FALSE
    BY <1>4 DEF ReceiveTimeout, inVars, NoLostWakeup
  <2>2. ready /\ interest = {"IN"}
    BY <1>4, <2>1 DEF ReceiveTimeout, NoLostWakeup, TypeOK, SocketTypes
  <2>3. "IN" \in EpollEvents
    BY <2>1, <2>2 DEF EpollEvents, Level
  <2> QED BY <1>4, <2>3 DEF ReceiveTimeout
<1>5. CASE WritableEvent \/ WritableTimeout
  <2>1. rxq' = rxq /\ ready' = (Level \cap {"IN"} # {})
    BY <1>5 DEF WritableEvent, WritableTimeout, EpollModify
  <2>2. rxq # <<>> => "IN" \in Level
    BY DEF Level
  <2> QED BY <2>1, <2>2 DEF NoLostWakeup
<1>6. CASE FlushThrottled \/ WritableOtherEvent
  BY <1>6 DEF FlushThrottled, WritableOtherEvent, scannerVars, inVars, NoLostWakeup, TypeOK
<1>7. CASE ProcessPacket
  <2>1. UNCHANGED <<pc, more, recv_failed, socketVars>>
    BY <1>7 DEF ProcessPacket, PassOver, CountShort, CountForeign, CountDuplicate,
       RecordReply, NextDatagram
  <2> QED BY <2>1 DEF socketVars, NoLostWakeup
<1>8. CASE ProcessDone
  BY <1>8 DEF ProcessDone, socketVars, inVars, NoLostWakeup
<1>9. CASE Network
  <2>1. UNCHANGED <<pc, more, recv_failed>> BY <1>9 DEF Network, scannerVars, inVars
  <2>2. CASE \E request \in txq : Transmit(request)
    BY <2>1, <2>2 DEF Transmit, NoLostWakeup
  <2>3. CASE \E reply \in net : Deliver(reply) \/ Overflow(reply)
    BY <2>1, <2>3 DEF Deliver, Overflow, NoLostWakeup
  <2> QED BY <1>9, <2>2, <2>3 DEF Network
<1>10. CASE Tick \/ SetBack
  <2>1. PICK d \in Int : ClockMoves(d)
    BY <1>10, ClockSteps
  <2>2. rxq' = <<>> <=> rxq = <<>>
    BY <2>1, AgedTypes DEF ClockMoves, SocketClock, TypeOK, SocketTypes
  <2> QED BY <2>1, <2>2 DEF ClockMoves, SocketClock, NoLostWakeup
<1>11. CASE FlushSend
  BY <1>11 DEF FlushSend, inVars, NoLostWakeup
<1>12. CASE StartIteration \/ SkipHost \/ EnqueueProbe \/ PopulateDone \/ FlushRefused
            \/ FlushDone \/ Reap \/ Rerun
  <2>1. UNCHANGED <<recv_failed, socketVars>> /\ pc \notin {"drain", "process", "writable"}
    BY <1>12 DEF inVars, GiveUpBatch, StartIteration, SkipHost, EnqueueProbe, PopulateDone, FlushRefused,
       FlushDone, Reap, Rerun, Over
  <2> QED BY <2>1 DEF socketVars, NoLostWakeup
<1>13. CASE UNCHANGED vars
  BY <1>13 DEF vars, scannerVars, socketVars, inVars, NoLostWakeup
<1> QED
  BY <1>1, <1>2, <1>3, <1>4, <1>5, <1>6, <1>7, <1>8, <1>9, <1>10, <1>11, <1>12, <1>13
  DEF Next, ScannerStep, Stopped

\* The edge-triggered epoll never falls asleep on queued datagrams, whatever the batch
\* sizes and buffers, unless the last recvmmsg failed with more than EAGAIN.
THEOREM WakeupNeverLost == Spec => []NoLostWakeup
<1>1. Init => NoLostWakeup
  BY DEF Init, SocketInit, NoLostWakeup
<1>2. TypeOK /\ NoLostWakeup /\ [Next]_vars => NoLostWakeup'
  BY WakeupStep
<1> QED BY <1>1, <1>2, TypeCorrect, PTL DEF Spec

-----------------------------------------------------------------------------
(* The results and the reply counters                                      *)

\* The part of the inductive invariant that is about the results.
Results == UniqueHosts /\ ReplyAccounting

\* A reply recorded appends a host that was not listed, and counts as an echo reply.
LEMMA ReplyKeepsResults ==
  ASSUME NEW reply \in Datagrams, TypeOK, Results, RecordReply(reply)
  PROVE  Results'
<1> USE DEF Results
<1> DEFINE result == [host |-> reply.target, rtt |-> reply.age]
           n == Len(scan_results)
<1>1. scan_results \in Seq([host : Hosts, rtt : Ages]) /\ n \in Nat
      /\ result \in [host : Hosts, rtt : Ages]
  BY DEF TypeOK, FoundTypes, Datagrams
<1>2. scan_results' = Append(scan_results, result)
  BY DEF RecordReply
<1>3. /\ Len(scan_results') = n + 1
      /\ DOMAIN scan_results = 1 .. n
      /\ DOMAIN scan_results' = 1 .. n + 1
      /\ \A i \in 1 .. n : scan_results'[i] = scan_results[i]
      /\ scan_results'[n + 1] = result
  BY <1>1, <1>2, AppendProperties, LenProperties
<1>4. found_ips_cache' = found_ips_cache \cup {reply.target}
      /\ reply.target \notin found_ips_cache
  BY DEF RecordReply, is_host_found
<1>5. \A i \in 1 .. n : scan_results'[i].host # reply.target
  BY <1>3, <1>4 DEF UniqueHosts
<1>6. UniqueHosts'
  <2>1. \A i, j \in DOMAIN scan_results' :
          scan_results'[i].host = scan_results'[j].host => i = j
    <3> SUFFICES ASSUME NEW i \in 1 .. n + 1, NEW j \in 1 .. n + 1,
                        scan_results'[i].host = scan_results'[j].host
                 PROVE  i = j
      BY <1>3
    <3>1. CASE i \in 1 .. n /\ j \in 1 .. n
      BY <1>3, <3>1 DEF UniqueHosts
    <3>2. CASE i = n + 1 /\ j = n + 1
      BY <3>2
    <3>3. CASE (i \in 1 .. n /\ j = n + 1) \/ (i = n + 1 /\ j \in 1 .. n)
      BY <1>3, <1>5, <3>3
    <3> QED BY <1>1, <3>1, <3>2, <3>3
  <2>2. {scan_results'[i].host : i \in 1 .. n + 1}
          = {scan_results[i].host : i \in 1 .. n} \cup {reply.target}
    <3>1. 1 .. n + 1 = (1 .. n) \cup {n + 1} BY <1>1
    <3> QED BY <1>3, <3>1
  <2> QED BY <1>3, <1>4, <2>1, <2>2 DEF UniqueHosts
<1>7. ReplyAccounting'
  <2>1. echo_replies' = echo_replies + 1 /\ unmatched_replies' = unmatched_replies
    BY DEF RecordReply, NextDatagram, TypeOK, StatTypes
  <2> QED BY <1>1, <1>3, <2>1 DEF ReplyAccounting, TypeOK, StatTypes
<1> QED BY <1>6, <1>7

\* Every other datagram that counts as an echo reply counts as unmatched too.
LEMMA PacketKeepsResults ==
  ASSUME TypeOK, Results, ProcessPacket
  PROVE  Results'
<1>1. Head(inbox) \in Datagrams
  BY PacketTypes
<1>2. CASE RecordReply(Head(inbox))
  BY <1>1, <1>2, ReplyKeepsResults
<1>3. CASE ~ RecordReply(Head(inbox))
  <2>1. UNCHANGED foundVars
    BY <1>3 DEF ProcessPacket, PassOver, CountShort, CountForeign, CountDuplicate, Unchanged
  <2>2. \E both \in {0, 1}, short \in {0, 1} :
          /\ echo_replies' = echo_replies + both
          /\ unmatched_replies' = unmatched_replies + both + short
    BY <1>3 DEF ProcessPacket, PassOver, CountShort, CountForeign, CountDuplicate,
       NextDatagram, TypeOK, StatTypes
  <2>3. UniqueHosts'
    BY <2>1 DEF Results, foundVars, UniqueHosts
  <2>4. Len(scan_results) \in Nat /\ scan_results' = scan_results
    BY <2>1, LenProperties DEF foundVars, TypeOK, FoundTypes
  <2>5. ReplyAccounting'
    BY <2>2, <2>4 DEF Results, ReplyAccounting, TypeOK, StatTypes
  <2> QED BY <2>3, <2>5 DEF Results
<1> QED BY <1>2, <1>3

\* Only a datagram processed, and a new run, touch the results and their counters.
LEMMA ResultsStep ==
  ASSUME TypeOK, Results, [Next]_vars
  PROVE  Results'
<1>1. CASE ProcessPacket
  BY <1>1, PacketKeepsResults
<1>2. CASE Rerun
  BY <1>2 DEF Rerun, Results, UniqueHosts, ReplyAccounting
<1>3. CASE UNCHANGED <<foundVars, echo_replies, unmatched_replies>>
  BY <1>3 DEF foundVars, Results, UniqueHosts, ReplyAccounting
<1> QED
  BY <1>1, <1>2, <1>3
  DEF Next, ScannerStep, vars, scannerVars, statVars, StartIteration, SkipHost, EnqueueProbe,
      PopulateDone, FlushSend, FlushThrottled, FlushRefused, GiveUpBatch, FlushDone,
      WritableEvent, WritableOtherEvent, WritableTimeout, ReceiveReady, ReceiveTimeout,
      Drain, DrainFails, Take, ProcessDone, Reap, Network, Tick,
      SetBack, ClockMoves, Stopped

\* TypeOK makes Results inductive.
LEMMA ResultsInvariant == Spec => []Results
<1>1. Init => Results
  BY DEF Init, Results, UniqueHosts, ReplyAccounting
<1>2. TypeOK /\ Results /\ [Next]_vars => Results'
  BY ResultsStep
<1> QED BY <1>1, <1>2, TypeCorrect, PTL DEF Spec

\* No late, duplicated or reordered reply lists a host twice.
THEOREM ListedOnce == Spec => []UniqueHosts
BY ResultsInvariant, PTL DEF Results

\* The reply counters of the summary bracket the number of hosts listed.
THEOREM RepliesAccountedFor == Spec => []ReplyAccounting
BY ResultsInvariant, PTL DEF Results

-----------------------------------------------------------------------------
(* The send batch                                                          *)

\* Steps that free slots or age their probes, and send nothing.
LEMMA FreeingKeepsBatch ==
  ASSUME TypeOK, SentOrBatched,
         probed' = probed, batch' = batch,
         \A s \in Slots : probe_table'[s].active =>
           probe_table[s].active /\ probe_table'[s].dest = probe_table[s].dest
  PROVE  SentOrBatched'
BY DEF SentOrBatched, ActiveSlots

\* No step leaves an active probe behind that was neither sent nor is still to send.
LEMMA BatchStep ==
  ASSUME TypeOK, SentOrBatched, [Next]_vars
  PROVE  SentOrBatched'
<1>1. CASE EnqueueProbe
  <2>1. PICK slot \in Slots :
          /\ probe_table' = [probe_table EXCEPT ![slot] =
                               [active |-> TRUE, dest |-> next_host_idx, age |-> 0]]
          /\ batch' = Append(batch, slot)
    BY <1>1 DEF EnqueueProbe
  <2>2. Range(batch') = Range(batch) \cup {slot}
    <3>1. batch \in Seq(Slots) BY DEF TypeOK, BatchTypes
    <3>2. Len(batch) \in Nat /\ DOMAIN batch = 1 .. Len(batch)
          /\ DOMAIN batch' = 1 .. Len(batch) + 1
          /\ batch'[Len(batch) + 1] = slot
          /\ \A i \in 1 .. Len(batch) : batch'[i] = batch[i]
      BY <2>1, <3>1, AppendProperties, LenProperties
    <3> QED BY <3>2 DEF Range
  <2>3. \A s \in Slots : s # slot => probe_table'[s] = probe_table[s]
    BY <2>1 DEF TypeOK, SweepTypes
  <2> QED BY <1>1, <2>2, <2>3 DEF EnqueueProbe, histVars, SentOrBatched, ActiveSlots
<1>2. CASE FlushSend
  <2>1. Range(batch) \subseteq {Head(batch)} \cup Range(Tail(batch))
    <3>1. batch \in Seq(Slots) /\ batch # <<>> BY <1>2 DEF FlushSend, TypeOK, BatchTypes
    <3>2. Len(batch) \in Nat /\ DOMAIN batch = 1 .. Len(batch) /\ Head(batch) = batch[1]
          /\ Tail(batch) \in Seq(Slots) /\ Len(Tail(batch)) = Len(batch) - 1
          /\ \A i \in 1 .. Len(Tail(batch)) : Tail(batch)[i] = batch[i + 1]
      BY <3>1, HeadTailProperties, LenProperties
    <3>3. DOMAIN Tail(batch) = 1 .. Len(batch) - 1
      BY <3>2, LenProperties
    <3>4. SUFFICES ASSUME NEW i \in 1 .. Len(batch), i # 1
                   PROVE  batch[i] \in Range(Tail(batch))
      BY <3>2 DEF Range
    <3>5. i - 1 \in 1 .. Len(Tail(batch)) /\ Tail(batch)[i - 1] = batch[i]
      BY <3>2, <3>4
    <3> QED BY <3>2, <3>3, <3>5 DEF Range
  <2>2. probe_table' = probe_table /\ batch' = Tail(batch)
        /\ probed' = probed \cup {probe_table[Head(batch)].dest}
    BY <1>2 DEF FlushSend, sweepVars, Target
  <2> QED BY <2>1, <2>2 DEF SentOrBatched, ActiveSlots
<1>3. CASE FlushRefused \/ WritableTimeout
  <2>1. GiveUpBatch /\ probed' = probed
    BY <1>3 DEF FlushRefused, WritableTimeout, GiveUpBatch, histVars
  <2>2. \A s \in Slots : probe_table'[s] = IF s \in Range(batch) \cap ActiveSlots
                                           THEN FreeProbe ELSE probe_table[s]
    BY <2>1 DEF GiveUpBatch, ReleaseSlots, Unsent
  <2> QED BY <2>1, <2>2 DEF SentOrBatched, ActiveSlots, FreeProbe
<1>4. CASE Reap
  <2>1. probed' = probed /\ batch' = batch BY <1>4 DEF Reap, histVars
  <2>2. \A s \in Slots : probe_table'[s] = FreeProbe \/ probe_table'[s] = probe_table[s]
    BY <1>4 DEF Reap, ReleaseSlots
  <2> QED BY <2>1, <2>2, FreeingKeepsBatch DEF FreeProbe
<1>5. CASE ProcessPacket
  <2>1. probed' = probed /\ batch' = batch
    BY <1>5 DEF ProcessPacket, PassOver, CountShort, CountForeign, CountDuplicate,
       RecordReply, NextDatagram, histVars
  <2>2. \A s \in Slots : probe_table'[s] = FreeProbe \/ probe_table'[s] = probe_table[s]
    BY <1>5 DEF ProcessPacket, PassOver, CountShort, CountForeign, CountDuplicate,
       RecordReply, Unchanged
  <2> QED BY <2>1, <2>2, FreeingKeepsBatch DEF FreeProbe
<1>6. CASE Tick \/ SetBack
  <2>0. PICK d \in Int : ClockMoves(d)
    BY <1>6, ClockSteps
  <2>1. probed' = probed /\ batch' = batch BY <2>0 DEF ClockMoves, histVars
  <2>2. \A s \in Slots : /\ probe_table'[s].active = probe_table[s].active
                         /\ probe_table'[s].dest = probe_table[s].dest
    BY <2>0 DEF ClockMoves, TypeOK, SweepTypes
  <2> QED BY <2>1, <2>2, FreeingKeepsBatch
<1>7. CASE Rerun
  BY <1>7 DEF Rerun, SentOrBatched, ActiveSlots, FreeProbe
<1>8. CASE UNCHANGED <<probe_table, batch, probed>>
  BY <1>8 DEF SentOrBatched, ActiveSlots
<1> QED
  BY <1>1, <1>2, <1>3, <1>4, <1>5, <1>6, <1>7, <1>8
  DEF Next, ScannerStep, vars, scannerVars, sweepVars, histVars, StartIteration, SkipHost,
      PopulateDone, FlushThrottled, FlushDone, WritableEvent, WritableOtherEvent,
      ReceiveReady, ReceiveTimeout, Drain, DrainFails, Take, ProcessDone, Network, Stopped

\* No probe is ever waited for that was not sent: a batch given up takes back every
\* probe whose request the kernel did not take.
THEOREM ProbesSent == Spec => []SentOrBatched
<1>1. Init => SentOrBatched
  BY DEF Init, SentOrBatched, ActiveSlots, FreeProbe
<1>2. TypeOK /\ SentOrBatched /\ [Next]_vars => SentOrBatched'
  BY BatchStep
<1> QED BY <1>1, <1>2, TypeCorrect, PTL DEF Spec

-----------------------------------------------------------------------------
(* The overflow count of the summary                                       *)

\* No datagram of a queue carries a drop count the kernel has not reached.
DropsReached(q, drops) == \A i \in DOMAIN q : q[i].drops <= drops

\* OverflowsAreReal speaks of the maximum read so far; the counts still to be read are
\* in the receive buffer and in the batch being processed.
DropsInv ==
  /\ OverflowsAreReal
  /\ DropsReached(rxq, rxdrops)
  /\ DropsReached(inbox, rxdrops)

\* The count of the kernel only grows.
LEMMA DropsGrow ==
  ASSUME NEW q \in Seq(Datagrams), NEW m \in Nat, NEW n \in Nat, m <= n,
         DropsReached(q, m)
  PROVE  DropsReached(q, n)
<1>1. \A i \in DOMAIN q : q[i] \in Datagrams
  BY ElementOfSeq, LenProperties
<1> QED BY <1>1 DEF DropsReached, Datagrams

\* A clock that moves leaves the drop counts as they are.
LEMMA AgedKeepsDrops ==
  ASSUME NEW q \in Seq(Datagrams), NEW d \in Int, NEW n \in Nat, DropsReached(q, n)
  PROVE  DropsReached(Aged(q, d), n)
<1>1. \A i \in DOMAIN q : q[i] \in Datagrams
  BY ElementOfSeq, LenProperties
<1>2. DOMAIN Aged(q, d) = DOMAIN q /\ \A i \in DOMAIN q : Aged(q, d)[i].drops = q[i].drops
  BY <1>1 DEF Aged, Datagrams
<1> QED BY <1>2 DEF DropsReached

\* recvmmsg hands on what was in the buffer.
LEMMA TakeKeepsDrops ==
  ASSUME TypeOK, DropsInv, NEW k \in 0 .. Len(rxq), NEW error, Take(k, error)
  PROVE  DropsInv'
<1>1. rxq \in Seq(Datagrams) /\ Len(rxq) \in Nat /\ DOMAIN rxq = 1 .. Len(rxq)
  BY LenProperties DEF TypeOK, SocketTypes
<1>2. inbox' = SubSeq(rxq, 1, k) /\ rxq' = SubSeq(rxq, k + 1, Len(rxq))
      /\ rxdrops' = rxdrops /\ rx_queue_overflows' = rx_queue_overflows
  BY DEF Take, statVars
<1>3. DOMAIN inbox' = 1 .. k /\ \A i \in 1 .. k : inbox'[i] = rxq[i] /\ i \in DOMAIN rxq
  BY <1>1, <1>2, SubSeqProperties
<1>4. /\ DOMAIN rxq' = 1 .. Len(rxq) - k
      /\ \A i \in 1 .. Len(rxq) - k : rxq'[i] = rxq[k + i] /\ k + i \in DOMAIN rxq
  BY <1>1, <1>2, SubSeqProperties
<1>5. DropsReached(inbox, rxdrops)'
  BY <1>2, <1>3 DEF DropsReached, DropsInv
<1>6. DropsReached(rxq, rxdrops)'
  BY <1>2, <1>4 DEF DropsReached, DropsInv
<1> QED BY <1>2, <1>5, <1>6 DEF DropsInv, OverflowsAreReal

\* A datagram processed raises the count to its own, if that is higher.
LEMMA PacketKeepsDrops ==
  ASSUME TypeOK, DropsInv, ProcessPacket
  PROVE  DropsInv'
<1>1. inbox \in Seq(Datagrams) /\ inbox # <<>>
  BY DEF ProcessPacket, TypeOK, SocketTypes
<1>2. /\ inbox' = Tail(inbox)
      /\ rx_queue_overflows' = Overflows(Head(inbox))
      /\ UNCHANGED socketVars
  BY DEF ProcessPacket, PassOver, CountShort, CountForeign, CountDuplicate, RecordReply,
     NextDatagram
<1>3. Head(inbox).drops <= rxdrops
  <2>1. 1 \in DOMAIN inbox /\ Head(inbox) = inbox[1]
    BY <1>1, LenProperties, HeadTailProperties, EmptySeq
  <2> QED BY <2>1 DEF DropsInv, DropsReached
<1>4. rx_queue_overflows' <= rxdrops
  BY <1>2, <1>3 DEF Overflows, Larger, DropsInv, OverflowsAreReal
<1>5. DropsReached(inbox, rxdrops)'
  <2>1. SUFFICES ASSUME NEW i \in DOMAIN Tail(inbox)
                 PROVE  Tail(inbox)[i].drops <= rxdrops
    BY <1>2 DEF DropsReached, socketVars
  <2>2. Tail(inbox)[i] = inbox[i + 1] /\ i + 1 \in DOMAIN inbox
    BY <1>1, HeadTailProperties, LenProperties
  <2> QED BY <2>2 DEF DropsInv, DropsReached
<1> QED BY <1>2, <1>4, <1>5 DEF DropsInv, OverflowsAreReal, socketVars

\* A datagram is queued with the drop count of that moment; one that is dropped
\* raises it.
LEMMA NetworkKeepsDrops ==
  ASSUME TypeOK, DropsInv, Network
  PROVE  DropsInv'
<1> USE DEF TypeOK, SocketTypes, StatTypes
<1>1. UNCHANGED <<inbox, rx_queue_overflows>>
  BY DEF Network, scannerVars, inVars, statVars
<1>2. CASE \E request \in txq : Transmit(request)
  BY <1>1, <1>2 DEF Transmit, DropsInv, OverflowsAreReal
<1>3. ASSUME NEW reply \in net, Deliver(reply) PROVE DropsInv'
  <2> DEFINE datagram == [target |-> reply.target, kind |-> reply.kind, age |-> reply.age,
                          drops |-> rxdrops]
  <2>1. rxq' = Append(rxq, datagram) /\ rxdrops' = rxdrops /\ datagram.drops = rxdrops
    BY <1>3 DEF Deliver
  <2>2. datagram \in Datagrams BY DEF Replies, Datagrams
  <2>3. \A i \in DOMAIN rxq' : (i \in DOMAIN rxq /\ rxq'[i] = rxq[i]) \/ rxq'[i] = datagram
    BY <2>1, <2>2, AppendProperties, LenProperties
  <2>4. DropsReached(rxq, rxdrops)'
    BY <2>1, <2>3 DEF DropsReached, DropsInv
  <2> QED BY <1>1, <2>1, <2>4 DEF DropsInv, OverflowsAreReal
<1>4. ASSUME NEW reply \in net, Overflow(reply) PROVE DropsInv'
  <2>1. rxq' = rxq /\ rxdrops' = rxdrops + 1
    BY <1>4 DEF Overflow
  <2>2. DropsReached(rxq, rxdrops + 1) /\ DropsReached(inbox, rxdrops + 1)
    BY DropsGrow DEF DropsInv
  <2>3. rx_queue_overflows <= rxdrops + 1
    BY DEF DropsInv, OverflowsAreReal
  <2> QED BY <1>1, <2>1, <2>2, <2>3 DEF DropsInv, OverflowsAreReal
<1> QED BY <1>2, <1>3, <1>4 DEF Network

\* The other steps leave the queues alone, or age them.
LEMMA DropsStep ==
  ASSUME TypeOK, DropsInv, [Next]_vars
  PROVE  DropsInv'
<1>1. CASE Drain
  BY <1>1, TakeKeepsDrops, ReceivedBound DEF Drain
<1>2. CASE DrainFails
  <2>1. PICK k \in 0 .. Received(RecvBatchSize) - 1 : Take(k, TRUE)
    BY <1>2 DEF DrainFails
  <2>2. k \in 0 .. Len(rxq)
    BY <2>1, ReceivedBound, LenProperties
  <2> QED BY <2>1, <2>2, TakeKeepsDrops
<1>3. CASE ProcessPacket
  BY <1>3, PacketKeepsDrops
<1>4. CASE Network
  BY <1>4, NetworkKeepsDrops
<1>5. CASE Tick \/ SetBack
  <2>1. PICK d \in Int : ClockMoves(d)
    BY <1>5, ClockSteps
  <2>2. rxq' = Aged(rxq, d) /\ inbox' = Aged(inbox, d)
        /\ UNCHANGED <<rxdrops, rx_queue_overflows>>
    BY <2>1 DEF ClockMoves, SocketClock, statVars
  <2> QED BY <2>2, AgedKeepsDrops DEF DropsInv, OverflowsAreReal, TypeOK, SocketTypes
<1>6. CASE Rerun
  <2>1. UNCHANGED <<rxq, rxdrops>> /\ inbox' = <<>> /\ rx_queue_overflows' = 0
    BY <1>6 DEF Rerun, socketVars
  <2> QED BY <2>1 DEF DropsInv, OverflowsAreReal, DropsReached, TypeOK, SocketTypes
<1>7. CASE UNCHANGED <<rxq, inbox, rxdrops, rx_queue_overflows>>
  BY <1>7 DEF DropsInv, OverflowsAreReal
<1>8. CASE StartIteration \/ SkipHost \/ EnqueueProbe \/ PopulateDone \/ FlushSend
           \/ FlushThrottled \/ FlushRefused \/ FlushDone
  BY <1>7, <1>8 DEF StartIteration, SkipHost, EnqueueProbe, PopulateDone, FlushSend,
     FlushThrottled, FlushRefused, GiveUpBatch, FlushDone, statVars, inVars, socketVars
<1>9. CASE WritableEvent \/ WritableOtherEvent \/ WritableTimeout \/ ReceiveReady
           \/ ReceiveTimeout \/ ProcessDone \/ Reap
  BY <1>7, <1>9 DEF WritableEvent, WritableOtherEvent, WritableTimeout, GiveUpBatch,
     ReceiveReady, ReceiveTimeout, ProcessDone, Reap, scannerVars, statVars, inVars,
     socketVars
<1>10. CASE UNCHANGED vars
  BY <1>7, <1>10 DEF vars, scannerVars, statVars, inVars, socketVars
<1> QED
  BY <1>1, <1>2, <1>3, <1>4, <1>5, <1>6, <1>8, <1>9, <1>10 DEF Next, ScannerStep, Stopped

\* "RX Queue Overflows": in whatever order the cumulative drop counts are read, in
\* this run of run() or a later one, the count reported is never more than the
\* datagrams the kernel dropped.
THEOREM OverflowsReported == Spec => []OverflowsAreReal
<1>1. Init => DropsInv
  BY DEF Init, SocketInit, DropsInv, OverflowsAreReal, DropsReached
<1>2. TypeOK /\ DropsInv /\ [Next]_vars => DropsInv'
  BY DropsStep
<1>3. DropsInv => OverflowsAreReal
  BY DEF DropsInv
<1> QED BY <1>1, <1>2, <1>3, TypeCorrect, PTL DEF Spec
=============================================================================
