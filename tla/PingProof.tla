------------------------------ MODULE PingProof ------------------------------
(* Type correctness of PingScanner, for every value of its constants: the  *)
(* first part of the inductive invariant that PingSafety builds on.        *)
EXTENDS PingProperties, FiniteSetTheorems, SequenceTheorems, TLAPS

-----------------------------------------------------------------------------
(* The constants the constructor computes.                                 *)

\* The limits the constructor clamps with safe_batch_size are natural numbers, no more
\* than there are hosts, and ages stay ages.
LEMMA Sizes ==
  /\ MaxProbes \in Nat /\ MaxProbes <= TotalHosts
  /\ SendBatchSize \in Nat /\ RecvBatchSize \in Nat
  /\ NoSlot \notin Slots
  /\ IsFiniteSet(Slots)
  /\ MaxAge \in Nat /\ 0 \in Ages
  /\ \A age \in Ages, d \in Int : Moved(age, d) \in Ages
<1>1. MaxProbes \in Nat /\ MaxProbes <= TotalHosts
  BY ScannerAssumption DEF MaxProbes, Smaller
<1>2. SendBatchSize \in Nat /\ RecvBatchSize \in Nat
  BY ScannerAssumption DEF SendBatchSize, RecvBatchSize, safe_batch_size, Smaller
<1>3. NoSlot \notin Slots
  BY <1>1 DEF Slots, NoSlot
<1>4. IsFiniteSet(Slots)
  BY <1>1, FS_Interval DEF Slots
<1>5. MaxAge \in Nat /\ 0 \in Ages /\ \A age \in Ages, d \in Int : Moved(age, d) \in Ages
  BY SocketAssumption DEF Ages, Moved
<1> QED BY <1>1, <1>2, <1>3, <1>4, <1>5

\* Whichever way the clock goes, everything that has an age moves along.
LEMMA ClockSteps ==
  ASSUME Tick \/ SetBack
  PROVE  \E d \in Int : ClockMoves(d) /\ setbacks' \in {setbacks, setbacks + 1}
<1>1. CASE Tick
  BY <1>1 DEF Tick
<1>2. CASE SetBack
  <2>1. PICK d \in 1 .. MaxAge : ClockMoves(-d)
    BY <1>2 DEF SetBack
  <2>2. -d \in Int /\ setbacks' = setbacks + 1
    BY <1>2, Sizes DEF SetBack
  <2> QED BY <2>1, <2>2
<1> QED BY <1>1, <1>2

\* A free slot is a well-formed probe, wherever there is a slot at all.
LEMMA FreeProbeType ==
  ASSUME NEW s \in Slots
  PROVE  FreeProbe \in [active : BOOLEAN, dest : Hosts, age : Ages]
BY Sizes, ScannerAssumption DEF FreeProbe, Slots, Hosts

-----------------------------------------------------------------------------
(* Types                                                                   *)

\* What ReleaseSlots leaves is well-formed.
LEMMA ReleaseTypes ==
  ASSUME NEW S, SweepTypes, ReleaseSlots(S)
  PROVE  /\ probe_table' \in [Slots -> [active : BOOLEAN, dest : Hosts, age : Ages]]
         /\ host_to_probe' \in [Hosts -> Slots \cup {NoSlot}]
         /\ active_probes' \in 0 .. MaxProbes
<1> DEFINE held == S \cap ActiveSlots
<1>1. Cardinality(held) \in Nat
  <2>1. held \subseteq Slots BY DEF ActiveSlots
  <2> QED BY <2>1, Sizes, FS_Subset, FS_CardinalityType
<1>2. active_probes' \in 0 .. MaxProbes
  BY <1>1, Sizes DEF ReleaseSlots, Minus, SweepTypes
<1>3. probe_table' \in [Slots -> [active : BOOLEAN, dest : Hosts, age : Ages]]
  BY FreeProbeType DEF ReleaseSlots, SweepTypes
<1>4. host_to_probe' \in [Hosts -> Slots \cup {NoSlot}]
  BY DEF ReleaseSlots, SweepTypes
<1> QED BY <1>2, <1>3, <1>4

\* The tables and the cursor: only eight actions write them.
LEMMA SweepTypesStep ==
  ASSUME TypeOK, [Next]_vars
  PROVE  SweepTypes'
<1> USE Sizes, ScannerAssumption
<1>1. CASE SkipHost
  BY <1>1 DEF SkipHost, MayPopulate, TypeOK, SweepTypes, foundVars, histVars, Hosts
<1>2. CASE EnqueueProbe
  <2>1. PICK slot \in Slots :
          /\ probe_table' = [probe_table EXCEPT ![slot] =
                               [active |-> TRUE, dest |-> next_host_idx, age |-> 0]]
          /\ host_to_probe' = [host_to_probe EXCEPT ![next_host_idx] = slot]
    BY <1>2 DEF EnqueueProbe
  <2>2. next_host_idx \in Hosts /\ active_probes + 1 \in 0 .. MaxProbes
    BY <1>2 DEF EnqueueProbe, MayPopulate, TypeOK, SweepTypes, Hosts
  <2>3. next_host_idx' = next_host_idx + 1 /\ active_probes' = active_probes + 1
        /\ probed' = probed /\ runs' = runs
    BY <1>2 DEF EnqueueProbe, histVars
  <2> QED BY <2>1, <2>2, <2>3 DEF TypeOK, SweepTypes, Hosts
<1>3. ASSUME GiveUpBatch PROVE SweepTypes'
  <2>1. ReleaseSlots(Unsent) /\ probed' = probed /\ runs' = runs
    BY <1>3 DEF GiveUpBatch, histVars
  <2>2. next_host_idx' \in 0 .. TotalHosts
    <3>1. Len(batch) \in Nat BY DEF TypeOK, BatchTypes
    <3>2. next_host_idx' = next_host_idx - Len(batch) BY <1>3 DEF GiveUpBatch
    <3> QED BY <3>1, <3>2 DEF TypeOK, SweepTypes, BatchTypes
  <2> QED BY <2>1, <2>2, ReleaseTypes DEF TypeOK, SweepTypes
<1>4. CASE FlushSend
  <2>1. Head(batch) \in Slots
    BY <1>4, HeadTailProperties DEF FlushSend, TypeOK, BatchTypes
  <2>2. Target \in Hosts
    BY <2>1 DEF Target, TypeOK, SweepTypes
  <2> QED BY <1>4, <2>2 DEF FlushSend, TypeOK, SweepTypes, sweepVars
<1>5. ASSUME NEW reply \in Datagrams, RecordReply(reply) PROVE SweepTypes'
  <2>1. active_probes' \in 0 .. MaxProbes
    BY <1>5 DEF RecordReply, Minus, TypeOK, SweepTypes
  <2>2. probe_table' \in [Slots -> [active : BOOLEAN, dest : Hosts, age : Ages]]
    BY <1>5, FreeProbeType DEF RecordReply, TypeOK, SweepTypes
  <2>3. host_to_probe' \in [Hosts -> Slots \cup {NoSlot}]
    BY <1>5 DEF RecordReply, TypeOK, SweepTypes
  <2>4. next_host_idx' = next_host_idx /\ probed' = probed /\ runs' = runs
    BY <1>5 DEF RecordReply, NextDatagram, histVars
  <2> QED BY <2>1, <2>2, <2>3, <2>4 DEF TypeOK, SweepTypes
<1>6. CASE Reap
  BY <1>6, ReleaseTypes DEF Reap, TypeOK, SweepTypes, histVars
<1>7. CASE Rerun
  BY <1>7, FreeProbeType DEF Rerun, TypeOK, SweepTypes, Hosts
<1>8. CASE Tick \/ SetBack
  <2>1. PICK d \in Int : ClockMoves(d)
    BY <1>8, ClockSteps
  <2>2. probe_table' \in [Slots -> [active : BOOLEAN, dest : Hosts, age : Ages]]
    BY <2>1 DEF ClockMoves, TypeOK, SweepTypes
  <2> QED BY <2>1, <2>2 DEF ClockMoves, TypeOK, SweepTypes, histVars
<1>9. CASE ProcessPacket
  <2>1. Head(inbox) \in Datagrams
    BY <1>9, HeadTailProperties DEF ProcessPacket, TypeOK, SocketTypes
  <2>2. CASE RecordReply(Head(inbox))
    BY <1>5, <2>1, <2>2
  <2>3. CASE ~ RecordReply(Head(inbox))
    <3>1. Unchanged /\ next_host_idx' = next_host_idx /\ probed' = probed /\ runs' = runs
      BY <1>9, <2>3 DEF ProcessPacket, PassOver, CountShort, CountForeign, CountDuplicate,
                   NextDatagram, histVars
    <3> QED BY <3>1 DEF Unchanged, TypeOK, SweepTypes
  <2> QED BY <2>2, <2>3
<1>10. CASE UNCHANGED <<sweepVars, histVars>>
  BY <1>10 DEF sweepVars, histVars, TypeOK, SweepTypes
<1>11. CASE FlushRefused \/ WritableTimeout
  BY <1>3, <1>11 DEF FlushRefused, WritableTimeout
<1> QED
  BY <1>1, <1>2, <1>4, <1>6, <1>7, <1>8, <1>9, <1>10, <1>11
  DEF Next, ScannerStep, vars, scannerVars, StartIteration, PopulateDone, FlushThrottled,
      FlushDone, WritableEvent, WritableOtherEvent, ReceiveReady, ReceiveTimeout, Drain,
      DrainFails, Take, ProcessDone, Network, Stopped

\* The batch grows by a slot while populate runs, and shrinks from its head.
LEMMA BatchTypesStep ==
  ASSUME TypeOK, [Next]_vars
  PROVE  BatchTypes'
<1> USE Sizes
<1>1. CASE SkipHost
  <2>1. Len(batch) \in Nat BY DEF TypeOK, BatchTypes
  <2> QED BY <1>1, <2>1 DEF SkipHost, TypeOK, BatchTypes, SweepTypes
<1>2. CASE EnqueueProbe
  <2>1. PICK slot \in Slots : batch' = Append(batch, slot)
    BY <1>2 DEF EnqueueProbe
  <2>2. batch' \in Seq(Slots) /\ Len(batch') = Len(batch) + 1 /\ Len(batch) \in Nat
    BY <2>1 DEF TypeOK, BatchTypes
  <2>3. next_host_idx' = next_host_idx + 1 /\ Len(batch) < SendBatchSize
    BY <1>2 DEF EnqueueProbe, MayPopulate
  <2> QED BY <2>2, <2>3 DEF TypeOK, BatchTypes, SweepTypes
<1>3. CASE FlushSend
  <2>1. Tail(batch) \in Seq(Slots) /\ Len(Tail(batch)) = Len(batch) - 1 /\ Len(batch) \in Nat
    BY <1>3, HeadTailProperties DEF FlushSend, TypeOK, BatchTypes
  <2> QED BY <1>3, <2>1 DEF FlushSend, sweepVars, TypeOK, BatchTypes, SweepTypes
<1>4. CASE batch' = <<>>
  BY <1>4, SweepTypesStep DEF BatchTypes, SweepTypes
<1>5. CASE batch' = batch /\ next_host_idx' = next_host_idx
  BY <1>5 DEF TypeOK, BatchTypes
<1>6. CASE ProcessPacket
  BY <1>5, <1>6 DEF ProcessPacket, PassOver, CountShort, CountForeign, CountDuplicate,
     RecordReply, NextDatagram
<1> QED
  BY <1>1, <1>2, <1>3, <1>4, <1>5, <1>6
  DEF Next, ScannerStep, vars, scannerVars, sweepVars, StartIteration, PopulateDone,
      FlushThrottled, FlushRefused, GiveUpBatch, FlushDone, WritableEvent,
      WritableOtherEvent, WritableTimeout, ReceiveReady, ReceiveTimeout, Drain, DrainFails,
      Take, ProcessDone, Reap, Rerun, Network, Tick, SetBack,
      ClockMoves, Stopped

\* A datagram is taken from the head of the inbox and handled in one of five ways.
LEMMA PacketTypes ==
  ASSUME TypeOK, ProcessPacket
  PROVE  /\ Head(inbox) \in Datagrams
         /\ inbox' \in Seq(Datagrams)
         /\ FoundTypes'
         /\ StatTypes'
<1> DEFINE reply == Head(inbox)
<1>1. reply \in Datagrams /\ Tail(inbox) \in Seq(Datagrams)
  BY HeadTailProperties DEF ProcessPacket, TypeOK, SocketTypes
<1>2. \E echo, unmatched \in {0, 1} : NextDatagram(reply, echo, unmatched)
  BY DEF ProcessPacket, PassOver, CountShort, CountForeign, CountDuplicate, RecordReply
<1>3. inbox' \in Seq(Datagrams)
  BY <1>1, <1>2 DEF NextDatagram
<1>4. Overflows(reply) \in Nat
  BY <1>1 DEF Overflows, Larger, Datagrams, TypeOK, StatTypes
<1>5. StatTypes'
  BY <1>2, <1>4 DEF NextDatagram, TypeOK, StatTypes
<1>6. FoundTypes'
  <2>1. CASE RecordReply(reply)
    <3>1. reply.target \in Hosts /\ reply.age \in Ages BY <1>1 DEF Datagrams
    <3>2. [host |-> reply.target, rtt |-> reply.age] \in [host : Hosts, rtt : Ages]
      BY <3>1
    <3>3. scan_results' \in Seq([host : Hosts, rtt : Ages])
      BY <2>1, <3>2 DEF RecordReply, TypeOK, FoundTypes
    <3> QED BY <2>1, <3>1, <3>3 DEF RecordReply, TypeOK, FoundTypes
  <2>2. CASE ~ RecordReply(reply)
    <3>1. Unchanged
      BY <2>2 DEF ProcessPacket, PassOver, CountShort, CountForeign, CountDuplicate
    <3> QED BY <3>1 DEF Unchanged, foundVars, TypeOK, FoundTypes
  <2> QED BY <2>1, <2>2
<1> QED BY <1>1, <1>3, <1>5, <1>6

\* What was found: a datagram processed or a new run writes it.
LEMMA FoundTypesStep ==
  ASSUME TypeOK, [Next]_vars
  PROVE  FoundTypes'
<1>1. CASE ProcessPacket
  BY <1>1, PacketTypes
<1>2. CASE Rerun
  BY <1>2, EmptySeq DEF Rerun, FoundTypes
<1>3. CASE UNCHANGED foundVars
  BY <1>3 DEF foundVars, TypeOK, FoundTypes
<1> QED
  BY <1>1, <1>2, <1>3
  DEF Next, ScannerStep, vars, scannerVars, StartIteration, SkipHost, EnqueueProbe,
      PopulateDone, FlushSend, FlushThrottled, FlushRefused, GiveUpBatch, FlushDone,
      WritableEvent, WritableOtherEvent, WritableTimeout, ReceiveReady, ReceiveTimeout,
      Drain, DrainFails, Take, ProcessDone, Reap, Network, Tick, SetBack,
      ClockMoves, Stopped

\* The counters of ScanStats stay natural numbers.
LEMMA StatTypesStep ==
  ASSUME TypeOK, [Next]_vars
  PROVE  StatTypes'
<1>1. CASE ProcessPacket
  BY <1>1, PacketTypes
<1>2. CASE Reap
  <2>1. Cardinality(TimedOut) \in Nat
    <3>1. TimedOut \subseteq Slots BY DEF TimedOut, ActiveSlots
    <3> QED BY <3>1, Sizes, FS_Subset, FS_CardinalityType
  <2> QED BY <1>2, <2>1 DEF Reap, TypeOK, StatTypes
<1>3. CASE Rerun
  BY <1>3 DEF Rerun, StatTypes
<1>4. CASE FlushThrottled
  BY <1>4 DEF FlushThrottled, TypeOK, StatTypes
<1>5. CASE UNCHANGED statVars
  BY <1>5 DEF statVars, TypeOK, StatTypes
<1> QED
  BY <1>1, <1>2, <1>3, <1>4, <1>5
  DEF Next, ScannerStep, vars, scannerVars, StartIteration, SkipHost, EnqueueProbe,
      PopulateDone, FlushSend, FlushRefused, GiveUpBatch, FlushDone,
      WritableEvent, WritableOtherEvent, WritableTimeout, ReceiveReady, ReceiveTimeout,
      Drain, DrainFails, Take, ProcessDone, Network, Tick, SetBack,
      ClockMoves, Stopped

\* Datagrams stay datagrams under a clock that moves.
LEMMA AgedTypes ==
  ASSUME NEW q \in Seq(Datagrams), NEW by \in Int
  PROVE  Aged(q, by) \in Seq(Datagrams) /\ (Aged(q, by) = <<>> <=> q = <<>>)
<1>1. CASE KernelStamps
  BY <1>1 DEF Aged
<1>2. CASE ~ KernelStamps
  <2>1. Len(q) \in Nat /\ q \in [1 .. Len(q) -> Datagrams] /\ DOMAIN q = 1 .. Len(q)
    BY LenProperties
  <2>2. \A i \in 1 .. Len(q) : [q[i] EXCEPT !.age = Moved(q[i].age, by)] \in Datagrams
    <3>1. SUFFICES ASSUME NEW d \in Datagrams
                   PROVE [d EXCEPT !.age = Moved(d.age, by)] \in Datagrams
      BY <2>1
    <3>2. Moved(d.age, by) \in Ages BY Sizes DEF Datagrams
    <3> QED BY <3>2 DEF Datagrams
  <2>3. Aged(q, by) = [i \in 1 .. Len(q) |-> [q[i] EXCEPT !.age = Moved(q[i].age, by)]]
    BY <1>2, <2>1 DEF Aged
  <2>4. Aged(q, by) \in [1 .. Len(q) -> Datagrams]
    BY <2>2, <2>3
  <2>5. Aged(q, by) \in Seq(Datagrams)
    BY <2>1, <2>4, SeqDef
  <2>6. DOMAIN Aged(q, by) = 1 .. Len(Aged(q, by)) /\ DOMAIN Aged(q, by) = 1 .. Len(q)
        /\ Len(Aged(q, by)) \in Nat
    BY <2>4, <2>5, LenProperties
  <2>7. Len(Aged(q, by)) = Len(q)
    <3>1. \A m, n \in Nat : 1 .. m = 1 .. n => m = n
      <4> SUFFICES ASSUME NEW m \in Nat, NEW n \in Nat, m < n PROVE 1 .. m # 1 .. n
        OBVIOUS
      <4>1. n \in 1 .. n /\ n \notin 1 .. m OBVIOUS
      <4> QED BY <4>1
    <3> QED BY <2>1, <2>6, <3>1
  <2> QED BY <2>1, <2>5, <2>7, EmptySeq
<1> QED BY <1>1, <1>2

\* recvmmsg splits the receive buffer.
LEMMA TakeTypes ==
  ASSUME NEW k \in 0 .. Len(rxq), NEW error \in BOOLEAN, TypeOK, Take(k, error)
  PROVE  /\ inbox' \in Seq(Datagrams) /\ rxq' \in Seq(Datagrams)
         /\ more' \in BOOLEAN /\ recv_failed' \in BOOLEAN
         /\ Len(rxq') = Len(rxq) - k
<1>1. rxq \in Seq(Datagrams) /\ Len(rxq) \in Nat
  BY LenProperties DEF TypeOK, SocketTypes
<1>2. \A i \in 1 .. Len(rxq) : rxq[i] \in Datagrams
  BY <1>1, ElementOfSeq
<1>3. SubSeq(rxq, 1, k) \in Seq(Datagrams)
  BY <1>1, <1>2, SubSeqProperties
<1>4. SubSeq(rxq, k + 1, Len(rxq)) \in Seq(Datagrams)
      /\ Len(SubSeq(rxq, k + 1, Len(rxq))) = Len(rxq) - k
  BY <1>1, <1>2, SubSeqProperties
<1> QED BY <1>3, <1>4 DEF Take, FullBatch

\* What recvmmsg may take is there.
LEMMA ReceivedBound ==
  ASSUME TypeOK
  PROVE  /\ Received(RecvBatchSize) \in 0 .. Len(rxq)
         /\ Received(RecvBatchSize) <= RecvBatchSize
         /\ Received(RecvBatchSize) < RecvBatchSize => Received(RecvBatchSize) = Len(rxq)
<1>1. Len(rxq) \in Nat
  BY LenProperties DEF TypeOK, SocketTypes
<1> QED BY <1>1, Sizes DEF Received

\* The network hands on what it was given.
LEMMA NetworkTypes ==
  ASSUME TypeOK, Network
  PROVE  SocketTypes'
<1> USE DEF TypeOK, SocketTypes
<1>0. UNCHANGED <<pc, inVars>>
  BY DEF Network, scannerVars
<1>1. ASSUME NEW request \in txq, Transmit(request) PROVE SocketTypes'
  <2>1. net' \subseteq Replies
    <3>1. CASE net' = net BY <3>1
    <3>2. ASSUME NEW kind \in ReplyKinds,
                 net' = net \cup {[target |-> request.target, kind |-> kind,
                                   age |-> request.age]}
          PROVE net' \subseteq Replies
      <4>1. request \in Requests /\ kind \in AllReplyKinds BY SocketAssumption
      <4> QED BY <3>2, <4>1 DEF Requests, Replies
    <3> QED BY <1>1, <3>1, <3>2 DEF Transmit
  <2>2. txq' \subseteq Requests /\ ready' \in BOOLEAN
    BY <1>1 DEF Transmit
  <2> QED BY <1>0, <1>1, <2>1, <2>2 DEF Transmit, inVars
<1>2. ASSUME NEW reply \in net, Deliver(reply) PROVE SocketTypes'
  <2>1. [target |-> reply.target, kind |-> reply.kind, age |-> reply.age,
         drops |-> rxdrops] \in Datagrams
    BY DEF Replies, Datagrams
  <2>2. rxq' \in Seq(Datagrams)
    BY <1>2, <2>1 DEF Deliver
  <2> QED BY <1>0, <1>2, <2>2 DEF Deliver, inVars
<1>3. ASSUME NEW reply \in net, Overflow(reply) PROVE SocketTypes'
  BY <1>0, <1>3 DEF Overflow, inVars
<1> QED BY <1>1, <1>2, <1>3 DEF Network

\* The socket's queues, and the interest that wait_for_socket_writable sets and resets
\* on every way out.
LEMMA SocketTypesStep ==
  ASSUME TypeOK, [Next]_vars
  PROVE  SocketTypes'
<1> USE DEF TypeOK, SocketTypes
<1>1. CASE ProcessPacket
  <2>1. UNCHANGED <<pc, more, recv_failed, socketVars>>
    BY <1>1 DEF ProcessPacket, PassOver, CountShort, CountForeign, CountDuplicate,
       RecordReply, NextDatagram
  <2> QED BY <1>1, <2>1, PacketTypes DEF socketVars
<1>2. CASE FlushSend
  <2>1. Head(batch) \in Slots
    BY <1>2, HeadTailProperties DEF FlushSend, BatchTypes
  <2>2. [target |-> Target, age |-> probe_table[Head(batch)].age] \in Requests
    BY <2>1 DEF Target, Requests, SweepTypes
  <2> QED BY <1>2, <2>2 DEF FlushSend, inVars
<1>3. CASE FlushThrottled
  BY <1>3 DEF FlushThrottled, EpollModify, inVars
<1>4. CASE WritableEvent \/ WritableOtherEvent \/ WritableTimeout
  BY <1>4 DEF WritableEvent, WritableOtherEvent, WritableTimeout, GiveUpBatch, EpollModify,
     inVars, scannerVars
<1>5. CASE ReceiveReady \/ ReceiveTimeout
  BY <1>5 DEF ReceiveReady, ReceiveTimeout, inVars
<1>6. CASE Drain \/ DrainFails
  <2>1. ASSUME NEW k \in 0 .. Len(rxq), NEW error \in BOOLEAN, Take(k, error),
               pc = "drain"
        PROVE SocketTypes'
    <3>1. pc' # "writable" /\ recv_failed' \in BOOLEAN BY <2>1 DEF Take
    <3> QED BY <2>1, <3>1, TakeTypes DEF Take
  <2>2. CASE Drain
    BY <2>1, <2>2, ReceivedBound DEF Drain
  <2>3. CASE DrainFails
    <3>1. PICK k \in 0 .. Received(RecvBatchSize) - 1 : Take(k, TRUE)
      BY <2>3 DEF DrainFails
    <3>2. k \in 0 .. Len(rxq)
      BY <3>1, ReceivedBound, LenProperties
    <3> QED BY <2>1, <2>3, <3>1, <3>2 DEF DrainFails
  <2> QED BY <1>6, <2>2, <2>3
<1>7. CASE Rerun
  BY <1>7, EmptySeq DEF Rerun, Over, socketVars
<1>8. CASE Tick \/ SetBack
  <2>1. PICK d \in Int : ClockMoves(d) /\ setbacks' \in {setbacks, setbacks + 1}
    BY <1>8, ClockSteps
  <2>2. txq' \subseteq Requests
    <3>1. txq' = {[request EXCEPT !.age = Moved(@, d)] : request \in txq}
      BY <2>1 DEF ClockMoves, SocketClock
    <3>2. ASSUME NEW request \in txq
          PROVE [request EXCEPT !.age = Moved(@, d)] \in Requests
      <4>1. request \in Requests OBVIOUS
      <4>2. Moved(request.age, d) \in Ages BY <4>1, Sizes DEF Requests
      <4> QED BY <4>1, <4>2 DEF Requests
    <3> QED BY <3>1, <3>2
  <2>3. net' \subseteq Replies
    <3>1. net' = {[reply EXCEPT !.age = Moved(@, d)] : reply \in net}
      BY <2>1 DEF ClockMoves, SocketClock
    <3>2. ASSUME NEW reply \in net
          PROVE [reply EXCEPT !.age = Moved(@, d)] \in Replies
      <4>1. reply \in Replies OBVIOUS
      <4>2. Moved(reply.age, d) \in Ages BY <4>1, Sizes DEF Replies
      <4> QED BY <4>1, <4>2 DEF Replies
    <3> QED BY <3>1, <3>2
  <2>4. rxq' \in Seq(Datagrams) /\ inbox' \in Seq(Datagrams)
    BY <2>1, AgedTypes DEF ClockMoves, SocketClock
  <2> QED BY <2>1, <2>2, <2>3, <2>4 DEF ClockMoves, SocketClock
<1>9. CASE Network
  BY <1>9, NetworkTypes
<1>10. CASE UNCHANGED <<socketVars, inVars>> /\ pc # "writable" /\ pc' # "writable"
  BY <1>10 DEF socketVars, inVars
<1>11. CASE UNCHANGED vars
  BY <1>11 DEF vars, scannerVars, socketVars, inVars
<1>12. CASE StartIteration \/ SkipHost \/ EnqueueProbe \/ PopulateDone \/ FlushRefused
            \/ FlushDone \/ ProcessDone \/ Reap
  BY <1>10, <1>12 DEF StartIteration, SkipHost, EnqueueProbe, PopulateDone, FlushRefused,
     GiveUpBatch, FlushDone, ProcessDone, Reap
<1> QED
  BY <1>1, <1>2, <1>3, <1>4, <1>5, <1>6, <1>7, <1>8, <1>9, <1>11, <1>12
  DEF Next, ScannerStep, Stopped

\* Every state the program reaches is well-formed: indices stay in their tables, the
\* batch and the probes within their limits, and the cursor within the range.
THEOREM TypeCorrect == Spec => []TypeOK
<1>1. Init => TypeOK
  <2> SUFFICES ASSUME Init PROVE TypeOK
    OBVIOUS
  <2>1. SweepTypes
    BY FreeProbeType, Sizes, ScannerAssumption DEF Init, SweepTypes
  <2>2. BatchTypes
    BY EmptySeq, Sizes DEF Init, BatchTypes
  <2>3. FoundTypes /\ StatTypes
    BY EmptySeq DEF Init, FoundTypes, StatTypes
  <2>4. SocketTypes
    BY EmptySeq DEF Init, SocketInit, SocketTypes
  <2> QED BY <2>1, <2>2, <2>3, <2>4 DEF Init, TypeOK
<1>2. TypeOK /\ [Next]_vars => TypeOK'
  <2> SUFFICES ASSUME TypeOK, [Next]_vars PROVE TypeOK'
    OBVIOUS
  <2>1. pc' \in {"send_batch", "populate", "flush", "writable", "receive", "drain",
                 "process", "reap", "returned", "aborted"}
    BY DEF TypeOK, Next, ScannerStep, vars, scannerVars, StartIteration, SkipHost,
       EnqueueProbe, PopulateDone, FlushSend, FlushThrottled, FlushRefused, GiveUpBatch,
       FlushDone, WritableEvent, WritableOtherEvent, WritableTimeout, ReceiveReady,
       ReceiveTimeout, Drain, DrainFails, Take, ProcessDone, ProcessPacket, PassOver,
       CountShort, CountForeign, CountDuplicate, RecordReply, NextDatagram, Reap, Rerun,
       Network, Tick, SetBack,
      ClockMoves, Stopped
  <2> QED
    BY <2>1, SweepTypesStep, BatchTypesStep, FoundTypesStep, StatTypesStep, SocketTypesStep
    DEF TypeOK
<1> QED BY <1>1, <1>2, PTL DEF Spec
=============================================================================
