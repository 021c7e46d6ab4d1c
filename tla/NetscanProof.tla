---------------------------- MODULE NetscanProof ----------------------------
(* The program as a whole: what is proved of the range in RangeProof, and  *)
(* of a sweep by HostScan's actions, meets in main.                        *)
EXTENDS Netscan, TLAPS

RangeThm == INSTANCE RangeProof

-----------------------------------------------------------------------------
(* The range                                                               *)

\* Both instances of TargetRange mean the same.
LEMMA SameBlocks ==
  /\ RangeThm!W = Range!W
  /\ RangeThm!Addresses = Range!Addresses
  /\ RangeThm!PrefixLengths = Range!PrefixLengths
  /\ RangeThm!Interface = Range!Interface
  /\ \A a, p : /\ RangeThm!And(a, p) = Range!And(a, p)
               /\ RangeThm!OrNot(a, p) = Range!OrNot(a, p)
               /\ RangeThm!Block(a, p) = Range!Block(a, p)
  /\ \A p : RangeThm!Count(p) = Range!Count(p)
<1>1. RangeThm!Pow2 = Range!Pow2
  BY DEF RangeThm!Pow2, Range!Pow2
<1>2. RangeThm!W = Range!W /\ \A p : RangeThm!BlockSize(p) = Range!BlockSize(p)
  BY <1>1 DEF RangeThm!W, Range!W, RangeThm!BlockSize, Range!BlockSize
<1>3. RangeThm!Addresses = Range!Addresses /\ RangeThm!PrefixLengths = Range!PrefixLengths
  BY <1>2 DEF RangeThm!Addresses, Range!Addresses, RangeThm!PrefixLengths, Range!PrefixLengths
<1>4. RangeThm!Interface = Range!Interface
  BY <1>3 DEF RangeThm!Interface, Range!Interface, RangeThm!Flags, Range!Flags
<1>5. \A a, p : RangeThm!And(a, p) = Range!And(a, p)
  BY <1>2 DEF RangeThm!And, Range!And
<1>6. \A a, p : RangeThm!OrNot(a, p) = Range!OrNot(a, p)
  BY <1>2, <1>5 DEF RangeThm!OrNot, Range!OrNot
<1>7. \A a, p : RangeThm!Block(a, p) = Range!Block(a, p)
  BY <1>2, <1>3 DEF RangeThm!Block, Range!Block
<1>8. \A p : RangeThm!Count(p) = Range!Count(p)
  BY <1>2 DEF RangeThm!Count, Range!Count
<1> QED BY <1>2, <1>3, <1>4, <1>5, <1>6, <1>7, <1>8

LEMMA SameRange ==
  /\ RangeThm!Targets = Range!Targets
  /\ RangeThm!Skipped = Range!Skipped
  /\ RangeThm!Matching = Range!Matching
  /\ RangeThm!SubnetEnds = Range!SubnetEnds
  /\ RangeThm!NoInterface = Range!NoInterface
  /\ \A ifa : RangeThm!Describe(ifa) = Range!Describe(ifa)
<1>1. RangeThm!Targets = Range!Targets /\ RangeThm!TargetEnd = Range!TargetEnd
  BY SameBlocks DEF RangeThm!Targets, Range!Targets, RangeThm!TargetEnd, Range!TargetEnd
<1>2. RangeThm!Skipped = Range!Skipped
  BY DEF RangeThm!Skipped, Range!Skipped
<1>3. RangeThm!Matching = Range!Matching
  BY DEF RangeThm!Matching, Range!Matching, RangeThm!Matches, Range!Matches,
     RangeThm!SelectInSeq, Range!SelectInSeq, RangeThm!Min, Range!Min
<1>4. RangeThm!NoInterface = Range!NoInterface
  BY DEF RangeThm!NoInterface, Range!NoInterface
<1>5. \A x, y : RangeThm!Overlaps(x, y) = Range!Overlaps(x, y)
  BY <1>1 DEF RangeThm!Overlaps, Range!Overlaps
<1>6. \A ifa : RangeThm!Describe(ifa) = Range!Describe(ifa)
  BY <1>5, SameBlocks DEF RangeThm!Describe, Range!Describe
<1>7. RangeThm!SubnetEnds = Range!SubnetEnds
  BY SameBlocks DEF RangeThm!SubnetEnds, Range!SubnetEnds, RangeThm!IsFirst, Range!IsFirst,
     RangeThm!Subnet, Range!Subnet, RangeThm!Matches, Range!Matches
<1> QED BY <1>1, <1>2, <1>3, <1>4, <1>6, <1>7

\* The assumption RangeProof rests on.
LEMMA RangeAssumed == RangeThm!RangeAssumption
BY NetscanAssumption, SameBlocks DEF RangeThm!RangeAssumption

\* parse_cidr has accepted the target; fetch has looked for its interface.
Parsed ==
  /\ target.prefix \in Range!PrefixLengths
  /\ base_ip = Range!And(target.addr, target.prefix)
  /\ total_hosts = Range!Count(target.prefix)
Fetched ==
  interface = IF Range!Matching = 0 THEN Range!NoInterface
              ELSE Range!Describe(interfaces[Range!Matching])

Given ==
  /\ target \in [addr : Range!Addresses, prefix : 0 .. Bits + 1]
  /\ interfaces \in Seq(Range!Interface)

\* What the scanners go through and do not skip is the block less the ends of the
\* machine's own subnet.
LEMMA ProbedAreWanted ==
  ASSUME Given, Parsed, Fetched
  PROVE  /\ Range!Targets \subseteq Range!Addresses
         /\ Range!Targets \ Range!Skipped = Wanted
<1>1. RangeThm!ParsedTarget /\ RangeThm!FetchedInterface
  BY SameBlocks, SameRange DEF Parsed, Fetched, RangeThm!ParsedTarget, RangeThm!FetchedInterface
<1>2. /\ target.addr \in RangeThm!Addresses /\ target.prefix \in RangeThm!PrefixLengths
      /\ interfaces \in Seq(RangeThm!Interface)
  BY SameBlocks DEF Given, Parsed
<1>3. Range!Targets = Block
  <2>1. RangeThm!Targets = IF target.prefix = 0 THEN {}
                           ELSE RangeThm!Block(target.addr, target.prefix)
    BY <1>1, <1>2, RangeAssumed, RangeThm!TargetInterval
  <2> QED BY <2>1, SameBlocks, SameRange DEF Block
<1>4. Range!Targets \subseteq Range!Addresses
  BY <1>3 DEF Block, Range!Block
<1>5. \A a \in Range!Targets : a \in Range!Skipped <=> a \in Range!SubnetEnds
  <2>1. \A a \in RangeThm!Targets : a \in RangeThm!Skipped <=> a \in RangeThm!SubnetEnds
    BY <1>1, <1>2, RangeAssumed, RangeThm!EndsSkipped
  <2> QED BY <2>1, SameRange
<1> QED BY <1>3, <1>4, <1>5 DEF Wanted

-----------------------------------------------------------------------------
(* The inductive invariant                                                 *)

States == {"outside", "skipped", "pending", "inflight", "reported", "expired"}

\* What main has read and computed where it is.
PathInv ==
  /\ options \in Options
  /\ Given
  /\ (pc \in {"fetch", "ready"} /\ Scanning) => Parsed
  /\ pc = "ready" => Fetched
  /\ exit # "none" => pc = "exited"

\* A scan of the block is under way or over: its addresses, and no others, have a
\* status, and only those not skipped were ever to be asked.
Swept ==
  /\ Scanning /\ Parsed /\ Fetched
  /\ \A a \in Range!Addresses :
       /\ status[a] = "outside" <=> a \notin Range!Targets
       /\ status[a] \in {"pending", "inflight", "reported", "expired"} => a \notin Range!Skipped
       /\ (status[a] = "skipped" /\ options.mode = "ping") => a \in Range!Skipped

Untouched == phase = "running" /\ \A a \in Range!Addresses : status[a] = "outside"

StatusInv ==
  /\ \A a \in Range!Addresses : status[a] \in States
  /\ pc = "sweep" => Swept
  /\ pc # "sweep" => Untouched \/ Swept
  /\ pc \in {"options", "parse", "fetch", "ready", "rejected"} => Untouched

\* The addresses asked lie below those still to be asked.
InOrder ==
  \A a, b \in Range!Addresses : (status[a] = "pending" /\ Asked(b)) => b < a

\* A sweep that went through, and one that broke off at an address.
WentThrough ==
  \A a \in Wanted : Heard(a) \/ (options.mode = "tcp" /\ status[a] = "skipped")
BrokeOff ==
  /\ options.mode = "ping"
  /\ \E a \in Wanted : MayFail(a) /\ \A b \in Wanted : Asked(b) <=> b < a

\* How a sweep ended, and what the exit status says of it.
EndInv ==
  /\ phase \in {"running", "finished", "abandoned"}
  /\ phase = "running" => InOrder
  /\ phase # "running" => Swept
  /\ phase = "finished" => WentThrough
  /\ phase = "abandoned" => BrokeOff
  /\ (exit = "success" /\ Scanning) => phase # "running"

ProgramInv == PathInv /\ StatusInv /\ EndInv

\* Nothing after parse_cidr and fetch changes what they computed.
LEMMA RangeStays ==
  ASSUME UNCHANGED rangeVars
  PROVE  /\ Range!Targets' = Range!Targets /\ Range!Skipped' = Range!Skipped
         /\ Range!Matching' = Range!Matching
         /\ Wanted' = Wanted
         /\ \A a : MayFail(a)' <=> MayFail(a)
         /\ Given' <=> Given
         /\ Parsed' <=> Parsed
         /\ Fetched' <=> Fetched
<1> USE DEF rangeVars
<1>1. Range!Targets' = Range!Targets /\ Range!TargetEnd' = Range!TargetEnd
  BY DEF Range!Targets, Range!TargetEnd
<1>2. Range!Skipped' = Range!Skipped
  BY DEF Range!Skipped
<1>3. Range!Matching' = Range!Matching
  BY DEF Range!Matching, Range!Matches, Range!SelectInSeq
<1>4. Range!SubnetEnds' = Range!SubnetEnds
  BY DEF Range!SubnetEnds, Range!IsFirst, Range!Matches, Range!Subnet
<1>5. Wanted' = Wanted
  BY <1>4 DEF Wanted, Block
<1>6. \A a : MayFail(a)' <=> MayFail(a)
  BY DEF MayFail, Refused, Unroutable, IsUp
<1>7. (Given' <=> Given) /\ (Parsed' <=> Parsed)
  BY DEF Given, Parsed
<1>8. Fetched' <=> Fetched
  BY <1>1, <1>3 DEF Fetched, Range!Describe, Range!Overlaps
<1> QED BY <1>1, <1>2, <1>3, <1>5, <1>6, <1>7, <1>8

LEMMA PathStep ==
  ASSUME ProgramInv, [Next]_vars
  PROVE  PathInv'
<1> USE DEF ProgramInv, PathInv
<1>1. CASE ParseTarget
  <2>1. CASE Range!ParseCidr
    <3>1. /\ pc = "parse" /\ pc' = "fetch" /\ UNCHANGED <<options, target, interfaces, exit>>
          /\ target.prefix <= Bits
          /\ base_ip' = Range!And(target.addr, target.prefix)
          /\ total_hosts' = Range!Count(target.prefix)
      BY <1>1, <2>1 DEF ParseTarget, Range!ParseCidr
    <3>2. target.prefix \in Range!PrefixLengths
      BY <3>1, NetscanAssumption DEF Given, Range!PrefixLengths
    <3> QED BY <3>1, <3>2 DEF Given, Parsed
  <2>2. CASE Range!Reject
    <3>1. /\ pc = "parse" /\ pc' = "rejected"
          /\ UNCHANGED <<options, target, interfaces, exit>>
      BY <1>1, <2>2 DEF ParseTarget, Range!Reject
    <3> QED BY <3>1 DEF Given
  <2> QED BY <1>1, <2>1, <2>2 DEF ParseTarget
<1>2. CASE FetchInterface
  <2>1. /\ pc = "fetch" /\ pc' = "ready"
        /\ UNCHANGED <<options, target, interfaces, source, base_ip, total_hosts, exit>>
        /\ interface' = IF Range!Matching = 0 THEN Range!NoInterface
                        ELSE Range!Describe(interfaces[Range!Matching])
    BY <1>2 DEF FetchInterface, Range!Fetch
  <2>2. Range!Matching' = Range!Matching
    BY <2>1 DEF Range!Matching, Range!Matches, Range!SelectInSeq
  <2>3. Fetched'
    BY <2>1, <2>2 DEF Fetched, Range!Describe, Range!Overlaps, Range!TargetEnd
  <2> QED BY <2>1, <2>3 DEF Given, Parsed, Scanning
<1>3. CASE ChoosePrint \/ ListArpTable \/ MissingTarget \/ ChooseScan \/ InvalidTarget
           \/ UnknownMode \/ PrintAddresses \/ StartScan \/ ReportComplete \/ Throw
  <2>1. UNCHANGED <<options, rangeVars>> /\ pc' # "ready"
        /\ (pc' = "fetch" => options.print)
        /\ (exit' # "none" => pc' = "exited" \/ exit' = exit)
        /\ (pc = "exited" => FALSE)
    BY <1>3 DEF ChoosePrint, ListArpTable, MissingTarget, ChooseScan, InvalidTarget,
       UnknownMode, PrintAddresses, StartScan, ReportComplete, Throw, Goto, Exit
  <2> QED BY <2>1, RangeStays DEF Scanning
<1>4. CASE SweepStep \/ UNCHANGED vars
  <2>1. UNCHANGED <<options, pc, rangeVars, exit>>
    BY <1>4 DEF SweepStep, vars
  <2> QED BY <2>1, RangeStays DEF Scanning
<1> QED BY <1>1, <1>2, <1>3, <1>4 DEF Next, Stopped

\* The scanner is made for the targets, and leaves out the skipped ones at once.
LEMMA StartedSweep ==
  ASSUME ProgramInv, StartScan
  PROVE  StatusInv' /\ EndInv'
<1>1. /\ UNCHANGED <<options, rangeVars, phase, exit>> /\ pc = "ready" /\ pc' = "sweep"
      /\ Scanning
      /\ \A a \in Range!Addresses : status'[a] =
           IF a \notin Range!Targets THEN "outside"
           ELSE IF a \in Range!Skipped THEN "skipped" ELSE "pending"
  BY DEF StartScan
<1>2. Parsed /\ Fetched /\ Untouched
  BY <1>1 DEF ProgramInv, PathInv, StatusInv
<1>3. /\ Parsed' /\ Fetched' /\ Range!Targets' = Range!Targets /\ Range!Skipped' = Range!Skipped
      /\ Range!Addresses' = Range!Addresses
  BY <1>1, <1>2, RangeStays
<1>4. Swept'
  BY <1>1, <1>3 DEF Swept, Scanning
<1>5. StatusInv'
  BY <1>1, <1>3, <1>4 DEF StatusInv, States
<1>6. InOrder'
  BY <1>1, <1>3 DEF InOrder, Asked
<1> QED BY <1>1, <1>2, <1>4, <1>5, <1>6 DEF ProgramInv, PathInv, EndInv, Untouched

\* A sweep moves only addresses it has a status for, never one it skipped to one it
\* asks, and goes through the others in order.
LEMMA MovedStatus ==
  ASSUME ProgramInv, SweepStep
  PROVE  /\ UNCHANGED <<options, pc, rangeVars, exit>> /\ pc = "sweep" /\ phase = "running"
         /\ \A a \in Range!Addresses :
              \/ status'[a] = status[a]
              \/ /\ status[a] \in {"pending", "inflight", "reported", "expired"}
                 /\ status'[a] \in States \ {"outside"}
                 /\ status'[a] = "skipped" => options.mode = "tcp"
         /\ \/ phase' = "running" /\ InOrder'
            \/ /\ phase' = "finished" /\ UNCHANGED status
               /\ \A a \in Range!Addresses : status[a] \notin {"pending", "inflight"}
            \/ /\ phase' = "abandoned" /\ options.mode = "ping"
               /\ \E a \in Range!Addresses :
                    /\ MayFail(a) /\ Asked(a)
                    /\ \A b \in Range!Addresses :
                         status'[b] = IF b \in From(a) THEN "pending" ELSE status[b]
<1> USE DEF Sweep!HostsIn
<1>1. UNCHANGED <<options, pc, rangeVars, exit>> /\ pc = "sweep" /\ phase = "running"
  BY DEF SweepStep
<1>2. InOrder /\ Range!Addresses' = Range!Addresses
  BY <1>1 DEF ProgramInv, EndInv
<1>3. CASE \E a \in Range!Addresses : IsNext(a) /\ Sweep!Probe(a)
  <2>1. PICK a \in Range!Addresses : IsNext(a) /\ Sweep!Probe(a)
    BY <1>3
  <2>2. /\ phase' = phase /\ status[a] = "pending"
        /\ \A b \in Range!Addresses : status'[b] = IF b = a THEN "inflight" ELSE status[b]
    BY <2>1 DEF Sweep!Probe, Sweep!Become
  <2>3. \A b \in Range!Addresses : (status[b] = "pending" /\ b # a) => a < b
    BY <2>1 DEF IsNext, Range!Addresses
  <2>4. InOrder'
    BY <1>2, <2>2, <2>3 DEF InOrder, Asked
  <2> QED BY <1>1, <2>2, <2>4 DEF States
<1>4. CASE \E a \in Range!Addresses : Sweep!Report(a)
  <2>1. PICK a \in Range!Addresses : Sweep!Report(a)
    BY <1>4
  <2>2. /\ phase' = phase /\ status[a] \in {"inflight", "expired"}
        /\ \A b \in Range!Addresses : status'[b] = IF b = a THEN "reported" ELSE status[b]
    BY <2>1 DEF Sweep!Report, Sweep!Become
  <2>3. InOrder'
    BY <1>2, <2>2 DEF InOrder, Asked
  <2> QED BY <1>1, <2>2, <2>3 DEF States
<1>5. CASE options.mode = "tcp" /\ \E a \in Range!Addresses : Sweep!Skip(a)
  <2>1. PICK a \in Range!Addresses : Sweep!Skip(a)
    BY <1>5
  <2>2. /\ phase' = phase /\ status[a] \in {"pending", "inflight"}
        /\ \A b \in Range!Addresses : status'[b] = IF b = a THEN "skipped" ELSE status[b]
    BY <2>1 DEF Sweep!Skip, Sweep!Become
  <2>3. InOrder'
    BY <1>2, <2>2 DEF InOrder, Asked
  <2> QED BY <1>1, <1>5, <2>2, <2>3 DEF States
<1>6. CASE \E S \in SUBSET Sweep!HostsIn("inflight") : Sweep!Expire(S)
  <2>1. PICK S \in SUBSET Sweep!HostsIn("inflight") : Sweep!Expire(S)
    BY <1>6
  <2>2. \A b \in Range!Addresses : status'[b] = IF b \in S THEN "expired" ELSE status[b]
    BY <2>1 DEF Sweep!Expire, Sweep!Become
  <2>3. phase' = phase /\ \A b \in S : status[b] = "inflight"
    BY <2>1 DEF Sweep!Expire
  <2>4. InOrder'
    BY <1>2, <2>2, <2>3 DEF InOrder, Asked
  <2> QED BY <1>1, <2>2, <2>3, <2>4 DEF States
<1>7. CASE options.mode = "ping" /\ \E a \in Range!Addresses : BreakOff(a)
  <2>1. PICK a \in Range!Addresses : BreakOff(a)
    BY <1>7
  <2>2. MayFail(a) /\ Asked(a) /\ Sweep!Abandon(From(a))
    BY <2>1 DEF BreakOff, From
  <2>3. \A b \in Range!Addresses : status'[b] = IF b \in From(a) THEN "pending" ELSE status[b]
    BY <2>2 DEF Sweep!Abandon, Sweep!Become
  <2>4. phase' = "abandoned" /\ \A b \in From(a) : status[b] = "inflight"
    BY <2>2 DEF Sweep!Abandon
  <2> QED BY <1>1, <1>7, <2>2, <2>3, <2>4 DEF States
<1>8. CASE Sweep!Finish
  BY <1>1, <1>8 DEF Sweep!Finish
<1> QED BY <1>3, <1>4, <1>5, <1>6, <1>7, <1>8 DEF SweepStep, PingStep, TcpStep

LEMMA SweptStays ==
  ASSUME ProgramInv, SweepStep
  PROVE  StatusInv' /\ EndInv'
<1>1. /\ UNCHANGED <<options, pc, rangeVars, exit>> /\ pc = "sweep" /\ phase = "running"
      /\ \A a \in Range!Addresses :
           \/ status'[a] = status[a]
           \/ /\ status[a] \in {"pending", "inflight", "reported", "expired"}
              /\ status'[a] \in States \ {"outside"}
              /\ status'[a] = "skipped" => options.mode = "tcp"
  BY MovedStatus
<1>2. Swept /\ InOrder
  BY <1>1 DEF ProgramInv, StatusInv, EndInv
<1>3. /\ Range!Targets' = Range!Targets /\ Range!Skipped' = Range!Skipped
      /\ Range!Addresses' = Range!Addresses
      /\ Wanted' = Wanted /\ \A a : MayFail(a)' <=> MayFail(a)
      /\ (Parsed' <=> Parsed) /\ (Fetched' <=> Fetched) /\ (Scanning' <=> Scanning)
  BY <1>1, RangeStays DEF Scanning
<1>4. Swept'
  BY <1>1, <1>2, <1>3 DEF Swept
<1>5. StatusInv'
  BY <1>1, <1>3, <1>4 DEF ProgramInv, StatusInv, States
<1>6. (exit' = "success" /\ Scanning') => FALSE
  BY <1>1 DEF ProgramInv, PathInv
<1>7. \A a \in Wanted :
        /\ a \in Range!Addresses /\ status[a] \in States \ {"outside"}
        /\ status[a] = "skipped" => options.mode = "tcp"
  <2>1. Range!Targets \subseteq Range!Addresses /\ Wanted = Range!Targets \ Range!Skipped
    BY <1>2, ProbedAreWanted DEF ProgramInv, PathInv, Swept
  <2> QED BY <1>2, <2>1 DEF ProgramInv, StatusInv, Swept, Scanning
<1>8. CASE phase' = "running" /\ InOrder'
  BY <1>5, <1>6, <1>8 DEF EndInv
<1>9. CASE /\ phase' = "finished" /\ UNCHANGED status
           /\ \A a \in Range!Addresses : status[a] \notin {"pending", "inflight"}
  <2>1. WentThrough
    BY <1>7, <1>9 DEF WentThrough, Heard, States
  <2>2. WentThrough'
    BY <1>1, <1>3, <1>9, <2>1 DEF WentThrough, Heard
  <2> QED BY <1>4, <1>5, <1>6, <1>9, <2>2 DEF EndInv
<1>10. CASE /\ phase' = "abandoned" /\ options.mode = "ping"
            /\ \E a \in Range!Addresses :
                 /\ MayFail(a) /\ Asked(a)
                 /\ \A b \in Range!Addresses :
                      status'[b] = IF b \in From(a) THEN "pending" ELSE status[b]
  <2>1. PICK a \in Range!Addresses :
          /\ MayFail(a) /\ Asked(a)
          /\ \A b \in Range!Addresses :
               status'[b] = IF b \in From(a) THEN "pending" ELSE status[b]
    BY <1>10
  <2>2. a \in Wanted
    <3>1. Wanted = Range!Targets \ Range!Skipped
      BY <1>2, ProbedAreWanted DEF ProgramInv, PathInv, Swept
    <3> QED BY <1>2, <2>1, <3>1 DEF Swept, Asked
  <2>3. ASSUME NEW b \in Wanted PROVE Asked(b)' <=> b < a
    <3>1. b \in Range!Addresses /\ a \in Int /\ b \in Int
      BY <1>7, <2>1 DEF Range!Addresses
    <3>2. CASE b \in From(a)
      BY <2>1, <3>1, <3>2 DEF From, Asked
    <3>3. CASE b \notin From(a)
      <4>1. status'[b] = status[b] /\ ~ (Asked(b) /\ a <= b)
        BY <2>1, <3>1, <3>3 DEF From
      <4>2. b < a => Asked(b)
        <5>1. status[b] = "pending" => a < b
          BY <1>2, <2>1, <3>1 DEF InOrder
        <5> QED BY <1>7, <1>10, <3>1, <5>1 DEF Asked, States
      <4> QED BY <3>1, <4>1, <4>2 DEF Asked
    <3> QED BY <3>2, <3>3
  <2>4. BrokeOff'
    BY <1>1, <1>3, <1>10, <2>1, <2>2, <2>3 DEF BrokeOff
  <2> QED BY <1>4, <1>5, <1>6, <1>10, <2>4 DEF EndInv
<1> QED BY <1>8, <1>9, <1>10, MovedStatus

LEMMA ProgramStep ==
  ASSUME ProgramInv, [Next]_vars
  PROVE  ProgramInv'
<1>1. CASE ParseTarget \/ FetchInterface
  <2>1. /\ UNCHANGED <<options, status, phase, exit>>
        /\ pc \in {"parse", "fetch"} /\ pc' \in {"fetch", "rejected", "ready"}
    BY <1>1 DEF ParseTarget, FetchInterface, Range!ParseCidr, Range!Reject, Range!Fetch
  <2>2. Untouched /\ Untouched'
    BY <2>1 DEF ProgramInv, StatusInv, Untouched
  <2>3. StatusInv'
    BY <2>1, <2>2 DEF ProgramInv, StatusInv
  <2>4. InOrder'
    BY <2>2 DEF Untouched, InOrder, Asked
  <2>5. EndInv'
    BY <2>1, <2>2, <2>4 DEF ProgramInv, PathInv, EndInv, Untouched
  <2> QED BY <2>3, <2>5, PathStep DEF ProgramInv
<1>2. CASE StartScan
  BY <1>2, StartedSweep, PathStep DEF ProgramInv
<1>3. CASE SweepStep
  BY <1>3, SweptStays, PathStep DEF ProgramInv
<1>4. CASE ChoosePrint \/ ListArpTable \/ MissingTarget \/ ChooseScan \/ InvalidTarget
           \/ UnknownMode \/ PrintAddresses \/ ReportComplete \/ Throw \/ UNCHANGED vars
  <2>1. UNCHANGED <<options, rangeVars, status, phase>>
    BY <1>4 DEF ChoosePrint, ListArpTable, MissingTarget, ChooseScan, InvalidTarget,
       UnknownMode, PrintAddresses, ReportComplete, Throw, Goto, Exit, vars
  <2>2. /\ pc' \in {"parse", "fetch"} => pc = "options" \/ pc' = pc
        /\ pc' \in {"options", "ready", "rejected", "sweep"} => pc' = pc
    BY <1>4 DEF ChoosePrint, ListArpTable, MissingTarget, ChooseScan, InvalidTarget,
       UnknownMode, PrintAddresses, ReportComplete, Throw, Goto, Exit, vars
  <2>3. (exit' = "success" /\ Scanning) => phase # "running"
    BY <1>4 DEF ChoosePrint, ListArpTable, MissingTarget, ChooseScan, InvalidTarget,
       UnknownMode, PrintAddresses, ReportComplete, Throw, Goto, Exit, vars, Scanning,
       ProgramInv, EndInv
  <2>4. /\ Range!Targets' = Range!Targets /\ Range!Skipped' = Range!Skipped
        /\ Range!Addresses' = Range!Addresses
        /\ Wanted' = Wanted /\ \A a : MayFail(a)' <=> MayFail(a)
        /\ (Parsed' <=> Parsed) /\ (Fetched' <=> Fetched) /\ (Scanning' <=> Scanning)
    BY <2>1, RangeStays DEF Scanning
  <2>5. (Swept' <=> Swept) /\ (Untouched' <=> Untouched)
    BY <2>1, <2>4 DEF Swept, Untouched
  <2>6. StatusInv'
    BY <2>1, <2>2, <2>5 DEF ProgramInv, StatusInv
  <2>7. (WentThrough' <=> WentThrough) /\ (InOrder' <=> InOrder)
    BY <2>1, <2>4 DEF WentThrough, Heard, InOrder, Asked
  <2>8. BrokeOff' <=> BrokeOff
    BY <2>1, <2>4 DEF BrokeOff, Asked
  <2>9. EndInv'
    BY <2>1, <2>3, <2>4, <2>5, <2>7, <2>8 DEF ProgramInv, EndInv
  <2> QED BY <2>6, <2>9, PathStep DEF ProgramInv
<1> QED BY <1>1, <1>2, <1>3, <1>4 DEF Next, Stopped

\* The invariant holds in every state of the program.
LEMMA ProgramInvariant == Spec => []ProgramInv
<1>1. Init => ProgramInv
  <2> SUFFICES ASSUME Init PROVE ProgramInv
    OBVIOUS
  <2>1. Given
    BY NetscanAssumption DEF Init, Range!Inputs, Given
  <2>2. Untouched
    BY DEF Init, Untouched
  <2>3. InOrder
    BY <2>2 DEF Untouched, InOrder, Asked
  <2> QED BY <2>1, <2>2, <2>3 DEF Init, ProgramInv, PathInv, StatusInv, EndInv, Untouched, States
<1>2. ProgramInv /\ [Next]_vars => ProgramInv'
  BY ProgramStep
<1> QED BY <1>1, <1>2, PTL DEF Spec

\* Whatever the options, the interfaces and the width of the addresses, the program
\* asks nobody outside its block, nor either end of the machine's own subnet.
THEOREM NobodyElseAsked == Spec => []OnlyBlockAsked
<1>1. ProgramInv => OnlyBlockAsked
  <2> SUFFICES ASSUME ProgramInv, NEW a \in Range!Addresses, Asked(a)
               PROVE  a \in Wanted
    BY DEF OnlyBlockAsked
  <2>1. Swept
    BY DEF ProgramInv, StatusInv, Untouched, Asked
  <2>2. a \in Range!Targets \ Range!Skipped
    BY <2>1 DEF Swept, Asked
  <2> QED BY <2>1, <2>2, ProbedAreWanted DEF ProgramInv, PathInv, Swept
<1> QED BY <1>1, ProgramInvariant, PTL

\* Exit status 0 means a sweep that waited for everybody it could ask, or a ping sweep
\* that broke off at one address that could not be sent to, and at no other place.
THEOREM SuccessExplained == Spec => []MissedExplained
<1>1. ProgramInv => MissedExplained
  <2> SUFFICES ASSUME ProgramInv, exit = "success", Scanning
               PROVE  \/ WentThrough
                      \/ phase = "abandoned" /\ BrokeOff
    BY DEF MissedExplained, WentThrough, BrokeOff
  <2> QED BY DEF ProgramInv, EndInv
<1> QED BY <1>1, ProgramInvariant, PTL
=============================================================================
