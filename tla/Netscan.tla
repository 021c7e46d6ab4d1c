------------------------------- MODULE Netscan -------------------------------
(***************************************************************************)
(* The program as a whole (src/src/main.cpp): from its options through the *)
(* target range and one sweep to the exit status.  The range is computed   *)
(* by TargetRange, the sweep is the HostScan that both scanners implement, *)
(* narrowed to what the chosen one does; ArpTable has the table of the arp *)
(* mode.  Lines that are printed, and how long a sweep takes, are left out.*)
(***************************************************************************)
EXTENDS Integers, Sequences, FiniteSets

CONSTANTS
  Bits, InterfaceLists,  \* see TargetRange
  ConfigProbes,          \* config.max_probes (-c)
  SendErrors,            \* addresses at which sendmmsg may fail (EACCES of a firewall,
                         \* EMSGSIZE with -l, ENOBUFS...) or stay throttled for a whole
                         \* timeout, whatever interfaces and routes are
  SystemErrors           \* socket, epoll_create1, epoll_ctl, epoll_wait may fail

VARIABLES
  options,  \* what the command line asks for: [mode, print, given]
  pc,
  target, interfaces, source, base_ip, total_hosts, interface,  \* see TargetRange
  status,   \* what became of each address
  phase,    \* of the sweep: "running", "finished" or "abandoned"
  exit      \* "none", "success" (0), "failure" (1) or "terminated" (by an exception)

Range == INSTANCE TargetRange
Sweep == INSTANCE HostScan
           WITH Hosts <- Range!Addresses, Reserved <- {}, Limit <- ConfigProbes,
                MayAbandon <- TRUE

ASSUME NetscanAssumption ==
  /\ Bits \in Nat \ {0}
  /\ InterfaceLists \subseteq Seq(Range!Interface)
  /\ ConfigProbes \in Nat
  /\ SendErrors \subseteq Range!Addresses
  /\ SystemErrors \in BOOLEAN

rangeVars == <<target, interfaces, source, base_ip, total_hosts, interface>>
vars == <<options, pc, rangeVars, status, phase, exit>>

\* One of -L, -B, -N was given; any other mode than these three is as good as "other".
Options == [mode : {"ping", "tcp", "arp", "other"}, print : BOOLEAN, given : BOOLEAN]

Init ==
  /\ options \in Options
  /\ pc = "options"
  /\ Range!Inputs
  /\ status = [a \in Range!Addresses |-> "outside"]
  /\ phase = "running"
  /\ exit = "none"

Scanning == ~ options.print /\ options.mode \in {"ping", "tcp"}

Goto(place) ==
  /\ pc' = place
  /\ UNCHANGED <<options, rangeVars, status, phase, exit>>

Exit(code) ==
  /\ exit' = code
  /\ pc' = "exited"
  /\ UNCHANGED <<options, rangeVars, status, phase>>

-----------------------------------------------------------------------------
(* main                                                                    *)

\* Without a target the addresses to print are fetched for an empty range.
ChoosePrint ==
  /\ pc = "options" /\ options.print
  /\ Goto(IF options.given THEN "parse" ELSE "fetch")

\* The kernel's table is listed whatever the target; every end of the dump is a success.
ListArpTable ==
  /\ pc = "options" /\ ~ options.print
  /\ options.mode = "arp"
  /\ Exit("success")

MissingTarget ==
  /\ pc = "options" /\ ~ options.print
  /\ options.mode # "arp" /\ ~ options.given
  /\ Exit("failure")

ChooseScan ==
  /\ pc = "options" /\ ~ options.print
  /\ options.mode # "arp" /\ options.given
  /\ Goto("parse")

ParseTarget ==
  /\ Range!ParseCidr \/ Range!Reject
  /\ UNCHANGED <<options, status, phase, exit>>

InvalidTarget ==
  /\ pc = "rejected"
  /\ Exit("failure")

\* The mode is looked at only once the target was parsed.
UnknownMode ==
  /\ pc = "fetch" /\ ~ options.print
  /\ ~ Scanning
  /\ Exit("failure")

FetchInterface ==
  /\ options.print \/ Scanning
  /\ Range!Fetch
  /\ UNCHANGED <<options, status, phase, exit>>

PrintAddresses ==
  /\ pc = "ready" /\ options.print
  /\ Exit(IF Range!Matching = 0 THEN "failure" ELSE "success")

-----------------------------------------------------------------------------
(* execute_network_scan: the scanner of the mode is constructed and run.   *)

StartScan ==
  /\ pc = "ready" /\ Scanning
  /\ pc' = "sweep"
  /\ status' = [a \in Range!Addresses |->
       IF a \notin Range!Targets THEN "outside"
       ELSE IF a \in Range!Skipped THEN "skipped" ELSE "pending"]
  /\ UNCHANGED <<options, rangeVars, phase, exit>>

IsUp(i) == "UP" \in interfaces[i].flags

\* External: without SO_BROADCAST the kernel refuses to send to a broadcast address,
\* that of any interface with room for one, or the one of all ones.
Refused ==
  {Range!W - 1} \cup
  {Range!OrNot(interfaces[i].addr, interfaces[i].prefix) : i \in
     {j \in DOMAIN interfaces :
        IsUp(j) /\ "BROADCAST" \in interfaces[j].flags /\ interfaces[j].prefix <= Bits - 2}}

\* External: without a default route only the subnets of the interfaces can be reached
\* for certain.
Unroutable(a) ==
  /\ source = Range!NoRoute
  /\ \A i \in DOMAIN interfaces :
       ~ (IsUp(i) /\ a \in Range!Block(interfaces[i].addr, interfaces[i].prefix))

\* Whether sendmmsg may fail for an address in a way that does not pass.
MayFail(a) == a \in Refused \/ Unroutable(a) \/ a \in SendErrors

Asked(a) == status[a] \in {"inflight", "reported", "expired"}

\* Both scanners go through the range in order.
IsNext(a) == \A b \in Sweep!HostsIn("pending") : a <= b

\* Probes in the ping scanner's batch that sendmmsg will not take.
Unsendable == Sweep!HostsIn("inflight") \cap Refused

MutFrom(a) == {a}   \* mutant: only the failed probe is taken back
\* The rest of the batch, from the address sendmmsg stopped at.
From(a) == {b \in Range!Addresses : Asked(b) /\ a <= b}

\* Whatever the error is, the rest of the batch is taken back, and the sweep is over.
BreakOff(a) ==
  /\ MayFail(a) /\ a \in From(a)
  /\ Unsendable \subseteq From(a)
  /\ Sweep!Abandon(From(a))

\* PingScanner fills its batch and sends it; only then is anything else possible.
PingStep ==
  /\ options.mode = "ping"
  /\ \/ \E a \in Range!Addresses :
          \/ IsNext(a) /\ Sweep!Probe(a)
          \/ Unsendable = {} /\ Sweep!Report(a)
          \/ BreakOff(a)
     \/ Unsendable = {} /\ \E S \in SUBSET Sweep!HostsIn("inflight") : Sweep!Expire(S)
     \/ Sweep!Finish

\* TcpScanner lets go of an address it cannot connect to, and forgets a connection
\* when it reaps it.
TcpStep ==
  /\ options.mode = "tcp"
  /\ \/ \E a \in Range!Addresses :
          \/ IsNext(a) /\ Sweep!Probe(a)
          \/ (IsNext(a) \/ status[a] = "inflight") /\ Sweep!Skip(a)
          \/ status[a] = "inflight" /\ Sweep!Report(a)
     \/ \E S \in SUBSET Sweep!HostsIn("inflight") : Sweep!Expire(S)
     \/ Sweep!Finish

SweepStep ==
  /\ pc = "sweep" /\ phase = "running"
  /\ PingStep \/ TcpStep
  /\ UNCHANGED <<options, pc, rangeVars, exit>>

\* The summary is headed "SCAN COMPLETE" however run() came to its end.
ReportComplete ==
  /\ pc = "sweep" /\ phase # "running"
  /\ Exit("success")

\* The constructor, or the ping scanner's run(), throws; nobody catches it.
Throw ==
  /\ SystemErrors /\ Scanning
  /\ pc = "ready" \/ (pc = "sweep" /\ phase = "running" /\ options.mode = "ping")
  /\ Exit("terminated")

Stopped == pc = "exited" /\ UNCHANGED vars

Next ==
  \/ ChoosePrint \/ ListArpTable \/ MissingTarget \/ ChooseScan
  \/ ParseTarget \/ InvalidTarget \/ UnknownMode \/ FetchInterface \/ PrintAddresses
  \/ StartScan \/ SweepStep \/ ReportComplete \/ Throw \/ Stopped

Spec == Init /\ [][Next]_vars

-----------------------------------------------------------------------------
(* Properties                                                              *)

\* The block the argument names; 0.0.0.0/0 has no hosts, its count overflows.
Block == IF target.prefix = 0 THEN {} ELSE Range!Block(target.addr, target.prefix)

\* The addresses a scan is asked for.
Wanted == Block \ Range!SubnetEnds

Heard(a) == status[a] \in {"reported", "expired"}
Settled(a) == status[a] = "skipped" \/ Heard(a)

\* Whatever the options, the interfaces and the way the sweep goes, the program asks
\* nobody outside the block it was given, and never the ends of the machine's own
\* subnet (parse_cidr, fetch and the skip of both scanners together).
OnlyBlockAsked ==
  \A a \in Range!Addresses : Asked(a) => a \in Wanted

\* Exit status 0 accounts for every address of the block but the subnet's ends: it
\* answered or was waited for to the end; or, in a TCP scan, was let go, refused or
\* never tried for want of a socket; or the ping sweep broke off at one address that
\* could not be sent to, with just those before it asked and no other left out
\* (execute_network_scan around run()).
MissedExplained ==
  (exit = "success" /\ Scanning) =>
    \/ \A a \in Wanted : Heard(a) \/ (options.mode = "tcp" /\ status[a] = "skipped")
    \/ /\ options.mode = "ping" /\ phase = "abandoned"
       /\ \E a \in Wanted : MayFail(a) /\ \A b \in Wanted : Asked(b) <=> b < a

\* "ICMP PING SCAN COMPLETE": a ping scan that says so and exits with status 0 has
\* been through all the addresses it set out to scan.
CompleteIsComplete ==
  (exit = "success" /\ Scanning /\ options.mode = "ping") =>
    \A a \in Range!Targets : Settled(a)

=============================================================================
