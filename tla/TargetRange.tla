----------------------------- MODULE TargetRange -----------------------------
(***************************************************************************)
(* From the command line to the addresses a sweep probes: parse_cidr,      *)
(* NetworkInterface::fetch (src/src/utils.cpp) and the addresses both      *)
(* scanners skip.  Addresses are unsigned integers of Bits bits, and       *)
(* arithmetic on them wraps; the program has Bits = 32.                    *)
(***************************************************************************)
EXTENDS Integers, SequencesExt

CONSTANTS
  Bits,            \* width of an address
  InterfaceLists   \* external: what getifaddrs may answer, as sequences of
                   \* [addr, prefix, flags]

Pow2[n \in Nat] == IF n = 0 THEN 1 ELSE 2 * Pow2[n - 1]
W == Pow2[Bits]
Addresses == 0 .. W - 1
PrefixLengths == 0 .. Bits
Flags == {"UP", "LOOPBACK", "BROADCAST"}
Interface == [addr : Addresses, prefix : PrefixLengths, flags : SUBSET Flags]
NoRoute == -1

ASSUME RangeAssumption ==
  /\ Bits \in Nat \ {0}
  /\ InterfaceLists \subseteq Seq(Interface)

VARIABLES
  pc,          \* "parse", "fetch", "ready" or "rejected"
  target,      \* the CIDR argument: [addr, prefix]
  interfaces,  \* external: the answer of getifaddrs
  source,      \* external: the local address of the default route, or NoRoute
  base_ip,
  total_hosts,
  interface    \* what fetch returns: [network_ip, broadcast_ip, is_local]

vars == <<pc, target, interfaces, source, base_ip, total_hosts, interface>>

-----------------------------------------------------------------------------
(* A mask of prefix ones is told by the size of its blocks: a & mask is the*)
(* start of a's block, a | ~mask its end, and ~mask + 1 the size itself.   *)

BlockSize(prefix) == Pow2[Bits - prefix]
And(a, prefix) == a - (a % BlockSize(prefix))

MutOrNot(a, prefix) == And(a, prefix) + BlockSize(prefix)   \* mutant: one beyond the block
OrNot(a, prefix) == And(a, prefix) + BlockSize(prefix) - 1

MutCount(prefix) == (BlockSize(prefix) - 1) % W   \* mutant: ~mask without the + 1
Count(prefix) == IF prefix = Bits THEN 1 ELSE BlockSize(prefix) % W

\* A plain address is parsed like one with the whole width as its prefix.
ParseCidr ==
  /\ pc = "parse"
  /\ target.prefix <= Bits
  /\ base_ip' = And(target.addr, target.prefix)
  /\ total_hosts' = Count(target.prefix)
  /\ pc' = "fetch"
  /\ UNCHANGED <<target, interfaces, source, interface>>

\* "Invalid CIDR specification"; a malformed argument of any kind ends like this one.
Reject ==
  /\ pc = "parse"
  /\ target.prefix > Bits
  /\ pc' = "rejected"
  /\ UNCHANGED <<target, interfaces, source, base_ip, total_hosts, interface>>

-----------------------------------------------------------------------------
(* NetworkInterface::fetch                                                 *)

NoInterface == [network_ip |-> 0, broadcast_ip |-> 0, is_local |-> FALSE]

Matches(ifa) ==
  /\ {"UP", "BROADCAST"} \subseteq ifa.flags
  /\ "LOOPBACK" \notin ifa.flags
  /\ ifa.addr = source

\* target_end_ip
MutTargetEnd == base_ip + total_hosts   \* mutant: one beyond the last host
TargetEnd == IF total_hosts = 0 THEN base_ip ELSE (base_ip + total_hosts - 1) % W

MutOverlaps(network, broadcast) ==   \* mutant: only the start of the range is looked at
  base_ip <= broadcast /\ base_ip >= network
Overlaps(network, broadcast) == base_ip <= broadcast /\ TargetEnd >= network

Describe(ifa) ==
  LET network == And(ifa.addr, ifa.prefix)
      broadcast == OrNot(ifa.addr, ifa.prefix)
  IN [network_ip |-> network, broadcast_ip |-> broadcast,
      is_local |-> Overlaps(network, broadcast)]

\* The index of the first interface that has the address of the default route, or 0.
Matching == SelectInSeq(interfaces, Matches)

Fetch ==
  /\ pc = "fetch"
  /\ interface' = IF Matching = 0 THEN NoInterface ELSE Describe(interfaces[Matching])
  /\ pc' = "ready"
  /\ UNCHANGED <<target, interfaces, source, base_ip, total_hosts>>

-----------------------------------------------------------------------------
(* The addresses the two scanners go through, and those they skip.         *)

Targets == {(base_ip + i) % W : i \in 0 .. total_hosts - 1}

Skipped ==
  IF interface.is_local THEN {interface.network_ip, interface.broadcast_ip} ELSE {}

Probed == Targets \ Skipped

\* A target and a machine, before anything is read.
Inputs ==
  /\ target \in [addr : Addresses, prefix : 0 .. Bits + 1]
  /\ interfaces \in InterfaceLists
  /\ source \in {interfaces[i].addr : i \in DOMAIN interfaces} \cup {NoRoute}
  /\ base_ip = 0
  /\ total_hosts = 0
  /\ interface = NoInterface

Init == pc = "parse" /\ Inputs

Done == pc \in {"ready", "rejected"} /\ UNCHANGED vars

Next == ParseCidr \/ Reject \/ Fetch \/ Done

Spec == Init /\ [][Next]_vars

-----------------------------------------------------------------------------
(* Properties                                                              *)

Block(a, prefix) == {b \in Addresses : b \div BlockSize(prefix) = a \div BlockSize(prefix)}

\* parse_cidr hands on exactly the addresses that share the prefix - none twice, none
\* by wrapping round - but for the prefix 0, whose count of hosts overflows to 0.
RangeIsBlock ==
  pc = "ready" =>
    /\ Targets = IF target.prefix = 0 THEN {} ELSE Block(target.addr, target.prefix)
    /\ base_ip + total_hosts <= W

\* The interface fetch is to describe: the first that has the default route's address.
IsFirst(i) == Matches(interfaces[i]) /\ \A j \in 1 .. i - 1 : ~ Matches(interfaces[j])

Subnet(i) == Block(interfaces[i].addr, interfaces[i].prefix)

\* The first and the last address of its subnet.
SubnetEnds ==
  {a \in Addresses :
     \E i \in DOMAIN interfaces :
       /\ IsFirst(i) /\ a \in Subnet(i)
       /\ (\A b \in Subnet(i) : a <= b) \/ (\A b \in Subnet(i) : b <= a)}

\* is_local tells whether the range meets the subnet of the default route's
\* interface, wherever the one lies within, across or around the other.
LocalIsOverlap ==
  (pc = "ready" /\ Targets # {}) =>
    (interface.is_local <=>
       \E i \in DOMAIN interfaces : IsFirst(i) /\ Targets \cap Subnet(i) # {})

\* The two masks, the two comparisons and the skip together: of the range exactly the
\* least and the greatest address of the machine's own subnet are left out, wherever
\* the range lies, and without such an interface every address is probed.
SkippedAreEnds ==
  pc = "ready" => \A a \in Targets : a \notin Probed <=> a \in SubnetEnds

\* "Skip true local subnet network ID and broadcast address": an address some
\* interface of this machine has is that of a host, and is not skipped.
SkippedIsNoHost ==
  pc = "ready" =>
    \A i \in DOMAIN interfaces : interfaces[i].addr \notin Targets \ Probed

=============================================================================
