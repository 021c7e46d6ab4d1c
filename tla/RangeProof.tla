----------------------------- MODULE RangeProof -----------------------------
(* TargetRange, proved for every width of the addresses: the range of the  *)
(* sweep is the block the argument names, and what is skipped of it are    *)
(* the ends of the machine's own subnet.                                   *)
EXTENDS TargetRange, Recursion, SequenceTheorems

-----------------------------------------------------------------------------
(* Powers of two and blocks                                                *)

\* The shift of the mask: the recursion defines a function on the naturals.
LEMMA PowersOfTwo ==
  /\ Pow2 \in [Nat -> Nat]
  /\ Pow2[0] = 1
  /\ \A n \in Nat : Pow2[n + 1] = 2 * Pow2[n]
<1> DEFINE Step == [n \in Nat |-> [x \in Nat |-> 2 * x]]
<1>1. \A n \in Nat, x \in Nat : Step[n][x] \in Nat /\ Step[n][x] = 2 * x
  OBVIOUS
<1> HIDE DEF Step
<1>2. \E f : Recursive(f, Nat, 1, Step)
  <2>1. 1 \in Nat OBVIOUS
  <2>2. Step \in [Nat -> [Nat -> Nat]] BY DEF Step
  <2> QED BY <2>1, <2>2, RecursiveFunction, Zenon
<1> PICK f : Recursive(f, Nat, 1, Step)
  BY <1>2
<1>3. f \in [Nat -> Nat] /\ f[0] = 1 /\ \A n \in Nat : f[n + 1] = Step[n][f[n]]
  BY DEF Recursive
<1>4. \A n \in Nat : f[n] = IF n = 0 THEN 1 ELSE 2 * f[n - 1]
  <2> SUFFICES ASSUME NEW n \in Nat, n # 0 PROVE f[n] = 2 * f[n - 1]
    BY <1>3
  <2>1. n - 1 \in Nat /\ n - 1 + 1 = n
    OBVIOUS
  <2>2. f[n - 1 + 1] = Step[n - 1][f[n - 1]] /\ f[n - 1] \in Nat
    BY <1>3, <2>1
  <2> QED BY <1>1, <2>1, <2>2
<1>5. f = [n \in Nat |-> IF n = 0 THEN 1 ELSE 2 * f[n - 1]]
  BY <1>3, <1>4
<1>6. Pow2 = [n \in Nat |-> IF n = 0 THEN 1 ELSE 2 * Pow2[n - 1]]
  BY <1>5 DEF Pow2
<1>7. Pow2[0] = 1 /\ \A n \in Nat : Pow2[n + 1] = 2 * Pow2[n]
  BY <1>6
<1> DEFINE Natural == {n \in Nat : Pow2[n] \in Nat}
<1>8. 0 \in Natural /\ \A n \in Nat : n \in Natural => n + 1 \in Natural
  BY <1>7
<1> HIDE DEF Natural
<1>9. Nat \subseteq Natural
  BY <1>8, Induction
<1>10. \A n \in Nat : Pow2[n] \in Nat
  BY <1>9 DEF Natural
<1> QED BY <1>6, <1>7, <1>10

LEMMA PowersPositive == \A n \in Nat : Pow2[n] > 0
<1> DEFINE Positive == {n \in Nat : Pow2[n] > 0}
<1>1. 0 \in Positive /\ \A n \in Nat : n \in Positive => n + 1 \in Positive
  BY PowersOfTwo
<1> HIDE DEF Positive
<1>2. Nat \subseteq Positive
  BY <1>1, Induction
<1> QED BY <1>2 DEF Positive

LEMMA PowersMultiply == \A m \in Nat, n \in Nat : Pow2[m + n] = Pow2[m] * Pow2[n]
<1> SUFFICES ASSUME NEW m \in Nat PROVE \A n \in Nat : Pow2[m + n] = Pow2[m] * Pow2[n]
  OBVIOUS
<1> DEFINE Product == {n \in Nat : Pow2[m + n] = Pow2[m] * Pow2[n]}
<1>1. 0 \in Product
  BY PowersOfTwo
<1>2. ASSUME NEW n \in Nat, n \in Product PROVE n + 1 \in Product
  <2>1. Pow2[m + n] = Pow2[m] * Pow2[n]
    BY <1>2
  <2>2. Pow2[m + n + 1] = 2 * Pow2[m + n] /\ Pow2[n + 1] = 2 * Pow2[n]
    BY PowersOfTwo
  <2>3. \A x \in Nat, y \in Nat : 2 * (x * y) = x * (2 * y)
    OBVIOUS
  <2>4. Pow2[m] \in Nat /\ Pow2[n] \in Nat /\ m + (n + 1) = m + n + 1
    BY PowersOfTwo
  <2> QED BY <2>1, <2>2, <2>3, <2>4
<1> HIDE DEF Product
<1>3. Nat \subseteq Product
  BY <1>1, <1>2, Induction
<1> QED BY <1>3 DEF Product

\* Blocks divide the address space, and only the prefix 0 names the whole of it.
LEMMA BlockSizes ==
  ASSUME NEW prefix \in PrefixLengths
  PROVE  /\ W \in Nat \ {0} /\ BlockSize(prefix) \in Nat \ {0}
         /\ \E k \in Nat \ {0} : W = k * BlockSize(prefix)
         /\ prefix = 0 => BlockSize(prefix) = W
         /\ prefix > 0 => BlockSize(prefix) < W
         /\ prefix = Bits => BlockSize(prefix) = 1
<1>1. prefix \in Nat /\ Bits \in Nat /\ Bits - prefix \in Nat /\ prefix + (Bits - prefix) = Bits
  BY RangeAssumption DEF PrefixLengths
<1>2. W = Pow2[prefix] * BlockSize(prefix)
  BY <1>1, PowersMultiply DEF W, BlockSize
<1>3. W \in Nat \ {0} /\ BlockSize(prefix) \in Nat \ {0} /\ Pow2[prefix] \in Nat \ {0}
  BY <1>1, PowersOfTwo, PowersPositive DEF W, BlockSize
<1>4. prefix > 0 => Pow2[prefix] >= 2
  <2> SUFFICES ASSUME prefix > 0 PROVE Pow2[prefix] >= 2
    OBVIOUS
  <2>1. prefix - 1 \in Nat /\ prefix - 1 + 1 = prefix
    BY <1>1
  <2>2. Pow2[prefix] = 2 * Pow2[prefix - 1] /\ Pow2[prefix - 1] \in Nat /\ Pow2[prefix - 1] > 0
    BY <2>1, PowersOfTwo, PowersPositive
  <2> QED BY <2>2
<1>5. \A x \in Nat, y \in Nat \ {0} : x >= 2 => y < x * y
  <2> SUFFICES ASSUME NEW x \in Nat, NEW y \in Nat \ {0}, x >= 2 PROVE y < x * y
    OBVIOUS
  <2>1. 2 * y <= x * y
    OBVIOUS
  <2> QED BY <2>1
<1>6. prefix > 0 => BlockSize(prefix) < W
  BY <1>2, <1>3, <1>4, <1>5
<1>7. prefix = 0 => BlockSize(prefix) = W
  BY <1>1 DEF BlockSize, W
<1>8. prefix = Bits => BlockSize(prefix) = 1
  BY <1>1, PowersOfTwo DEF BlockSize
<1> QED BY <1>2, <1>3, <1>6, <1>7, <1>8

\* a / s is the number of the block of size s that a lies in.
LEMMA Division ==
  ASSUME NEW s \in Nat \ {0}, NEW a \in Nat
  PROVE  /\ a \div s \in Nat /\ a = s * (a \div s) + (a % s) /\ a % s \in 0 .. s - 1
         /\ \A q \in Nat : a \div s = q <=> s * q <= a /\ a < s * q + s
OBVIOUS

\* A block is an interval that does not wrap: from And to OrNot of any of its addresses.
LEMMA BlockBounds ==
  ASSUME NEW prefix \in PrefixLengths, NEW a \in Addresses
  PROVE  /\ And(a, prefix) \in Nat
         /\ And(a, prefix) + BlockSize(prefix) <= W
         /\ OrNot(a, prefix) \in Addresses
         /\ Block(a, prefix) = And(a, prefix) .. OrNot(a, prefix)
<1> DEFINE size == BlockSize(prefix)
           q == a \div size
<1>1. size \in Nat \ {0} /\ W \in Nat \ {0} /\ a \in Nat /\ a < W
  BY BlockSizes DEF Addresses
<1>2. PICK k \in Nat \ {0} : W = k * size
  BY BlockSizes
<1> HIDE DEF size
<1>3. q \in Nat /\ a = size * q + (a % size) /\ size * q <= a /\ And(a, prefix) = size * q
  <2>1. And(a, prefix) = a - (a % size)
    BY DEF And, size
  <2>2. q \in Nat /\ a = size * q + (a % size) /\ a % size \in 0 .. size - 1
    BY <1>1, Division
  <2> HIDE DEF q
  <2>3. size * q \in Nat
    BY <1>1, <2>2
  <2> QED BY <1>1, <2>1, <2>2, <2>3
<1> HIDE DEF q
<1>4. q + 1 <= k
  <2>1. \A x \in Nat, y \in Nat, z \in Nat \ {0} : x >= y => x * z >= y * z
    OBVIOUS
  <2>2. SUFFICES ASSUME q >= k PROVE FALSE
    BY <1>2, <1>3
  <2>3. q * size >= k * size
    BY <1>1, <1>2, <1>3, <2>1, <2>2
  <2> QED BY <1>1, <1>2, <1>3, <2>3
<1>5. size * q + size <= W
  <2>1. \A x \in Nat, y \in Nat, z \in Nat \ {0} : x + 1 <= y => z * x + z <= y * z
    OBVIOUS
  <2> QED BY <1>1, <1>2, <1>3, <1>4, <2>1
<1>6. And(a, prefix) \in Nat /\ And(a, prefix) + size <= W /\ OrNot(a, prefix) \in Addresses
  BY <1>1, <1>3, <1>5 DEF OrNot, size, Addresses
<1>7. \A b \in Addresses : b \div size = q <=> size * q <= b /\ b < size * q + size
  <2> SUFFICES ASSUME NEW b \in Addresses
               PROVE  b \div size = q <=> size * q <= b /\ b < size * q + size
    OBVIOUS
  <2>1. b \in Nat
    BY <1>1 DEF Addresses
  <2> QED BY <1>1, <1>3, <2>1, Division
<1>8. Block(a, prefix) = {b \in Addresses : size * q <= b /\ b < size * q + size}
  BY <1>7 DEF Block, size, q
<1>9. Block(a, prefix) = And(a, prefix) .. OrNot(a, prefix)
  BY <1>1, <1>3, <1>5, <1>8 DEF OrNot, size, Addresses
<1> QED BY <1>6, <1>9 DEF size

-----------------------------------------------------------------------------
(* The interface of the default route                                      *)

\* The loop over getifaddrs stops at the first interface that matches, if one does.
LEMMA FirstMatching ==
  ASSUME interfaces \in Seq(Interface)
  PROVE  \/ Matching = 0 /\ \A i \in DOMAIN interfaces : ~ Matches(interfaces[i])
         \/ /\ Matching \in DOMAIN interfaces /\ Matching # 0
            /\ Matches(interfaces[Matching])
            /\ \A j \in 1 .. Matching - 1 : ~ Matches(interfaces[j])
<1> DEFINE I == {i \in 1 .. Len(interfaces) : Matches(interfaces[i])}
<1>1. Len(interfaces) \in Nat /\ DOMAIN interfaces = 1 .. Len(interfaces) /\ I \subseteq Nat
  BY LenProperties
<1>2. Matching = IF I # {} THEN CHOOSE m \in I : \A k \in I : m <= k ELSE 0
  BY DEF Matching, SelectInSeq, Min
<1>3. CASE I = {}
  BY <1>1, <1>2, <1>3
<1>4. CASE I # {}
  <2> HIDE DEF I
  <2>1. \E m \in I : \A k \in I : m <= k
    BY <1>1, <1>4, LeastNumber
  <2>2. Matching \in I /\ \A k \in I : Matching <= k
    BY <1>2, <1>4, <2>1
  <2>3. Matching \in 1 .. Len(interfaces) /\ Matches(interfaces[Matching])
    BY <2>2 DEF I
  <2>4. \A j \in 1 .. Matching - 1 : j \in 1 .. Len(interfaces) /\ j \notin I
    BY <1>1, <2>2, <2>3
  <2> QED BY <1>1, <2>3, <2>4 DEF I
<1> QED BY <1>3, <1>4

LEMMA FirstIsMatching ==
  ASSUME interfaces \in Seq(Interface)
  PROVE  \A i \in DOMAIN interfaces : IsFirst(i) <=> i = Matching
<1>1. Len(interfaces) \in Nat /\ DOMAIN interfaces = 1 .. Len(interfaces)
  BY LenProperties
<1>2. CASE Matching = 0
  BY <1>1, <1>2, FirstMatching DEF IsFirst
<1>3. CASE Matching # 0
  <2>1. /\ Matching \in DOMAIN interfaces /\ Matches(interfaces[Matching])
        /\ \A j \in 1 .. Matching - 1 : ~ Matches(interfaces[j])
    BY <1>3, FirstMatching
  <2>2. ASSUME NEW i \in DOMAIN interfaces, IsFirst(i) PROVE i = Matching
    <3>1. i \in Nat /\ Matching \in Nat /\ i >= 1 /\ Matching >= 1
      BY <1>1, <2>1
    <3>2. ~ (i < Matching) /\ ~ (Matching < i)
      BY <2>1, <2>2, <3>1 DEF IsFirst
    <3> QED BY <3>1, <3>2
  <2> QED BY <2>1, <2>2 DEF IsFirst
<1> QED BY <1>2, <1>3

-----------------------------------------------------------------------------
(* The range of the sweep                                                  *)

\* What parse_cidr and fetch have computed.
ParsedTarget ==
  /\ base_ip = And(target.addr, target.prefix)
  /\ total_hosts = Count(target.prefix)
FetchedInterface == interface = IF Matching = 0 THEN NoInterface ELSE Describe(interfaces[Matching])

\* The part of the inductive invariant that is about the range.
RangeInv ==
  /\ target \in [addr : Addresses, prefix : 0 .. Bits + 1]
  /\ interfaces \in Seq(Interface)
  /\ pc \in {"fetch", "ready"} => target.prefix \in PrefixLengths /\ ParsedTarget
  /\ pc = "ready" => FetchedInterface

LEMMA RangeInvariant == Spec => []RangeInv
<1>1. Init => RangeInv
  BY RangeAssumption DEF Init, Inputs, RangeInv
<1>2. RangeInv /\ [Next]_vars => RangeInv'
  <2> SUFFICES ASSUME RangeInv, [Next]_vars PROVE RangeInv'
    OBVIOUS
  <2>1. CASE ParseCidr
    <3>1. target.prefix \in PrefixLengths
      BY <2>1, RangeAssumption DEF RangeInv, ParseCidr, PrefixLengths
    <3> QED BY <2>1, <3>1 DEF RangeInv, ParseCidr, ParsedTarget
  <2>2. CASE Reject
    BY <2>2 DEF RangeInv, Reject
  <2>3. CASE Fetch
    <3>1. Matching' = Matching
      BY <2>3 DEF Fetch, Matching, Matches, SelectInSeq
    <3>2. FetchedInterface' /\ target.prefix \in PrefixLengths /\ ParsedTarget'
      BY <2>3, <3>1 DEF RangeInv, Fetch, FetchedInterface, ParsedTarget, Describe, Overlaps, TargetEnd
    <3> QED BY <2>3, <3>2 DEF RangeInv, Fetch
  <2>4. CASE UNCHANGED vars
    <3>1. Matching' = Matching
      BY <2>4 DEF vars, Matching, Matches, SelectInSeq
    <3> QED BY <2>4, <3>1 DEF vars, RangeInv, FetchedInterface, ParsedTarget, Describe, Overlaps, TargetEnd
  <2> QED BY <2>1, <2>2, <2>3, <2>4 DEF Next, Done
<1> QED BY <1>1, <1>2, PTL DEF Spec

\* The range is an interval of addresses, which for the prefix 0 is empty.
LEMMA TargetInterval ==
  ASSUME target.addr \in Addresses, target.prefix \in PrefixLengths, ParsedTarget
  PROVE  /\ base_ip \in Nat /\ total_hosts \in Nat /\ base_ip + total_hosts <= W
         /\ Targets = base_ip .. base_ip + total_hosts - 1
         /\ Targets = IF target.prefix = 0 THEN {} ELSE Block(target.addr, target.prefix)
         /\ Targets # {} => TargetEnd = base_ip + total_hosts - 1
<1> DEFINE a == target.addr
           p == target.prefix
           size == BlockSize(p)
<1>1. /\ And(a, p) \in Nat /\ And(a, p) + size <= W
      /\ Block(a, p) = And(a, p) .. And(a, p) + size - 1
  BY BlockBounds DEF OrNot
<1>2. /\ W \in Nat \ {0} /\ size \in Nat \ {0} /\ p \in Nat
      /\ p = 0 => size = W
      /\ p > 0 => size < W
      /\ p = Bits => size = 1
  BY BlockSizes DEF PrefixLengths
<1> HIDE DEF size
<1>3. p = 0 => total_hosts = 0
  BY <1>2, RangeAssumption DEF ParsedTarget, Count, size
<1>4. p # 0 => total_hosts = size
  <2>1. \A x \in Nat, y \in Nat \ {0} : x < y => x % y = x
    OBVIOUS
  <2> QED BY <1>2, <2>1 DEF ParsedTarget, Count, size
<1>5. base_ip = And(a, p)
  BY DEF ParsedTarget
<1>6. base_ip \in Nat /\ total_hosts \in Nat /\ base_ip + total_hosts <= W
  BY <1>1, <1>2, <1>3, <1>4, <1>5
<1>7. \A i \in 0 .. total_hosts - 1 : (base_ip + i) % W = base_ip + i
  <2>1. \A x \in Nat, y \in Nat \ {0} : x < y => x % y = x
    OBVIOUS
  <2> QED BY <1>2, <1>6, <2>1
<1>8. Targets = base_ip .. base_ip + total_hosts - 1
  <2>1. Targets = {base_ip + i : i \in 0 .. total_hosts - 1}
    BY <1>7 DEF Targets
  <2>2. \A b \in base_ip .. base_ip + total_hosts - 1 :
          b - base_ip \in 0 .. total_hosts - 1 /\ base_ip + (b - base_ip) = b
    BY <1>6
  <2>3. \A i \in 0 .. total_hosts - 1 : base_ip + i \in base_ip .. base_ip + total_hosts - 1
    BY <1>6
  <2> QED BY <2>1, <2>2, <2>3
<1>9. Targets = IF p = 0 THEN {} ELSE Block(a, p)
  <2>1. p = 0 => Targets = {}
    BY <1>3, <1>6, <1>8
  <2>2. p # 0 => Targets = Block(a, p)
    BY <1>1, <1>4, <1>5, <1>8
  <2> QED BY <2>1, <2>2
<1>10. Targets # {} => TargetEnd = base_ip + total_hosts - 1
  <2>1. SUFFICES ASSUME Targets # {} PROVE TargetEnd = base_ip + total_hosts - 1
    OBVIOUS
  <2>2. total_hosts # 0 /\ total_hosts - 1 \in 0 .. total_hosts - 1
    BY <1>6, <1>8, <2>1
  <2>3. (base_ip + (total_hosts - 1)) % W = base_ip + (total_hosts - 1)
    BY <1>7, <2>2
  <2>4. base_ip + (total_hosts - 1) = base_ip + total_hosts - 1
    BY <1>6
  <2> QED BY <2>2, <2>3, <2>4 DEF TargetEnd
<1> QED BY <1>6, <1>8, <1>9, <1>10

\* For every width of addresses parse_cidr hands on exactly the block the argument
\* names, each address once, but for the prefix 0, of which it hands on nothing.
THEOREM RangeIsTheBlock == Spec => []RangeIsBlock
<1>1. RangeInv => RangeIsBlock
  BY TargetInterval DEF RangeInv, RangeIsBlock
<1> QED BY <1>1, RangeInvariant, PTL

-----------------------------------------------------------------------------
(* The machine's own subnet                                                *)

\* An interface that matches spans the block of its address.
LEMMA DescribedBlock ==
  ASSUME NEW ifa \in Interface
  PROVE  /\ And(ifa.addr, ifa.prefix) \in Nat /\ OrNot(ifa.addr, ifa.prefix) \in Nat
         /\ And(ifa.addr, ifa.prefix) <= OrNot(ifa.addr, ifa.prefix)
         /\ Block(ifa.addr, ifa.prefix) =
              And(ifa.addr, ifa.prefix) .. OrNot(ifa.addr, ifa.prefix)
<1>1. ifa.addr \in Addresses /\ ifa.prefix \in PrefixLengths
  BY DEF Interface
<1>2. BlockSize(ifa.prefix) \in Nat \ {0}
  BY <1>1, BlockSizes
<1> QED BY <1>1, <1>2, BlockBounds DEF OrNot

\* Two intervals meet if each begins before the other ends.
LEMMA OverlapsIsMeeting ==
  ASSUME target.addr \in Addresses, target.prefix \in PrefixLengths, ParsedTarget, Targets # {},
         NEW ifa \in Interface
  PROVE  Overlaps(And(ifa.addr, ifa.prefix), OrNot(ifa.addr, ifa.prefix)) <=>
           Targets \cap Block(ifa.addr, ifa.prefix) # {}
<1> DEFINE first == And(ifa.addr, ifa.prefix)
           last == OrNot(ifa.addr, ifa.prefix)
<1>1. first \in Nat /\ last \in Nat /\ first <= last /\ Block(ifa.addr, ifa.prefix) = first .. last
  BY DescribedBlock
<1>2. /\ base_ip \in Nat /\ total_hosts \in Nat
      /\ Targets = base_ip .. base_ip + total_hosts - 1
      /\ TargetEnd = base_ip + total_hosts - 1
  BY TargetInterval
<1> HIDE DEF first, last
<1>3. ASSUME Overlaps(first, last) PROVE \E b \in Targets : b \in first .. last
  <2>1. CASE base_ip <= first
    <3>1. first \in Targets
      BY <1>1, <1>2, <1>3, <2>1 DEF Overlaps
    <3> QED BY <1>1, <3>1
  <2>2. CASE first < base_ip
    <3>1. base_ip \in Targets /\ base_ip \in first .. last
      BY <1>1, <1>2, <1>3, <2>2 DEF Overlaps
    <3> QED BY <3>1
  <2> QED BY <1>1, <1>2, <2>1, <2>2
<1>4. ASSUME NEW b \in Targets, b \in first .. last PROVE Overlaps(first, last)
  BY <1>1, <1>2, <1>4 DEF Overlaps
<1>5. Overlaps(first, last) <=> Targets \cap (first .. last) # {}
  BY <1>3, <1>4
<1> QED BY <1>1, <1>5 DEF first, last

\* is_local is right for every range and every list of interfaces, whichever of range
\* and subnet lies within the other.
THEOREM LocalMeetsSubnet == Spec => []LocalIsOverlap
<1>1. RangeInv => LocalIsOverlap
  <2> SUFFICES ASSUME RangeInv, pc = "ready", Targets # {}
               PROVE  interface.is_local <=>
                        \E i \in DOMAIN interfaces : IsFirst(i) /\ Targets \cap Subnet(i) # {}
    BY DEF LocalIsOverlap
  <2>1. /\ target.addr \in Addresses /\ target.prefix \in PrefixLengths /\ ParsedTarget
        /\ interfaces \in Seq(Interface) /\ FetchedInterface
    BY DEF RangeInv
  <2>2. CASE Matching = 0
    <3>1. \A i \in DOMAIN interfaces : ~ IsFirst(i)
      BY <2>1, <2>2, FirstMatching DEF IsFirst
    <3> QED BY <2>1, <2>2, <3>1 DEF FetchedInterface, NoInterface
  <2>3. CASE Matching # 0
    <3> DEFINE ifa == interfaces[Matching]
    <3>1. Matching \in DOMAIN interfaces /\ ifa \in Interface
      BY <2>1, <2>3, FirstMatching, ElementOfSeq, LenProperties
    <3>2. interface.is_local <=> Overlaps(And(ifa.addr, ifa.prefix), OrNot(ifa.addr, ifa.prefix))
      BY <2>1, <2>3 DEF FetchedInterface, Describe
    <3>3. interface.is_local <=> Targets \cap Subnet(Matching) # {}
      BY <2>1, <3>1, <3>2, OverlapsIsMeeting DEF Subnet
    <3> QED BY <2>1, <3>1, <3>3, FirstIsMatching
  <2> QED BY <2>2, <2>3
<1> QED BY <1>1, RangeInvariant, PTL

\* Of the range just the ends of the machine's own subnet are skipped.
LEMMA EndsSkipped ==
  ASSUME target.addr \in Addresses, target.prefix \in PrefixLengths, ParsedTarget,
         interfaces \in Seq(Interface), FetchedInterface
  PROVE  \A a \in Targets : a \in Skipped <=> a \in SubnetEnds
<1>1. CASE Matching = 0
  <2>1. \A i \in DOMAIN interfaces : ~ IsFirst(i)
    BY <1>1, FirstMatching DEF IsFirst
  <2>2. SubnetEnds = {} /\ ~ interface.is_local
    BY <1>1, <2>1 DEF SubnetEnds, FetchedInterface, NoInterface
  <2> QED BY <2>2 DEF Skipped
<1>2. CASE Matching # 0
  <2> DEFINE ifa == interfaces[Matching]
             first == And(ifa.addr, ifa.prefix)
             last == OrNot(ifa.addr, ifa.prefix)
  <2>1. Matching \in DOMAIN interfaces /\ ifa \in Interface
    BY <1>2, FirstMatching, ElementOfSeq, LenProperties
  <2>2. /\ first \in Nat /\ last \in Nat /\ first <= last
        /\ Subnet(Matching) = first .. last
    BY <2>1, DescribedBlock DEF Subnet
  <2>3. interface = [network_ip |-> first, broadcast_ip |-> last,
                     is_local |-> Overlaps(first, last)]
    BY <1>2 DEF FetchedInterface, Describe
  <2>4. Targets # {} => (Overlaps(first, last) <=> Targets \cap Subnet(Matching) # {})
    BY <2>1, OverlapsIsMeeting DEF Subnet
  <2>5. Subnet(Matching) \subseteq Addresses
    BY DEF Subnet, Block
  <2> HIDE DEF first, last
  <2>6. SubnetEnds = {a \in Addresses :
          /\ a \in first .. last
          /\ (\A b \in first .. last : a <= b) \/ (\A b \in first .. last : b <= a)}
    BY <2>1, <2>2, FirstIsMatching DEF SubnetEnds
  <2>7. SubnetEnds = {first, last}
    <3>1. first \in first .. last /\ last \in first .. last
      BY <2>2
    <3>2. first \in SubnetEnds /\ last \in SubnetEnds
      BY <2>2, <2>5, <2>6, <3>1
    <3>3. ASSUME NEW a \in SubnetEnds PROVE a = first \/ a = last
      <4>1. a \in first .. last /\ (a <= first \/ last <= a)
        BY <2>6, <3>1
      <4> QED BY <2>2, <4>1
    <3> QED BY <3>2, <3>3
  <2>8. Skipped = IF Overlaps(first, last) THEN {first, last} ELSE {}
    BY <2>3 DEF Skipped
  <2>9. ASSUME NEW a \in Targets, a \in {first, last} PROVE Overlaps(first, last)
    BY <2>2, <2>4, <2>9
  <2> QED BY <2>7, <2>8, <2>9
<1> QED BY <1>1, <1>2

\* Whatever the width of the addresses, the range and the interfaces are, the machine's
\* own network and broadcast addresses are left out of the range, and no others.
THEOREM EndsAreSkipped == Spec => []SkippedAreEnds
<1>1. RangeInv => SkippedAreEnds
  <2> SUFFICES ASSUME RangeInv, pc = "ready", NEW a \in Targets
               PROVE  a \notin Probed <=> a \in SubnetEnds
    BY DEF SkippedAreEnds
  <2>1. a \in Skipped <=> a \in SubnetEnds
    BY EndsSkipped DEF RangeInv
  <2> QED BY <2>1 DEF Probed
<1> QED BY <1>1, RangeInvariant, PTL
=============================================================================
