---------------------------- MODULE MCTargetRange ----------------------------
(* Small instances of TargetRange for TLC: addresses of three bits.        *)
EXTENDS TargetRange

Lan == {"UP", "BROADCAST"}

Of(addrs, prefixes, flags) ==
  {<<[addr |-> a, prefix |-> p, flags |-> f]>> : a \in addrs, p \in prefixes, f \in flags}

\* Any one interface, usable or not.
OneInterface ==
  {<<>>} \cup Of(0 .. 7, 0 .. 3, {Lan, {"UP"}, {"UP", "LOOPBACK"}})

\* Two interfaces, the second with a subnet of its own.
TwoInterfaces ==
  {<<[addr |-> 1, prefix |-> 1, flags |-> Lan], [addr |-> 5, prefix |-> 1, flags |-> Lan]>>}

\* One interface, or two of which the first may be passed over.
Machines ==
  OneInterface \cup
  {<<[addr |-> a, prefix |-> p, flags |-> f], [addr |-> 5, prefix |-> q, flags |-> Lan]>> :
     a \in {1, 5}, p \in 1 .. 3, q \in 1 .. 3, f \in {Lan, {"BROADCAST"}}}

\* An interface with no room for a network and a broadcast address: a /31 or a /32.
PointInterface == Of({5}, {2, 3}, {Lan})
=============================================================================
