------------------------------ MODULE MCNetscan ------------------------------
(* Small instances of Netscan for TLC: addresses of three bits.            *)
EXTENDS Netscan

Lan == {"UP", "BROADCAST"}
Nic(addr, prefix, flags) == [addr |-> addr, prefix |-> prefix, flags |-> flags]

\* No interface; one whose subnet is inside, across or around the targets, or that is
\* passed over; two with a subnet each.
Machines ==
  {<<>>, <<Nic(3, 1, Lan)>>, <<Nic(6, 2, Lan)>>, <<Nic(5, 1, {"UP"})>>,
   <<Nic(1, 1, Lan), Nic(5, 1, Lan)>>}

\* The default route uses the first interface; the second has a subnet of its own.
TwoInterfaces == {<<Nic(1, 1, Lan), Nic(5, 1, Lan)>>}
=============================================================================
