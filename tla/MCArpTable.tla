----------------------------- MODULE MCArpTable -----------------------------
(* Small instances of ArpTable for TLC.                                    *)
EXTENDS ArpTable

CONSTANTS mac1, mac2

TwoMacs == {mac1, mac2}

\* Address 3 is a multicast address.
Multicast == {3}

R(ip, mac, state) == [ip |-> ip, mac |-> mac, state |-> state]

\* Three rows in a table, every sort of row in one of them.
SmallTables ==
  {<<>>,
   <<R(1, mac1, "valid"), R(2, mac1, "valid"), R(3, mac1, "valid")>>,
   <<R(1, ZeroMac, "valid"), R(2, mac1, "valid"), R(4, ShortMac, "valid")>>,
   <<R(1, mac1, "failed"), R(2, mac1, "valid"), R(4, mac1, "incomplete")>>}

\* A host comes up, changes its address, or is resolved at last.
Newcomers == {R(5, mac1, "valid"), R(1, mac2, "valid"), R(4, mac2, "valid")}
=============================================================================
