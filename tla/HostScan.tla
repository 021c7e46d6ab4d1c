------------------------------ MODULE HostScan ------------------------------
(***************************************************************************)
(* What a sweep promises, whatever it probes with: every host of the range *)
(* is settled exactly once - left out, answered, or given up on - with at  *)
(* most Limit probes under way, and an answer once reported stays          *)
(* reported.  PingScanner and TcpScanner are shown to implement it.        *)
(***************************************************************************)
EXTENDS Integers, FiniteSets

CONSTANTS
  Hosts,      \* the addresses of the CIDR range
  Reserved,   \* those never probed: network and broadcast of the local subnet
  Limit,      \* the most probes under way at a time
  MayAbandon  \* the sweep may break off

VARIABLES
  status,   \* what became of each host so far
  phase     \* "running", "finished" or "abandoned"

HostsIn(state) == {h \in Hosts : status[h] = state}

\* The hosts of S move on to the given state.
Become(S, state) == status' = [h \in Hosts |-> IF h \in S THEN state ELSE status[h]]

Init ==
  /\ status = [h \in Hosts |-> IF h \in Reserved THEN "skipped" ELSE "pending"]
  /\ phase = "running"

\* A probe is sent to a host nobody asked before.
Probe(h) ==
  /\ status[h] = "pending"
  /\ Cardinality(HostsIn("inflight")) < Limit
  /\ Become({h}, "inflight")
  /\ UNCHANGED phase

\* A host that cannot be asked, or turns out unreachable, is let go.
Skip(h) ==
  /\ status[h] \in {"pending", "inflight"}
  /\ Become({h}, "skipped")
  /\ UNCHANGED phase

\* A host answers: in time, or after its probe was given up.
Report(h) ==
  /\ status[h] \in {"inflight", "expired"}
  /\ Become({h}, "reported")
  /\ UNCHANGED phase

\* Probes run into the timeout.
Expire(S) ==
  /\ S # {}
  /\ S \subseteq HostsIn("inflight")
  /\ Become(S, "expired")
  /\ UNCHANGED phase

\* The sweep breaks off: probes that never left are taken back.
Abandon(S) ==
  /\ MayAbandon
  /\ S \subseteq HostsIn("inflight")
  /\ Become(S, "pending")
  /\ phase' = "abandoned"

\* The sweep ends once every host is settled.
Finish ==
  /\ HostsIn("pending") \cup HostsIn("inflight") = {}
  /\ phase' = "finished"
  /\ UNCHANGED status

Next ==
  /\ phase = "running"
  /\ \/ \E h \in Hosts : Probe(h) \/ Skip(h) \/ Report(h)
     \/ \E S \in SUBSET HostsIn("inflight") : Expire(S) \/ Abandon(S)
     \/ Finish

Spec == Init /\ [][Next]_<<status, phase>>
=============================================================================
