------------------------------ MODULE ArpTable ------------------------------
(***************************************************************************)
(* get_arp_table (src/src/arp_table.cpp): one thread that asks the kernel  *)
(* for its neighbour table over netlink and reads the dump, datagram by    *)
(* datagram and message by message.                                        *)
(*                                                                         *)
(* The kernel's side is external, modelled from what the code sends and    *)
(* expects: the dump is cut out of the live table while the thread reads   *)
(* it, from a position the kernel keeps between two datagrams.  An IP      *)
(* address is a number, a link layer address a model value; the index and  *)
(* name of the interface are left out.                                     *)
(***************************************************************************)
EXTENDS Integers, Sequences, FiniteSets, SequencesExt

CONSTANTS
  Groups,        \* multicast addresses and 255.255.255.255
  Macs,          \* link layer addresses of six bytes, but for the zero one
  ZeroMac,       \* 00:00:00:00:00:00
  ShortMac,      \* stands for link layer addresses of less than six bytes
  Tables,        \* external: neighbour tables at the time of the request
  Arrivals,      \* external: rows that may turn up during the dump
  MaxChanges,    \* bound: changes of the table during the dump
  KernelFaults   \* external: system calls and the dump itself may fail

NoIp == 0   \* 0.0.0.0: no address was read

\* The kernel gives the link layer address of a "valid" row only.
RowStates == {"valid", "incomplete", "failed"}
Row == [ip : Nat, mac : Macs \cup {ZeroMac, ShortMac}, state : RowStates]

ASSUME ArpAssumption ==
  /\ Groups \subseteq Nat
  /\ {ZeroMac, ShortMac} \cap Macs = {} /\ ZeroMac # ShortMac
  /\ Arrivals \subseteq Row
  /\ Tables \subseteq Seq(Row)
  /\ MaxChanges \in Nat
  /\ KernelFaults \in BOOLEAN

VARIABLES
  pc,        \* "socket", "send", "recv", "parse" or "returned"
  entries,   \* what the function returns: sequence of [ip, mac]
  inbox,     \* messages of the last datagram not yet parsed
  sock,      \* external: the descriptor, "none", "open" or "closed"
  closes,    \* external: calls of close on it
  table,     \* external: the kernel's neighbour table
  dump,      \* external: "none", "running", "complete" or "broken"
  cursor,    \* external: where in the table the dump goes on
  queue,     \* external: datagrams waiting in the socket, each a sequence of messages
  changes,   \* external: how often the table was changed, by kind
  cached,    \* history: rows that were in the table at some time of the dump
  stable,    \* history: rows that were in the table all the time of the dump
  finished   \* history: the parser met the end of the dump

threadVars == <<pc, entries, inbox, sock, closes, finished>>
kernelVars == <<table, dump, cursor, queue, changes, cached, stable>>
vars == <<threadVars, kernelVars>>

NoChange == [removed |-> 0, inserted |-> 0, altered |-> 0]
Changed == changes.removed + changes.inserted + changes.altered

Init ==
  /\ pc = "socket"
  /\ entries = <<>>
  /\ inbox = <<>>
  /\ sock = "none"
  /\ closes = 0
  /\ table \in Tables
  /\ dump = "none"
  /\ cursor = 1
  /\ queue = <<>>
  /\ changes = NoChange
  /\ cached = {} /\ stable = {}
  /\ finished = FALSE

-----------------------------------------------------------------------------
(* Messages                                                                *)

Bare(type) == [type |-> type, incomplete |-> FALSE, attributes |-> <<>>]

NewNeighbour(row) ==
  [type |-> "NEWNEIGH",
   incomplete |-> row.state = "incomplete",
   attributes |-> <<[type |-> "DST", value |-> row.ip]>> \o
     (IF row.state = "valid" THEN <<[type |-> "LLADDR", value |-> row.mac]>> ELSE <<>>)]

\* One attribute: a link layer address that is too short ends the reading.
ReadAttribute(read, attribute) ==
  CASE ~ read.stopped /\ attribute.type = "DST" -> [read EXCEPT !.ip = attribute.value]
    [] ~ read.stopped /\ attribute.type = "LLADDR" ->
         IF attribute.value = ShortMac THEN [read EXCEPT !.stopped = TRUE]
         ELSE [read EXCEPT !.mac = attribute.value]
    [] OTHER -> read

MutParse(attributes) ==   \* mutant: a short address is taken as it is
  FoldLeft(LAMBDA read, a : [read EXCEPT ![IF a.type = "DST" THEN "ip" ELSE "mac"] = a.value],
           [ip |-> NoIp, mac |-> ZeroMac, stopped |-> FALSE], attributes)
parse_netlink_attributes(attributes) ==
  FoldLeft(ReadAttribute, [ip |-> NoIp, mac |-> ZeroMac, stopped |-> FALSE], attributes)

MutSkips(message, read) ==   \* mutant: groups are listed
  read.ip = NoIp \/ message.incomplete \/ read.mac = ZeroMac
Skips(message, read) ==
  \/ read.ip = NoIp
  \/ message.incomplete \/ read.mac = ZeroMac
  \/ read.ip \in Groups

-----------------------------------------------------------------------------
(* get_arp_table                                                           *)

Close == sock' = "closed" /\ closes' = closes + 1

OpenSocket ==
  /\ pc = "socket"
  /\ \/ sock' = "open" /\ pc' = "send"
     \/ KernelFaults /\ sock' = sock /\ pc' = "returned"
  /\ UNCHANGED <<entries, inbox, closes, finished, kernelVars>>

\* The request starts the dump, or is refused with an error message.
SendRequest ==
  /\ pc = "send"
  /\ pc' = "recv"
  /\ cached' = Range(table) /\ stable' = Range(table)
  /\ \/ dump' = "running" /\ queue' = queue
     \/ KernelFaults /\ dump' = "broken" /\ queue' = <<<<Bare("ERROR")>>>>
  /\ UNCHANGED <<entries, inbox, sock, closes, finished, table, cursor, changes>>

SendFails ==
  /\ pc = "send" /\ KernelFaults
  /\ Close
  /\ pc' = "returned"
  /\ UNCHANGED <<entries, inbox, finished, kernelVars>>

MutMessages(datagram) == Tail(datagram)   \* mutant: the loop starts one message late
Messages(datagram) == datagram

\* recvmsg blocks until there is a datagram; EINTR goes round the loop unchanged.
Receive ==
  /\ pc = "recv" /\ queue # <<>>
  /\ inbox' = Messages(Head(queue))
  /\ queue' = Tail(queue)
  /\ pc' = "parse"
  /\ UNCHANGED <<entries, sock, closes, finished, table, dump, cursor, changes, cached,
                 stable>>

MutStopReceiving == pc' = "returned" /\ UNCHANGED <<sock, closes>>   \* mutant: no close
StopReceiving == pc' = "returned" /\ Close

\* recvmsg fails (say ENOBUFS), or its datagram is longer than the buffer.
ReceiveFails ==
  /\ pc = "recv" /\ KernelFaults
  /\ StopReceiving
  /\ \/ queue' = queue
     \/ queue # <<>> /\ queue' = Tail(queue)
  /\ UNCHANGED <<entries, inbox, finished, table, dump, cursor, changes, cached, stable>>

NextMessage ==
  /\ pc = "parse" /\ inbox # <<>>
  /\ inbox' = Tail(inbox)
  /\ UNCHANGED kernelVars

\* Another type of message, or another address family.
PassOver ==
  /\ NextMessage
  /\ Head(inbox).type = "OTHER"
  /\ UNCHANGED <<pc, entries, sock, closes, finished>>

ParseNeighbour ==
  /\ NextMessage
  /\ Head(inbox).type = "NEWNEIGH"
  /\ LET read == parse_netlink_attributes(Head(inbox).attributes) IN
       entries' = IF Skips(Head(inbox), read) THEN entries
                  ELSE Append(entries, [ip |-> read.ip, mac |-> read.mac])
  /\ UNCHANGED <<pc, sock, closes, finished>>

MutStopParsing == pc' = "recv" /\ UNCHANGED <<sock, closes>>   \* mutant: reads on after DONE
StopParsing == pc' = "returned" /\ Close

\* DONE or an error: the parser closes the socket, and the loop returns at once.
ParseEnd ==
  /\ NextMessage
  /\ Head(inbox).type \in {"DONE", "ERROR"}
  /\ StopParsing
  /\ finished' = TRUE
  /\ UNCHANGED entries

DatagramDone ==
  /\ pc = "parse" /\ inbox = <<>>
  /\ pc' = "recv"
  /\ UNCHANGED <<entries, inbox, sock, closes, finished, kernelVars>>

Thread ==
  \/ OpenSocket \/ SendRequest \/ Receive
  \/ PassOver \/ ParseNeighbour \/ ParseEnd \/ DatagramDone

Faults == SendFails \/ ReceiveFails

-----------------------------------------------------------------------------
(* The kernel                                                              *)

Rest == SubSeq(table, cursor, Len(table))
Dumped(k) == [i \in 1 .. k |-> NewNeighbour(Rest[i])]

\* The next datagram: rows from the cursor on, and DONE where they end - with the
\* last rows or behind them, or too early when the dump breaks off.
FillDatagram ==
  /\ dump = "running" /\ queue = <<>>
  /\ \E k \in 0 .. Len(Rest), end \in {<<>>, <<Bare("DONE")>>},
        noise \in IF KernelFaults THEN {<<>>, <<Bare("OTHER")>>} ELSE {<<>>} :
       /\ k > 0 \/ end # <<>>
       /\ queue' = <<noise \o Dumped(k) \o end>>
       /\ cursor' = cursor + k
       /\ dump' = IF end = <<>> THEN "running"
                  ELSE IF k = Len(Rest) THEN "complete" ELSE "broken"
       /\ dump' = "broken" => KernelFaults
  /\ UNCHANGED <<table, changes, cached, stable>>

Becomes(rows, kind) ==
  /\ dump = "running" /\ Changed < MaxChanges
  /\ table' = rows
  /\ changes' = [changes EXCEPT ![kind] = @ + 1]
  /\ cached' = cached \cup Range(rows)
  /\ stable' = stable \cap Range(rows)
  /\ UNCHANGED <<dump, cursor, queue>>

\* The cursor is a position: it does not follow the rows.
TableChanges ==
  \/ \E i \in DOMAIN table : Becomes(RemoveAt(table, i), "removed")
  \/ \E row \in Arrivals, i \in 1 .. Len(table) + 1 :
       /\ \A j \in DOMAIN table : table[j].ip # row.ip
       /\ Becomes(InsertAt(table, i, row), "inserted")
  \/ \E row \in Arrivals, i \in DOMAIN table :
       /\ row.ip = table[i].ip /\ row # table[i]
       /\ Becomes([table EXCEPT ![i] = row], "altered")

Kernel ==
  /\ FillDatagram \/ TableChanges
  /\ UNCHANGED threadVars

Stopped == pc = "returned" /\ UNCHANGED vars

Next == Thread \/ Faults \/ Kernel \/ Stopped

Spec == Init /\ [][Next]_vars

\* The thread runs on, and the kernel goes on with a dump it began; nothing has to
\* fail, so a thread that waits for a datagram waits until there is one.
FairSpec ==
  /\ Spec
  /\ WF_vars(Thread)
  /\ WF_vars(FillDatagram /\ UNCHANGED threadVars)

-----------------------------------------------------------------------------
(* Properties                                                              *)

\* A row that the listing is for: a host with a usable link layer address.
Listable(row) ==
  /\ row.state = "valid" /\ row.mac \in Macs
  /\ row.ip \notin Groups \cup {NoIp}

Entry(row) == [ip |-> row.ip, mac |-> row.mac]
ListingUpTo[i \in 0 .. Len(table)] ==   \* of the first i rows
  IF i = 0 THEN <<>>
  ELSE IF Listable(table[i]) THEN Append(ListingUpTo[i - 1], Entry(table[i]))
  ELSE ListingUpTo[i - 1]
Listing == ListingUpTo[Len(table)]

\* The socket is the parser's to close on DONE and errors, and the loop's otherwise:
\* whatever way get_arp_table returns by, it is closed once, and not used after.
SocketOwned ==
  /\ pc \in {"send", "recv", "parse"} => sock = "open" /\ closes = 0
  /\ pc = "returned" => sock # "open" /\ closes <= 1

\* Every entry was a row of the kernel's table during the dump: with this very link
\* layer address, resolved, and neither a group's nor the zero address.
EntriesWereCached ==
  \A i \in DOMAIN entries : \E row \in cached : Listable(row) /\ entries[i] = Entry(row)

\* Off a table at rest, a dump that ends early - on an error, a failed or truncated
\* read, or broken off by the kernel - leaves a prefix of the listing, and one that
\* went to its end the whole, however it was cut into datagrams.
QuietDumpExact ==
  Changed = 0 =>
    /\ IsPrefix(entries, Listing)
    /\ (finished /\ dump = "complete") => entries = Listing

\* Off a table that changes, a complete dump may miss rows and list rows twice, but
\* not more of them than were removed and inserted meanwhile.
TornDumpBounded ==
  (finished /\ dump = "complete") =>
    LET missed == {row \in stable : Listable(row) /\ Entry(row) \notin Range(entries)}
        listed == {entries[i].ip : i \in DOMAIN entries}
    IN /\ Cardinality(missed) <= changes.removed
       /\ Len(entries) <= Cardinality(listed) + changes.inserted

\* recvmsg has no timeout: get_arp_table returns all the same, as long as the kernel
\* ends its dump.
Returns == <>(pc = "returned")

=============================================================================
