# netscan: a verification development

netscan discovers hosts of an IPv4 range without root privileges: by ICMP echo
(`PingScanner`), by TCP connect (`TcpScanner`), or by reading the kernel's ARP
table over netlink. This directory holds TLA+ models of the two sweeps, of the
ARP dump, of the way a CIDR argument becomes the set of addresses they probe and
of the program that puts them together, the TLC configurations that check them
on small instances, and TLAPS proofs about each of them for every value of their
parameters.

Paths like `ping_scanner.cpp:618` are relative to `src/src/`.

## 1. The system

Everything runs in one thread. What makes it hard is the world it talks to
between two system calls: a kernel that queues, drops, stamps and reports, a
network that loses, delays and repeats, and a clock that goes on while a batch
is sent or a host name is looked up.

| Component | State it keeps | Operations | Hard behaviour |
|---|---|---|---|
| `PingScanner` (`ping_scanner.cpp`) | `probe_table_`, `host_to_probe_`, `found_ips_cache_`, the send batch, five counters; in `run()`: cursor, count of active probes, results | `run`, `send_batch` (`populate_batch_entries`, `flush_send_queue`, `wait_for_socket_writable`), `receive_responses` (`extract_control_data`, `process_received_packet`), `reap_timed_out_probes` | edge-triggered epoll, partial sends, replies late, duplicated or foreign, slot reuse, `run()` called again on a used socket |
| ICMP socket, epoll, network (external) | send buffer, receive buffer, replies under way, epoll interest and ready list, overflow count | as used by the scanner | buffers at their limit, loss, duplication, reordering, consumed edges |
| `TcpScanner` (`tcp_scanner.cpp`) | `probe_table_` with a socket per slot; in `run()`: cursor, count, results | `run`, `initiate_connections`, `poll_connections`, `reap_timed_out_probes` | sockets on every error path, events by slot number, unguarded counter, blocking lookups between two events |
| Range and interface (`utils.cpp`: `parse_cidr`, `NetworkInterface::fetch`) | none; computes base, count, local subnet | | 32-bit arithmetic at both ends, overlap of two ranges, several interfaces |
| ARP table (`arp_table.cpp`) | the table being built, a netlink socket | `get_arp_table`, `parse_netlink_message`, `parse_netlink_attributes` | a dump cut short or torn by changes, who closes the socket |
| Command line (`main.cpp`) | the options, the exit status | choice of mode, target, scanner; summaries | what a sweep that broke off or threw is reported as |
| `resolve_hostname`, `format_ip` | none | | takes time |

Interactions: `main` parses the range and hands it to one scanner; each scanner
asks `NetworkInterface::fetch` once, in its constructor, and skips the two
addresses it names; both call `resolve_hostname` and a result callback in the
middle of handling an answer. There is no shared memory and no thread but the
one.

What makes each part correct:

* **PingScanner** - the two tables and the count agree; no probe is forgotten
  or taken back twice; a reply, however late, never disturbs another host's
  slot; a host is listed once; the counters add up; the socket never sleeps on
  data; the sweep ends; it settles every host.
* **TcpScanner** - the open sockets are those of the active slots and of the
  connection attempt under way, whichever system call fails; a host goes untried
  only while probes hold all descriptors; no event meets another probe than its
  own; a host is in one place only; the sweep ends; it settles every host.
* **Range** - the probed addresses are exactly the block of the argument, less
  the network and broadcast address of the local subnet.
* **ARP table** - every way out closes the socket once; entries were rows of the
  kernel's table; a table at rest is listed whole, or up to the point where the
  dump was cut off; one that changes is off by no more rows than changed.
* **Program** - it asks nobody outside the block it was given; exit status 0
  accounts for every address of the block, those that were not asked included.

`PROJECT.json` lists the hazards at their lines with the properties that watch
them.

## 2. Modules

| Module | What it is |
|---|---|
| `IcmpSocket` | external: the ICMP socket, its epoll and the network, as the scanner's system calls see them |
| `PingScanner` | `PingScanner::run`; extends `IcmpSocket` |
| `PingProperties` | invariants, action and liveness properties of `PingScanner`, and its refinement mapping to `HostScan` |
| `PingProof` | proof: the types of the ping scanner |
| `PingSafety` | proofs: its tables and their count, its wake-ups, its results and reply counters, its batch, the overflow count |
| `PingSweep` | proofs: whom a sweep asks, lists, counts and forgets, the reuse of slots, and that it implements `HostScan` |
| `TcpScanner`, `TcpProperties` | `TcpScanner::run` with the kernel's side of its connections; what it must do |
| `TcpProof` | proofs: all invariants of the TCP scanner, and that it implements `HostScan` |
| `HostScan` | abstract: what a sweep promises, whatever it probes with |
| `TargetRange` | `parse_cidr`, `fetch` and the skipped addresses, with their properties |
| `RangeProof` | proofs: the range, the overlap and the skipped addresses for every width of an address |
| `ArpTable` | `get_arp_table` with the kernel's dump, and its properties |
| `ArpProof` | proofs: who closes the netlink socket, where the entries come from, what a table at rest is read as, how far a changing one leads astray |
| `Netscan` | `main`: composes `TargetRange` with `HostScan`, the sweep both scanners implement, narrowed to what each of them does |
| `NetscanProof` | proofs: whom the program asks, and what its exit status means |
| `Recursion` | proofs: induction over the naturals and definition by recursion |
| `MCPingScanner`, `MCTcpScanner`, `MCTargetRange`, `MCArpTable`, `MCNetscan` | modules TLC is run on |

### How the models stand for the code

*Steps.* One action per step between two points where the outside can be seen:
`StartIteration` is the loop head of `run`; `SkipHost` and `EnqueueProbe` are the
two kinds of iteration of `populate_batch_entries`; `FlushSend`,
`FlushThrottled`, `FlushRefused` are the outcomes of `sendmmsg` (a partial send
is several `FlushSend` and then one of the others); `WritableEvent`,
`WritableOtherEvent`, `WritableTimeout` are the outcomes of one `epoll_wait` in
`wait_for_socket_writable`, each with the `EPOLL_CTL_MOD` that ends the
function; `ReceiveReady`, `ReceiveTimeout`, `Drain`, `DrainFails`,
`ProcessPacket`, `ProcessDone` are `receive_responses`; `Reap` is
`reap_timed_out_probes`; `Rerun` is another call of `run()`.

*When the outside acts.* `Network`, `Tick` and `SetBack` are enabled where the scanner is in a
system call, a lookup or the callback. The steps left out (`populate`, the loop
head, the reaping loop, the give-up loop) touch only memory the outside never
sees, so an outside step among them can be moved before or after.

*Data.* An address is its index in the range. A timestamp is the time elapsed
since it was taken, by `CLOCK_REALTIME`, which also timestamps packets: `Tick`
adds one to every age, `SetBack` takes any amount off, as when the clock is set.
Ages saturate at `MaxAge` and, where the clock was set back behind the
timestamp, at 0; only comparisons with the timeout matter, so any `MaxAge` above
`Timeout` is exact for them, except that time has to make up for a clock that
was set far back (a wait the model shortens, and no property measures). A packet is its
target, its kind and the age of the timestamp in it. The five kinds of datagram
are the five ways `process_received_packet` and the loop before it tell packets
apart. Sequence numbers (written, never read back), ICMP ids, the payload's
padding, TTLs, host names and printed lines are left out.

*The kernel.* A socket is on epoll's ready list from an edge until `epoll_wait`
looks at it; `EPOLL_CTL_MOD` looks at the level anew; a socket becomes writable at
half its send buffer; `recvmmsg` returns fewer than it was asked for only when the
buffer was found empty or an error ended it; `EINTR` is returned only when there
is nothing to report, so it is like a wait that timed out (receiving) or goes
round the loop unchanged (writable).

*TCP.* `conn` is the kernel's: the socket behind each file descriptor, with the
slot it was registered with in epoll. A connection attempt is one step per system
call - `OpenSocket`, `SetNonBlocking`, `Connect`, `Register` - and each call has a
step that fails; `sock` is the local that holds the descriptor from `socket()` on,
so the three paths that fail after it have a socket to close. What was closed is
gone from the epoll too. `socket()` fails while all `FdLimit` descriptors are open;
the other calls may fail at any time. `Ready` are the registered descriptors whose
connection was settled; epoll is level-triggered here, so `epoll_wait` returns any
of them, at most `batch_size_`, each once and in any order.

*ARP.* `sock` and `closes` are the descriptor; `table`, `dump`, `cursor` and `queue`
are the kernel's: it cuts the dump out of the live table, a datagram at a time,
from a position that does not follow the rows, and ends it with `DONE` - in the
same datagram as the last rows, behind them, or too early. `finished`, `cached`
and `stable` are history. Attributes are read in order by a fold, as the loop
does: a link layer address that is too short ends the reading and leaves what
was read before.

*The program.* `Netscan` takes `ParseCidr`, `Reject` and `Fetch` from `TargetRange`
and the steps of the sweep from `HostScan`. The refinements checked for the two
scanners are what justifies the latter: a `PingScanner` and a `TcpScanner` do
nothing `HostScan` does not allow. Reserved addresses, a constant in the scanner
modules, follow here from the interfaces. A ping sweep may break off (`BreakOff`) at
any address for which `sendmmsg` may fail, whatever the error: always at a broadcast
address of an interface (`Refused`), at an address off every interface's subnet
where there is no default route (`Unroutable`), and at any address in `SendErrors`,
which may be all of them - a firewall's `EACCES`, `EMSGSIZE`, `ENOBUFS`, a socket that
stays full for a whole timeout.

*The range.* A mask with `prefix` ones is represented by the size of its blocks;
`&`, `| ~` and `~mask + 1` are arithmetic on that size, modulo `W`, which is two to
the power of `Bits`. `Matching` is the index of the interface at which the loop of
`fetch` breaks off, or 0.

## 3. Runs

| Run | Bounds | Checks |
|---|---|---|
| `ping_tables` | 3 hosts, 2 slots, send batch 2, receive batch 1, send buffer 1, receive buffer 2, one duplicate, failing `recvmmsg`, the clock set back once, ages to 2 | `SlotTable`, `ActiveCount`, `SentOrBatched`, `ResultWasProbed`, `ProbeAccounting`, `NoLostWakeup`, `SlotReuse` |
| `ping_faults` | 4 hosts (one reserved, one refused), all five kinds of datagram, two duplicates, failing `recvmmsg`, no kernel timestamps | `UniqueHosts`, `ReplyAccounting`, `OverflowsAreReal`, `ImplementsHostScan` |
| `ping_rerun` | 2 hosts, two calls of `run()` | `TypeOK`, `SweepComplete`, `ActiveCount` |
| `ping_live` | 2 hosts, both slots, loss, one duplicate, the clock set back once | `ReplyRead`, `Termination` |
| `tcp_tables` | 5 hosts (one reserved), 3 slots, batch 2, 2 file descriptors, every call of an attempt may fail for every host, the clock set back once | `TypeOK`, `ActiveCount`, `SocketsOwned`, `UntriedOnlyAtLimit`, `EventsCurrent`, `HostInOnePlace`, `ImplementsHostScan`, `Termination` |
| `target_range` | all addresses and prefixes of 3 bits; no, one or two interfaces | `RangeIsBlock`, `LocalIsOverlap`, `SkippedAreEnds` |
| `arp_dump` | tables of up to 3 rows of every sort, 2 changes during the dump, any cut into datagrams, every failure | `SocketOwned`, `EntriesWereCached`, `QuietDumpExact`, `TornDumpBounded`, `Returns` |
| `netscan` | all options, all addresses and prefixes of 3 bits, five machines, 2 probes at a time, sends that fail at two addresses besides the broadcast and unroutable ones, exceptions | `OnlyBlockAsked`, `MissedExplained` |
| `ping_slow`, `tcp_slow`, `target_point`, `netscan_complete` | as above | one statement each of the documentation that the program does not keep |

Why the bounds are enough: with more hosts than slots a slot is reused while a
reply to its first host is still under way; with a send batch above the send
buffer a batch is throttled, resumed and given up half-way; with a receive batch
below the receive buffer the drain loop goes round, meets an exactly full batch
and a queue that refills; `MaxAge` above `Timeout` tells in time from late. Three
slots and a batch of two let a TCP connection settle while the events of an
earlier `epoll_wait` are handled; two descriptors for three slots let `socket()`
fail with a slot to spare, and an attempt that failed leave room for the next. Three bits give ranges of every alignment
inside, around, across and off a subnet. Three rows and two changes let a dump be
cut before, between and behind the rows that move, so that rows are both missed
and listed twice. Each property is paired in
`PROJECT.json` with a mutation of one definition - a dropped guard, an
off-by-one, a forgotten reset - under which its run finds it violated.

### What the violated statements show

* `ping_slow`: a reply that the kernel stamped within the timeout is still in the
  receive buffer when the sweep ends. The probes are reaped by the clock
  (`ping_scanner.cpp:693`), without a last look at the socket, and the handling of
  earlier replies - a blocking lookup each (line 601) - may take any time: hosts
  that answered in time are missed because the resolver was slow. The kernel's
  timestamps, which would tell, are only used for the round trip time.
* `tcp_slow`: a connection that opens in time while another event's host name is
  looked up is reaped by the clock and not listed (`tcp_scanner.cpp:231`): the
  sweep misses an open port because the resolver was slow.
* `target_point`: on a `/31` or `/32` interface both ends of the block are hosts,
  and are skipped.
* `netscan_complete`: only the interface of the default route is looked at, so the
  broadcast address of another local subnet, or of any on a machine without a
  default route, is probed, against the comment at `ping_scanner.cpp:175`.
  `sendmmsg` refuses it and the sweep ends there, with addresses not sent to or
  not waited for; `main` heads the summary "ICMP PING SCAN COMPLETE" and exits
  with status 0 all the same. It is not the only way: any error of `sendmmsg` but a
  full buffer ends a ping sweep like that, and a TCP sweep lets addresses go it could
  not try. `MissedExplained` says of each address left out which of these it is. In
  `netscan` a send may fail at two addresses of eight besides those that the interfaces
  and the route table decide, so the address a sweep broke off at is one of few; the
  theorem holds for any set of them.

Remarks. A reply that comes after its probe was reaped is reported on purpose, with
its larger round trip time, and counted as a timeout as well
(`ping_scanner.cpp:576`). `run()` of a `TcpScanner` leaves nothing behind
(`SocketsOwned` where it returned), so another call starts as the first one did. A
payload that is too long (`-l`) makes `sendmmsg` refuse every address: the sweep
breaks off at the first (in `Netscan` `SendErrors` with every address in it). An ARP dump that the kernel broke off is listed as if it
were whole (`QuietDumpExact` then gives a prefix only).

Also met, and not a run: the README gives 56 as the default of `--payload`,
the code 0; `-t 0` means the default and not 0.

### Fairness

*Ping.* `ThreadSpec` is weak fairness of the scanner's thread: it is never blocked for
ever, every `epoll_wait` has a timeout. The network and the clock get none:
requests and replies may stay under way for ever. `ReplyRead` holds with that
alone. `Termination` has the one more thing it needs as its hypothesis, strong
fairness of `Tick`: time passes for the thread again and again, though not at any
one of its steps, as `Tick` is enabled only at system calls.

*TCP.* `FairSpec` is the same two conditions together; connections may hang for
ever.

*ARP.* Weak fairness of the thread and of the kernel's dump: `recvmsg` has no
timeout, so `Returns` cannot hold without the kernel going on with what it began.
Nothing has to fail, and the table need not change.

`Netscan` states safety only: that a sweep ends is shown of the two scanners.

## 4. Proofs

What the theorems assume is stated with the constants: `ScannerAssumption` and
`SocketAssumption` (ping), `TcpAssumption`, `RangeAssumption`, `ArpAssumption`,
`NetscanAssumption`. These are types, with five conditions more: no socket buffer of
size zero, a timeout below `MaxAge`, an address of at least one bit, reserved
and refused addresses within the range, and the zero, short and usable
link layer addresses told apart. Any number of hosts, slots, batches, buffers,
duplicates, overflows, calls of `run()`, failures and steps of the clock in either
direction is covered, any answer of `getifaddrs`, any ARP table and any cut of its
dump; so are limits and batch sizes of zero.

| Theorem | States | Argument |
|---|---|---|
| `TypeCorrect` | `Spec => []TypeOK` | inductive as it stands, one lemma per group of variables. It needs two bounds that are not types: the batch is never longer than the cursor is far (so giving it up cannot take the cursor below 0), and the epoll interest is a function of `pc`, set and reset on every way through `wait_for_socket_writable` |
| `TablesAgree`, `ProbesCounted` | `SlotTable`, `ActiveCount` | inductive together with `TypeOK`. Neither is inductive alone: that a released slot takes exactly its host's pointer along needs `SlotTable`, and that the guard of the decrement never bites needs `ActiveCount` |
| `WakeupNeverLost` | `NoLostWakeup`: data sleep only behind a read that an error cut short, or with `-r 0` | inductive with `TypeOK`, whose interest clause is what lets a wait that timed out conclude that the queue was empty |
| `ListedOnce`, `RepliesAccountedFor` | `UniqueHosts`, `ReplyAccounting` | inductive with `TypeOK` |
| `ProbesSent` | `SentOrBatched`: a batch given up leaves no unsent probe behind | inductive with `TypeOK` |
| `OverflowsReported` | `OverflowsAreReal` | inductive with `TypeOK` once it also bounds the drop counts of the datagrams in the receive buffer and in the batch being processed, where the counts to be read still are |
| `OnlyAskedReported`, `NobodyForgotten` | `ResultWasProbed`, `SweepComplete` | `SweepInv`: the tables, and with them `BatchInv` (the batch holds active, unsent probes, each once, and only between filling and flushing), `CursorInv` (nobody is asked beyond the cursor until a batch is given up), `AskedInv` (in the first run every request, reply and datagram on its way is one that was asked for) and `SettledInv` (nobody is skipped but the reserved, and `run()` returns at the end only) |
| `ProbesAccountedFor` | `ProbeAccounting` | the other direction of `ProbesSent`: a batch given up takes no sent probe back. Inductive with `SweepInv`: the hosts asked are those sent to and those in the batch (`Asked`); sending moves one from the batch to the others (`AskedSteps`), and each way a probe ends moves it from the count of those under way to one of the others, or takes it back with the batch, which is as long as it holds slots (`BatchSize`) |
| `SlotsReusedInTime` | `SlotReuse` (action property) | from `TypeOK` and `SlotTable`, action by action |
| `PingSweeps` | `MaxRuns = 1 => (Spec => HS!Spec)` | `StatusRight`: under `SweepInv` the status read off the tables names each host's place; then each step of the scanner is a step of `HostScan` or leaves status and phase alone. Of one run: a second may report a host it did not ask, which `HostScan` does not allow |
| `TcpTypeCorrect`, `ProbesCounted`, `NoSocketLeaks`, `NoStaleEvent` | `TypeOK`, `ActiveCount`, `SocketsOwned`, `EventsCurrent` of `TcpScanner` | inductive together, with `Attempt` (the socket being set up is open, nobody's yet and not registered, and a slot is free for it) and `EventsFresh`: events are kept only while they are handled, so a slot is filled anew only when none is left. Each of the three failing calls closes what `socket()` opened, which is what keeps `SocketsOwned` |
| `UntriedForWantOnly` | `UntriedOnlyAtLimit` (action property) | `socket()` fails only with all descriptors open, and by `SocketsOwned` those are the probes' |
| `OnePlace` | `HostInOnePlace` | inductive with the former and `Passed`: whatever became of a host is behind the `Frontier` - the cursor, or the host of the attempt under way, which the cursor has passed already - so the next host is in no place yet |
| `TcpSweeps` | `Spec => HS!Spec` | as for the ping sweep; that a host the cursor passes is settled once is `HostInOnePlace` |
| `RangeIsTheBlock`, `LocalMeetsSubnet`, `EndsAreSkipped` | `RangeIsBlock`, `LocalIsOverlap`, `SkippedAreEnds` | `RangeInv` keeps what was computed; the rest is arithmetic: blocks of a power of two are intervals that never wrap (`BlockBounds`, from `PowersMultiply` and `Division`), and two intervals meet exactly if the code's two comparisons hold (`OverlapsIsMeeting`). `SkippedAreEnds` speaks of the least and the greatest address of the block that shares the interface's prefix, defined by division and not by the masks; `EndsSkipped` shows that the masks find them |
| `NobodyElseAsked`, `SuccessExplained` | `OnlyBlockAsked`, `MissedExplained` | `ProgramInv`: where `main` is, what was parsed and fetched (`PathInv`); which addresses have a status at all (`StatusInv`); how the sweep ended (`EndInv`). The lemmas of `RangeProof` are used as those of an instance |
| `SocketClosedOnce` | `SocketOwned` of `ArpTable` | inductive once it also says that a thread at `"socket"` has neither opened nor closed |
| `EntriesFromCache` | `EntriesWereCached` | `CachedInv`: messages in the socket and in the datagram read last come from rows that were in the table during the dump too. `ReadRow` unfolds the reading of the attributes: of a row's message exactly the listable is listed, though an early return keeps what was read before |
| `QuietTableListed` | `QuietDumpExact` | `QuietInv`: off a table that never changed, entries, datagram being parsed, datagram in the socket and kernel's cursor divide the table in three - the first `lo` rows are listed, those up to `mid` are being parsed, those up to the cursor are in the socket - and nothing comes behind the end of the dump. `ListingsArePrefixes` is the induction over the rows |
| `TornDumpCounted` | `TornDumpBounded`, of tables in which no address comes twice | `TornInv` follows the rows of the dump as they would come if the table changed no more: those dumped, and those of the table from the cursor on. Behind the `lo` parsed rows none of the stable rows is lost, and no address is met again, but for one per removal and one per insertion; a datagram changes nothing of it, a row that is parsed moves from the rows ahead to the entries, and each change of the table takes one row away (it is removed, or slips in front of the cursor), puts one on top, or replaces one that is stable no more |

Each step lemma has a case per action that writes what the invariant speaks of,
and one for the rest. `CachedInv`, `QuietInv`, `ProgramInv` and the other strengthened
invariants were checked by TLC on the runs' instances before they were proved - of `TornInv` the counts,
over the rows in the two datagrams and behind the cursor.

`TornDumpCounted` has a hypothesis of its own, that no table in `Tables` has an address
twice. `TableChanges` inserts no address a second time either, as the model leaves out
the interface that tells such rows apart. Without it the bound is wrong: two rows of one
address are two entries of a table at rest. The tables of `arp_dump` satisfy it.

*Recursion.* The prover takes no induction rule whose property is an operator, so
`Recursion` states induction with the property as a set of naturals, and definition by
recursion with the step as a function; both rest on the well-foundedness of `<`.
`Pow2` and `ListingUpTo` are recursive functions for that reason.

Only model-checked:

* `Termination`, `ReplyRead`, `Returns`: liveness under fairness is out of the prover's
  reach.
* That the recursive fold `parse_netlink_attributes` is right for any number of
  attributes: it is unfolded for the one or two a row's message has.

## 5. Not modelled

* The conversion of option texts (`strtoul` without a check, cut to the option's
  type), the printing of tables and summaries, DNS and address formatting: no
  state. That a lookup takes time is modelled.
* What a timeout is in milliseconds: a timeout above `INT_MAX` is negative for
  `epoll_wait` (`ping_scanner.cpp:215`), and the sizes computed for socket buffers
  overflow from some million probes on (`tcp_scanner.cpp:97`).
* Zero limits are within the assumptions and the proofs, but no run has them: `-c 0`
  and `-s 0` make `run()` spin for ever, `-r 0` never reads.
* `EPOLLERR` and `EPOLLHUP` on the ICMP socket, which is not connected and keeps
  no pending error.
* In `PingScanner` a hard error of `sendmmsg` belongs to a destination (`Refused`),
  the transient ones (`ENOBUFS`, `ENOMEM`) too: they take the same way out. In
  `Netscan` any address may meet one.
* A `socket()` of the TCP scanner that fails for a shortage of the whole system
  (`ENFILE`, `ENOBUFS`) takes the way of the process's own limit and is not a cause of
  its own, so `UntriedOnlyAtLimit` is about the limit alone.
* In `Netscan`: that argp itself ends the program on an option it does not know; and
  which probes in flight are in the send batch, so a sweep may break off there at an
  address that was sent already, as long as none behind it has been heard of.
* Tests, build files and scripts.

## 6. Plan

Done: all modules, runs and theorems above. No component with state of its own is
left out, and each one's safety properties are proved. Next:

1. The two statements about `run()` called again that `ResultWasProbed` leaves open:
   what a second run may still report, stated as an invariant of its own.
