------------------------------ MODULE ArpProof ------------------------------
(* get_arp_table, for every value of the constants of ArpTable: the        *)
(* ownership of its socket, where its entries come from, what a table at   *)
(* rest is read as, and how far one that changes can lead it astray.       *)
EXTENDS ArpTable, Recursion, SequenceTheorems, FiniteSetTheorems

-----------------------------------------------------------------------------
(* The socket                                                              *)

\* SocketOwned says nothing of a thread that has not opened its socket yet, and nothing
\* of places there are not: both are needed for a step that opens or closes.
SocketInv ==
  /\ pc \in {"socket", "send", "recv", "parse", "returned"}
  /\ closes \in {0, 1}
  /\ pc = "socket" => sock = "none" /\ closes = 0
  /\ SocketOwned

\* The kernel has no hand in the thread's socket.
LEMMA KernelKeepsSocket ==
  ASSUME SocketInv, Kernel
  PROVE  SocketInv'
BY DEF SocketInv, SocketOwned, Kernel, threadVars

\* Each step of the thread keeps the socket, opens it, or closes it and returns.
LEMMA SocketStep ==
  ASSUME SocketInv, [Next]_vars
  PROVE  SocketInv'
<1> USE DEF SocketInv, SocketOwned
<1>1. CASE OpenSocket
  BY <1>1 DEF OpenSocket
<1>2. CASE SendRequest
  BY <1>2 DEF SendRequest
<1>3. CASE Receive
  BY <1>3 DEF Receive
<1>4. CASE PassOver
  BY <1>4 DEF PassOver
<1>5. CASE ParseNeighbour
  BY <1>5 DEF ParseNeighbour
<1>6. CASE ParseEnd
  BY <1>6 DEF ParseEnd, NextMessage, StopParsing, Close
<1>7. CASE DatagramDone
  BY <1>7 DEF DatagramDone
<1>8. CASE SendFails
  BY <1>8 DEF SendFails, Close
<1>9. CASE ReceiveFails
  BY <1>9 DEF ReceiveFails, StopReceiving, Close
<1>10. CASE UNCHANGED vars
  BY <1>10 DEF vars, threadVars
<1> QED
  BY <1>1, <1>2, <1>3, <1>4, <1>5, <1>6, <1>7, <1>8, <1>9, <1>10, KernelKeepsSocket
  DEF Next, Thread, Faults, Stopped

\* Whatever the kernel answers, and wherever a call fails: get_arp_table, its parser
\* and its loop together close the socket exactly once, and use it only while open.
THEOREM SocketClosedOnce == Spec => []SocketOwned
<1>1. Init => SocketInv
  BY DEF Init, SocketInv, SocketOwned
<1>2. SocketInv /\ [Next]_vars => SocketInv'
  BY SocketStep
<1>3. SocketInv => SocketOwned
  BY DEF SocketInv
<1> QED BY <1>1, <1>2, <1>3, PTL DEF Spec

-----------------------------------------------------------------------------
(* The attributes of one message                                           *)

Blank == [ip |-> NoIp, mac |-> ZeroMac, stopped |-> FALSE]

\* f folds the attributes, from the last of a set of them down.
Folds(f, attributes) ==
  f = [s \in SUBSET DOMAIN attributes |->
         IF s = {} THEN Blank ELSE ReadAttribute(f[s \ {Max(s)}], attributes[Max(s)])]

LEMMA ReadingFolds ==
  ASSUME NEW attributes, NEW g, Folds(g, attributes)
  PROVE  \E f : Folds(f, attributes) /\ parse_netlink_attributes(attributes) = f[DOMAIN attributes]
<1> DEFINE f[s \in SUBSET DOMAIN attributes] ==
             IF s = {} THEN Blank ELSE ReadAttribute(f[s \ {Max(s)}], attributes[Max(s)])
<1>1. parse_netlink_attributes(attributes) = f[DOMAIN attributes]
  BY DEF parse_netlink_attributes, FoldLeft, MapThenFoldSet, Blank
<1>2. Folds(f, attributes)
  BY DEF Folds
<1> QED BY <1>1, <1>2

LEMMA FoldSteps ==
  ASSUME NEW attributes, NEW f, Folds(f, attributes)
  PROVE  /\ f[{}] = Blank
         /\ \A s \in SUBSET DOMAIN attributes :
              s # {} => f[s] = ReadAttribute(f[s \ {Max(s)}], attributes[Max(s)])
<1>1. {} \in SUBSET DOMAIN attributes
  OBVIOUS
<1> QED BY <1>1, Zenon DEF Folds

LEMMA Maxima == Max({1}) = 1 /\ Max({1, 2}) = 2 /\ Max({2}) = 2
BY DEF Max

LEMMA ReadOne ==
  ASSUME NEW a
  PROVE  parse_netlink_attributes(<<a>>) = ReadAttribute(Blank, a)
<1> DEFINE g == [s \in SUBSET {1} |-> IF s = {} THEN Blank ELSE ReadAttribute(Blank, a)]
<1>1. DOMAIN <<a>> = {1} /\ <<a>>[1] = a
  OBVIOUS
<1>2. ASSUME NEW s \in SUBSET {1}
      PROVE  g[s] = IF s = {} THEN Blank ELSE ReadAttribute(g[s \ {Max(s)}], <<a>>[Max(s)])
  <2>1. s = {} \/ s = {1}
    OBVIOUS
  <2>2. {1} \ {1} = {} /\ {} \in SUBSET {1}
    OBVIOUS
  <2> QED BY <1>1, <2>1, <2>2, Maxima
<1>3. g = [s \in SUBSET {1} |-> g[s]]
  OBVIOUS
<1> HIDE DEF g
<1>4. Folds(g, <<a>>)
  BY <1>1, <1>2, <1>3 DEF Folds
<1>5. PICK f : Folds(f, <<a>>) /\ parse_netlink_attributes(<<a>>) = f[{1}]
  BY <1>1, <1>4, ReadingFolds
<1>6. f[{1}] = ReadAttribute(f[{1} \ {1}], a) /\ f[{}] = Blank /\ {1} \ {1} = {}
  BY <1>1, <1>5, Maxima, FoldSteps
<1> QED BY <1>5, <1>6

LEMMA ReadTwo ==
  ASSUME NEW a, NEW b
  PROVE  parse_netlink_attributes(<<a, b>>) = ReadAttribute(ReadAttribute(Blank, a), b)
<1> DEFINE g == [s \in SUBSET {1, 2} |->
                   IF s = {} THEN Blank
                   ELSE IF s = {1} THEN ReadAttribute(Blank, a)
                   ELSE IF s = {2} THEN ReadAttribute(Blank, b)
                   ELSE ReadAttribute(ReadAttribute(Blank, a), b)]
<1>1. DOMAIN <<a, b>> = {1, 2} /\ <<a, b>>[1] = a /\ <<a, b>>[2] = b
  OBVIOUS
<1>2. ASSUME NEW s \in SUBSET {1, 2}
      PROVE  g[s] = IF s = {} THEN Blank ELSE ReadAttribute(g[s \ {Max(s)}], <<a, b>>[Max(s)])
  <2>1. s = {} \/ s = {1} \/ s = {2} \/ s = {1, 2}
    OBVIOUS
  <2>2. {1} \ {1} = {} /\ {2} \ {2} = {} /\ {1, 2} \ {2} = {1} /\ {2} # {1} /\ {1, 2} # {1}
        /\ {1, 2} # {2} /\ {1} \in SUBSET {1, 2} /\ {2} \in SUBSET {1, 2} /\ {1, 2} \in SUBSET {1, 2}
        /\ {} \in SUBSET {1, 2}
    OBVIOUS
  <2>3. /\ g[{}] = Blank /\ g[{1}] = ReadAttribute(Blank, a) /\ g[{2}] = ReadAttribute(Blank, b)
        /\ g[{1, 2}] = ReadAttribute(ReadAttribute(Blank, a), b)
    BY <2>2
  <2> HIDE DEF g
  <2> QED BY <1>1, <2>1, <2>2, <2>3, Maxima
<1>3. g = [s \in SUBSET {1, 2} |-> g[s]]
  OBVIOUS
<1> HIDE DEF g
<1>4. Folds(g, <<a, b>>)
  BY <1>1, <1>2, <1>3 DEF Folds
<1>5. PICK f : Folds(f, <<a, b>>) /\ parse_netlink_attributes(<<a, b>>) = f[{1, 2}]
  BY <1>1, <1>4, ReadingFolds
<1>6. f[{1, 2}] = ReadAttribute(f[{1, 2} \ {2}], b) /\ {1, 2} \ {2} = {1}
  BY <1>1, <1>5, Maxima, FoldSteps
<1>7. f[{1}] = ReadAttribute(f[{1} \ {1}], a) /\ f[{}] = Blank /\ {1} \ {1} = {}
  BY <1>1, <1>5, Maxima, FoldSteps
<1> QED BY <1>5, <1>6, <1>7

LEMMA JoinTwo == ASSUME NEW a, NEW b PROVE <<a>> \o <<b>> = <<a, b>>
<1> DEFINE x == <<a>>
           y == <<b>>
           t == <<a, b>>
           S == {a, b}
<1>1. x \in Seq(S) /\ y \in Seq(S) /\ t \in Seq(S)
  OBVIOUS
<1>2. Len(x) = 1 /\ Len(y) = 1 /\ Len(t) = 2 /\ x[1] = a /\ y[1] = b /\ t[1] = a /\ t[2] = b
  OBVIOUS
<1> HIDE DEF x, y, t, S
<1>3. /\ x \o y \in Seq(S) /\ Len(x \o y) = Len(x) + Len(y)
      /\ \A i \in 1 .. Len(x) + Len(y) :
           (x \o y)[i] = IF i <= Len(x) THEN x[i] ELSE y[i - Len(x)]
  BY <1>1, ConcatProperties
<1>4. Len(x \o y) = Len(t) /\ \A i \in 1 .. Len(x \o y) : (x \o y)[i] = t[i]
  BY <1>2, <1>3
<1>5. x \o y = t
  BY <1>1, <1>3, <1>4, SeqEqual
<1> QED BY <1>5 DEF x, y, t

\* What is read of a row's message: nothing that is listed but what is to be listed.
LEMMA ReadRow ==
  ASSUME NEW row \in Row,
         NEW read, read = parse_netlink_attributes(NewNeighbour(row).attributes)
  PROVE  /\ Skips(NewNeighbour(row), read) <=> ~ Listable(row)
         /\ Listable(row) => [ip |-> read.ip, mac |-> read.mac] = Entry(row)
<1> DEFINE dst == [type |-> "DST", value |-> row.ip]
           lladdr == [type |-> "LLADDR", value |-> row.mac]
<1>1. /\ row.ip \in Nat /\ row.mac \in Macs \cup {ZeroMac, ShortMac}
      /\ row.state \in {"valid", "incomplete", "failed"}
  BY DEF Row, RowStates
<1>2. NewNeighbour(row).incomplete = (row.state = "incomplete")
  BY DEF NewNeighbour
<1>3. ReadAttribute(Blank, dst) = [ip |-> row.ip, mac |-> ZeroMac, stopped |-> FALSE]
  BY DEF ReadAttribute, Blank
<1>4. CASE row.state = "valid"
  <2>1. NewNeighbour(row).attributes = <<dst, lladdr>>
    <3>1. NewNeighbour(row).attributes = <<dst>> \o <<lladdr>>
      BY <1>4 DEF NewNeighbour
    <3> HIDE DEF dst, lladdr
    <3> QED BY <3>1, JoinTwo
  <2>2. read = ReadAttribute(ReadAttribute(Blank, dst), lladdr)
    BY <2>1, ReadTwo
  <2>3. CASE row.mac = ShortMac
    <3>1. read.mac = ZeroMac
      BY <1>3, <2>2, <2>3 DEF ReadAttribute
    <3>2. ~ Listable(row)
      BY <2>3, ArpAssumption DEF Listable
    <3> QED BY <3>1, <3>2 DEF Skips
  <2>4. CASE row.mac # ShortMac
    <3>1. read.ip = row.ip /\ read.mac = row.mac
      BY <1>3, <2>2, <2>4 DEF ReadAttribute
    <3>2. row.mac \in Macs <=> row.mac # ZeroMac
      BY <1>1, <2>4, ArpAssumption
    <3> QED BY <1>2, <1>4, <3>1, <3>2 DEF Skips, Listable, Entry
  <2> QED BY <2>3, <2>4
<1>5. CASE row.state # "valid"
  <2>1. NewNeighbour(row).attributes = <<dst>>
    BY <1>5 DEF NewNeighbour
  <2>2. read.mac = ZeroMac
    BY <1>3, <2>1, ReadOne
  <2> QED BY <1>5, <2>2 DEF Skips, Listable
<1> QED BY <1>4, <1>5

-----------------------------------------------------------------------------
(* Where the entries come from                                             *)

\* The messages a dump of some rows is made of, and the entries they give.
Sent(rows) ==
  {Bare(type) : type \in {"DONE", "ERROR", "OTHER"}} \cup {NewNeighbour(row) : row \in rows}
Listed(rows) == {Entry(row) : row \in {r \in rows : Listable(r)}}

\* Between the kernel's table and the entries a row is on its way in the socket and in
\* the datagram read last: there too it is one that was in the table during the dump.
\* The request starts the history anew, so nothing may be under way before it.
CachedInv ==
  /\ table \in Seq(Row)
  /\ cached \subseteq Row
  /\ cursor \in Nat \ {0}
  /\ pc \in {"socket", "send"} =>
       dump = "none" /\ entries = <<>> /\ inbox = <<>> /\ queue = <<>>
  /\ dump = "running" => Range(table) \subseteq cached
  /\ inbox \in Seq(Sent(cached))
  /\ queue \in Seq(Seq(Sent(cached)))
  /\ entries \in Seq(Listed(cached))

\* More rows, more messages and entries.
LEMMA MoreRows ==
  ASSUME NEW rows, NEW more, rows \subseteq more
  PROVE  /\ Seq(Sent(rows)) \subseteq Seq(Sent(more))
         /\ Seq(Seq(Sent(rows))) \subseteq Seq(Seq(Sent(more)))
         /\ Seq(Listed(rows)) \subseteq Seq(Listed(more))
<1>1. Sent(rows) \subseteq Sent(more) /\ Listed(rows) \subseteq Listed(more)
  BY DEF Sent, Listed
<1>2. \A S, T : S \subseteq T => Seq(S) \subseteq Seq(T)
  BY SeqMonotonic
<1> QED BY <1>1, <1>2

\* The table after a change: a sequence of rows, all of them in the history.
LEMMA ChangedTable ==
  ASSUME table \in Seq(Row), TableChanges
  PROVE  /\ dump = "running"
         /\ table' \in Seq(Row)
         /\ cached' = cached \cup Range(table')
         /\ \E kind \in {"removed", "inserted", "altered"} :
              changes' = [changes EXCEPT ![kind] = @ + 1]
         /\ UNCHANGED <<dump, cursor, queue>>
<1>1. /\ Len(table) \in Nat /\ DOMAIN table = 1 .. Len(table)
      /\ \A i \in 1 .. Len(table) : table[i] \in Row
  BY LenProperties, ElementOfSeq
<1>2. \A m \in Int, n \in Int : 1 <= m /\ n <= Len(table) => SubSeq(table, m, n) \in Seq(Row)
  <2> SUFFICES ASSUME NEW m \in Int, NEW n \in Int, 1 <= m, n <= Len(table)
               PROVE  SubSeq(table, m, n) \in Seq(Row)
    OBVIOUS
  <2>1. \A i \in m .. n : table[i] \in Row
    BY <1>1
  <2> QED BY <2>1, SubSeqProperties
<1>3. ASSUME NEW i \in DOMAIN table, Becomes(RemoveAt(table, i), "removed")
      PROVE  table' \in Seq(Row)
  <2>1. table' = SubSeq(table, 1, i - 1) \o SubSeq(table, i + 1, Len(table))
    BY <1>3 DEF Becomes, RemoveAt
  <2>2. SubSeq(table, 1, i - 1) \in Seq(Row) /\ SubSeq(table, i + 1, Len(table)) \in Seq(Row)
    BY <1>1, <1>2
  <2> QED BY <2>1, <2>2, ConcatProperties
<1>4. ASSUME NEW row \in Arrivals, NEW i \in 1 .. Len(table) + 1,
             Becomes(InsertAt(table, i, row), "inserted")
      PROVE  table' \in Seq(Row)
  <2>1. table' = SubSeq(table, 1, i - 1) \o <<row>> \o SubSeq(table, i, Len(table))
    BY <1>4 DEF Becomes, InsertAt
  <2>2. /\ SubSeq(table, 1, i - 1) \in Seq(Row) /\ SubSeq(table, i, Len(table)) \in Seq(Row)
        /\ <<row>> \in Seq(Row)
    BY <1>1, <1>2, ArpAssumption
  <2>3. SubSeq(table, 1, i - 1) \o <<row>> \in Seq(Row)
    BY <2>2, ConcatProperties
  <2> QED BY <2>1, <2>2, <2>3, ConcatProperties
<1>5. ASSUME NEW row \in Arrivals, NEW i \in DOMAIN table,
             Becomes([table EXCEPT ![i] = row], "altered")
      PROVE  table' \in Seq(Row)
  <2>1. table' = [table EXCEPT ![i] = row] /\ row \in Row /\ i \in 1 .. Len(table)
    BY <1>1, <1>5, ArpAssumption DEF Becomes
  <2> QED BY <2>1, ExceptSeq
<1>6. \A rows, kind : Becomes(rows, kind) =>
        /\ dump = "running"
        /\ cached' = cached \cup Range(table')
        /\ changes' = [changes EXCEPT ![kind] = @ + 1]
        /\ UNCHANGED <<dump, cursor, queue>>
  BY DEF Becomes
<1>7. table' \in Seq(Row)
  BY <1>3, <1>4, <1>5 DEF TableChanges
<1>8. \E kind \in {"removed", "inserted", "altered"} : \E rows : Becomes(rows, kind)
  BY DEF TableChanges
<1> QED BY <1>6, <1>7, <1>8

\* The rest of the table begins at the cursor.
RowsFromCursor == \A i \in 1 .. Len(table) - cursor + 1 : Rest[i] = table[cursor + i - 1]

\* What the kernel puts into the socket at once: k rows from the cursor on, perhaps
\* with something else before them and DONE behind.
Filled(k, noise, tail) == noise \o Dumped(k) \o tail
Datagram(k, noise, tail) ==
  /\ k \in 0 .. Len(table) - cursor + 1 \/ k = 0
  /\ noise \in {<<>>, <<Bare("OTHER")>>}
  /\ tail \in {<<>>, <<Bare("DONE")>>}
  /\ k > 0 \/ tail # <<>>
  /\ queue' = <<Filled(k, noise, tail)>>
  /\ cursor' = cursor + k
  /\ dump' = IF tail = <<>> THEN "running"
             ELSE IF k = Len(Rest) THEN "complete" ELSE "broken"

LEMMA NextDatagram ==
  ASSUME table \in Seq(Row), cursor \in Nat \ {0}, FillDatagram
  PROVE  /\ dump = "running" /\ queue = <<>>
         /\ UNCHANGED <<table, changes, cached, stable>>
         /\ Len(Rest) = IF cursor <= Len(table) THEN Len(table) - cursor + 1 ELSE 0
         /\ RowsFromCursor
         /\ \E k \in Nat : \E noise, tail : Datagram(k, noise, tail)
<1>1. /\ Len(table) \in Nat
      /\ \A i \in cursor .. Len(table) : table[i] \in Row
  BY LenProperties, ElementOfSeq
<1>2. /\ Len(Rest) = IF cursor <= Len(table) THEN Len(table) - cursor + 1 ELSE 0
      /\ RowsFromCursor
  BY <1>1, SubSeqProperties DEF Rest, RowsFromCursor
<1>3. PICK k \in 0 .. Len(Rest), tail \in {<<>>, <<Bare("DONE")>>},
           noise \in IF KernelFaults THEN {<<>>, <<Bare("OTHER")>>} ELSE {<<>>} :
        /\ k > 0 \/ tail # <<>>
        /\ queue' = <<noise \o Dumped(k) \o tail>>
        /\ cursor' = cursor + k
        /\ dump' = IF tail = <<>> THEN "running"
                   ELSE IF k = Len(Rest) THEN "complete" ELSE "broken"
  BY DEF FillDatagram
<1>4. noise \in {<<>>, <<Bare("OTHER")>>}
  BY <1>3
<1>5. k \in Nat /\ (k \in 0 .. Len(table) - cursor + 1 \/ k = 0)
  BY <1>1, <1>2, <1>3
<1>6. Datagram(k, noise, tail)
  BY <1>3, <1>4, <1>5 DEF Datagram, Filled
<1> QED BY <1>2, <1>5, <1>6 DEF FillDatagram

LEMMA OneOrNone ==
  ASSUME NEW S, NEW x \in S, NEW s \in {<<>>, <<x>>}
  PROVE  /\ s \in Seq(S) /\ Len(s) \in {0, 1} /\ (s = <<>> <=> Len(s) = 0)
         /\ Len(s) = 1 => s[1] = x
<1>1. CASE s = <<>>
  BY <1>1
<1>2. CASE s = <<x>>
  BY <1>2
<1> QED BY <1>1, <1>2

\* Its messages, one by one.
LaidOut(message, k, noise, tail) ==
  /\ Len(noise) \in {0, 1} /\ Len(tail) \in {0, 1} /\ (tail = <<>> <=> Len(tail) = 0)
  /\ Len(message) = Len(noise) + k + Len(tail)
  /\ \A i \in 1 .. Len(noise) : message[i] = Bare("OTHER")
  /\ \A i \in 1 .. k : message[Len(noise) + i] = NewNeighbour(table[cursor + i - 1])
  /\ Len(tail) = 1 => message[Len(message)] = Bare("DONE")

LEMMA DatagramMessages ==
  ASSUME table \in Seq(Row), cursor \in Nat \ {0}, NEW rows, Range(table) \subseteq rows,
         RowsFromCursor,
         NEW k \in Nat, NEW noise, NEW tail, Datagram(k, noise, tail),
         NEW message, message = Filled(k, noise, tail)
  PROVE  message \in Seq(Sent(rows)) /\ LaidOut(message, k, noise, tail)
<1>1. Len(table) \in Nat /\ DOMAIN table = 1 .. Len(table)
  BY LenProperties
<1>2. /\ noise \in Seq(Sent(rows)) /\ tail \in Seq(Sent(rows))
      /\ Len(noise) \in {0, 1} /\ Len(tail) \in {0, 1} /\ (tail = <<>> <=> Len(tail) = 0)
      /\ Len(noise) = 1 => noise[1] = Bare("OTHER")
      /\ Len(tail) = 1 => tail[1] = Bare("DONE")
  <2>1. Bare("OTHER") \in Sent(rows) /\ Bare("DONE") \in Sent(rows)
    BY DEF Sent
  <2>2. noise \in {<<>>, <<Bare("OTHER")>>} /\ tail \in {<<>>, <<Bare("DONE")>>}
    BY DEF Datagram
  <2> DEFINE S == Sent(rows)
             x == Bare("OTHER")
             y == Bare("DONE")
  <2>3. x \in S /\ noise \in {<<>>, <<x>>}
    BY <2>1, <2>2
  <2>4. y \in S /\ tail \in {<<>>, <<y>>}
    BY <2>1, <2>2
  <2> HIDE DEF S, x, y
  <2>5. /\ noise \in Seq(S) /\ Len(noise) \in {0, 1} /\ (noise = <<>> <=> Len(noise) = 0)
        /\ Len(noise) = 1 => noise[1] = x
    BY <2>3, OneOrNone
  <2>6. /\ tail \in Seq(S) /\ Len(tail) \in {0, 1} /\ (tail = <<>> <=> Len(tail) = 0)
        /\ Len(tail) = 1 => tail[1] = y
    BY <2>4, OneOrNone
  <2> QED BY <2>5, <2>6 DEF S, x, y
<1>3. \A i \in 1 .. k : /\ cursor + i - 1 \in 1 .. Len(table)
                        /\ Dumped(k)[i] = NewNeighbour(table[cursor + i - 1])
                        /\ Dumped(k)[i] \in Sent(rows)
  <2> SUFFICES ASSUME NEW i \in 1 .. k
               PROVE  /\ cursor + i - 1 \in 1 .. Len(table)
                      /\ Dumped(k)[i] = NewNeighbour(table[cursor + i - 1])
                      /\ Dumped(k)[i] \in Sent(rows)
    OBVIOUS
  <2>1. k \in 0 .. Len(table) - cursor + 1
    BY <1>1 DEF Datagram
  <2>2. cursor + i - 1 \in 1 .. Len(table) /\ i \in 1 .. Len(table) - cursor + 1
    BY <1>1, <2>1
  <2>3. Dumped(k)[i] = NewNeighbour(table[cursor + i - 1])
    BY <2>2 DEF Dumped, RowsFromCursor
  <2>4. table[cursor + i - 1] \in rows
    BY <1>1, <2>2 DEF Range
  <2> QED BY <2>2, <2>3, <2>4 DEF Sent
<1>4. Dumped(k) \in Seq(Sent(rows)) /\ Len(Dumped(k)) = k
  <2>1. DOMAIN Dumped(k) = 1 .. k /\ Dumped(k) = [i \in 1 .. k |-> Dumped(k)[i]]
    BY DEF Dumped
  <2>2. Dumped(k) \in [1 .. k -> Sent(rows)]
    BY <1>3, <2>1
  <2> QED BY <2>2
<1> DEFINE front == noise \o Dumped(k)
<1>5. /\ front \in Seq(Sent(rows)) /\ Len(front) = Len(noise) + Len(Dumped(k))
      /\ \A i \in 1 .. Len(noise) + Len(Dumped(k)) :
           front[i] = IF i <= Len(noise) THEN noise[i] ELSE Dumped(k)[i - Len(noise)]
  BY <1>2, <1>4, ConcatProperties
<1> HIDE DEF front
<1>6. /\ message \in Seq(Sent(rows)) /\ Len(message) = Len(front) + Len(tail)
      /\ \A i \in 1 .. Len(front) + Len(tail) :
           message[i] = IF i <= Len(front) THEN front[i] ELSE tail[i - Len(front)]
  <2> DEFINE joined == front \o tail
  <2>1. /\ joined \in Seq(Sent(rows)) /\ Len(joined) = Len(front) + Len(tail)
        /\ \A i \in 1 .. Len(front) + Len(tail) :
             joined[i] = IF i <= Len(front) THEN front[i] ELSE tail[i - Len(front)]
    BY <1>2, <1>5, ConcatProperties
  <2>2. message = joined
    BY DEF front, Filled
  <2> HIDE DEF joined
  <2> QED BY <2>1, <2>2
<1>7. Len(message) = Len(noise) + k + Len(tail)
  BY <1>2, <1>4, <1>5, <1>6
<1>8. \A i \in 1 .. Len(noise) : message[i] = Bare("OTHER")
  <2> SUFFICES ASSUME NEW i \in 1 .. Len(noise) PROVE message[i] = Bare("OTHER")
    OBVIOUS
  <2>1. Len(noise) = 1 /\ i = 1
    <3>1. Len(noise) = 0 \/ Len(noise) = 1
      BY <1>2
    <3>2. \A n : (n = 0 \/ n = 1) => \A j \in 1 .. n : n = 1 /\ j = 1
      OBVIOUS
    <3> QED BY <3>1, <3>2, Zenon
  <2>2. Len(front) = 1 + k /\ Len(front) + Len(tail) \in Nat /\ 1 <= Len(front) + Len(tail)
    BY <1>2, <1>4, <1>5, <2>1
  <2>3. message[1] = front[1]
    BY <1>6, <2>2
  <2>4. front[1] = noise[1]
    BY <1>4, <1>5, <2>1
  <2> QED BY <1>2, <2>1, <2>3, <2>4
<1>9. \A i \in 1 .. k : message[Len(noise) + i] = NewNeighbour(table[cursor + i - 1])
  <2> SUFFICES ASSUME NEW i \in 1 .. k
               PROVE  message[Len(noise) + i] = NewNeighbour(table[cursor + i - 1])
    OBVIOUS
  <2>1. Len(noise) + i \in 1 .. Len(noise) + k /\ ~ (Len(noise) + i <= Len(noise))
    BY <1>2
  <2>2. Len(noise) + i - Len(noise) = i
    BY <1>2
  <2>3. message[Len(noise) + i] = Dumped(k)[i]
    BY <1>2, <1>4, <1>5, <1>6, <2>1, <2>2
  <2> QED BY <1>3, <2>3
<1>10. Len(tail) = 1 => message[Len(message)] = Bare("DONE")
  <2> SUFFICES ASSUME Len(tail) = 1 PROVE message[Len(message)] = Bare("DONE")
    OBVIOUS
  <2>1. Len(front) \in Nat /\ Len(message) = Len(front) + 1
    BY <1>2, <1>4, <1>5, <1>6
  <2>2. message[Len(front) + 1] = tail[Len(front) + 1 - Len(front)]
    BY <1>6, <2>1
  <2>3. Len(front) + 1 - Len(front) = 1
    BY <2>1
  <2> QED BY <1>2, <2>1, <2>2, <2>3
<1> QED BY <1>2, <1>6, <1>7, <1>8, <1>9, <1>10 DEF LaidOut

\* The message of a row that was cached gives its entry, or none.
LEMMA ParsedMessage ==
  ASSUME NEW rows, rows \subseteq Row, NEW msgs \in Seq(Sent(rows)), msgs # <<>>,
         Head(msgs).type = "NEWNEIGH"
  PROVE  \E row \in rows : Head(msgs) = NewNeighbour(row)
<1>1. Head(msgs) \in Sent(rows)
  BY HeadTailProperties
<1>2. \A type \in {"DONE", "ERROR", "OTHER"} : Bare(type).type # "NEWNEIGH"
  BY DEF Bare
<1> QED BY <1>1, <1>2 DEF Sent

\* Parsing one adds its entry, or nothing.
LEMMA ParsedEntry ==
  ASSUME NEW row \in Row, ParseNeighbour, Head(inbox) = NewNeighbour(row)
  PROVE  entries' = IF Listable(row) THEN Append(entries, Entry(row)) ELSE entries
<1> DEFINE read == parse_netlink_attributes(Head(inbox).attributes)
<1>1. entries' = IF Skips(Head(inbox), read) THEN entries
                 ELSE Append(entries, [ip |-> read.ip, mac |-> read.mac])
  BY DEF ParseNeighbour
<1>2. read = parse_netlink_attributes(NewNeighbour(row).attributes)
  OBVIOUS
<1> HIDE DEF read
<1>3. /\ Skips(NewNeighbour(row), read) <=> ~ Listable(row)
      /\ Listable(row) => [ip |-> read.ip, mac |-> read.mac] = Entry(row)
  BY <1>2, ReadRow
<1> QED BY <1>1, <1>3

LEMMA ThreadKeepsCached ==
  ASSUME CachedInv, Thread \/ Faults
  PROVE  CachedInv'
<1> USE DEF CachedInv
<1>1. CASE OpenSocket
  BY <1>1 DEF OpenSocket, kernelVars
<1>2. CASE SendRequest
  <2>1. /\ cached' = Range(table) /\ entries' = <<>> /\ inbox' = <<>>
        /\ UNCHANGED <<table, cursor>> /\ pc' = "recv"
        /\ queue' = <<>> \/ queue' = <<<<Bare("ERROR")>>>>
    BY <1>2 DEF SendRequest
  <2>2. Range(table) \subseteq Row
    BY RangeOfSeq
  <2>3. queue' \in Seq(Seq(Sent(cached')))
    <3>1. Bare("ERROR") \in Sent(cached')
      BY DEF Sent
    <3>2. <<Bare("ERROR")>> \in Seq(Sent(cached'))
      BY <3>1
    <3> DEFINE Datagrams == Seq(Sent(cached'))
               refusal == <<Bare("ERROR")>>
    <3>3. refusal \in Datagrams /\ queue' \in {<<>>, <<refusal>>}
      BY <2>1, <3>2
    <3> HIDE DEF Datagrams, refusal
    <3>4. queue' \in Seq(Datagrams)
      BY <3>3, OneOrNone, Zenon
    <3> QED BY <3>4 DEF Datagrams
  <2>4. inbox' \in Seq(Sent(cached')) /\ entries' \in Seq(Listed(cached'))
    BY <2>1
  <2> QED BY <2>1, <2>2, <2>3, <2>4
<1>3. CASE Receive
  <2>1. /\ queue # <<>> /\ inbox' = Head(queue) /\ queue' = Tail(queue)
        /\ pc' = "parse"
        /\ UNCHANGED <<entries, table, dump, cursor, cached>>
    BY <1>3 DEF Receive, Messages
  <2>2. inbox' \in Seq(Sent(cached)) /\ queue' \in Seq(Seq(Sent(cached)))
    BY <2>1, HeadTailProperties
  <2> QED BY <2>1, <2>2
<1>4. ASSUME NextMessage
      PROVE  /\ inbox' \in Seq(Sent(cached)) /\ pc = "parse"
             /\ UNCHANGED <<table, dump, cursor, queue, cached>>
  BY <1>4, HeadTailProperties DEF NextMessage, kernelVars
<1>5. CASE PassOver
  BY <1>4, <1>5 DEF PassOver
<1>6. CASE ParseNeighbour
  <2>1. NextMessage /\ Head(inbox).type = "NEWNEIGH" /\ inbox # <<>> /\ pc' = pc
    BY <1>6 DEF ParseNeighbour, NextMessage
  <2>2. PICK row \in cached : Head(inbox) = NewNeighbour(row)
    BY <2>1, ParsedMessage
  <2>3. entries' = IF Listable(row) THEN Append(entries, Entry(row)) ELSE entries
    BY <1>6, <2>2, ParsedEntry
  <2>4. Listable(row) => Entry(row) \in Listed(cached)
    BY <2>2 DEF Listed
  <2>5. entries' \in Seq(Listed(cached))
    BY <2>3, <2>4, AppendProperties
  <2> QED BY <1>4, <2>1, <2>5
<1>7. CASE ParseEnd
  <2>1. NextMessage /\ pc' = "returned" /\ entries' = entries
    BY <1>7 DEF ParseEnd, StopParsing
  <2> QED BY <1>4, <2>1
<1>8. CASE DatagramDone
  BY <1>8 DEF DatagramDone, kernelVars
<1>9. CASE SendFails
  BY <1>9 DEF SendFails, kernelVars
<1>10. CASE ReceiveFails
  <2>1. /\ pc' = "returned" /\ UNCHANGED <<entries, inbox, table, dump, cursor, cached>>
        /\ queue' = queue \/ (queue # <<>> /\ queue' = Tail(queue))
    BY <1>10 DEF ReceiveFails, StopReceiving
  <2>2. queue' \in Seq(Seq(Sent(cached)))
    BY <2>1, HeadTailProperties
  <2> QED BY <2>1, <2>2
<1> QED
  BY <1>1, <1>2, <1>3, <1>5, <1>6, <1>7, <1>8, <1>9, <1>10 DEF Thread, Faults

LEMMA KernelKeepsCached ==
  ASSUME CachedInv, Kernel
  PROVE  CachedInv'
<1> USE DEF CachedInv
<1>1. UNCHANGED <<pc, entries, inbox>>
  BY DEF Kernel, threadVars
<1>2. CASE FillDatagram
  <2>1. /\ dump = "running" /\ Range(table) \subseteq cached
        /\ UNCHANGED <<table, cached>>
        /\ RowsFromCursor
    BY <1>2, NextDatagram
  <2>2. PICK k \in Nat : \E noise, tail : Datagram(k, noise, tail)
    BY <1>2, NextDatagram
  <2>3. PICK noise, tail : Datagram(k, noise, tail)
    BY <2>2
  <2> DEFINE message == Filled(k, noise, tail)
  <2> HIDE DEF message
  <2>4. message \in Seq(Sent(cached))
    BY <2>1, <2>3, DatagramMessages DEF message
  <2>5. queue' = <<message>> /\ cursor' = cursor + k
    BY <2>3 DEF Datagram, message
  <2>6. queue' \in Seq(Seq(Sent(cached))) /\ cursor' \in Nat \ {0}
    BY <2>4, <2>5
  <2> QED BY <1>1, <2>1, <2>6
<1>3. CASE TableChanges
  <2>1. /\ dump = "running" /\ table' \in Seq(Row) /\ cached' = cached \cup Range(table')
        /\ UNCHANGED <<dump, cursor, queue>>
    BY <1>3, ChangedTable
  <2>2. Range(table') \subseteq Row /\ cached \subseteq cached'
    BY <2>1, RangeOfSeq
  <2>3. /\ inbox \in Seq(Sent(cached')) /\ queue \in Seq(Seq(Sent(cached')))
        /\ entries \in Seq(Listed(cached'))
    BY <2>2, MoreRows
  <2> QED BY <1>1, <2>1, <2>2, <2>3
<1> QED BY <1>2, <1>3 DEF Kernel

LEMMA CachedStep == CachedInv /\ [Next]_vars => CachedInv'
<1>1. CachedInv /\ UNCHANGED vars => CachedInv'
  BY DEF CachedInv, vars, threadVars, kernelVars
<1> QED BY <1>1, ThreadKeepsCached, KernelKeepsCached DEF Next, Stopped

LEMMA CachedInit == Init => CachedInv
<1> SUFFICES ASSUME Init PROVE CachedInv
  OBVIOUS
<1>1. table \in Seq(Row)
  BY ArpAssumption DEF Init
<1> QED BY <1>1 DEF Init, CachedInv

\* Every entry get_arp_table returns was a row of the kernel's table while it was read,
\* whatever the kernel put into the dump and however the table changed.
THEOREM EntriesFromCache == Spec => []EntriesWereCached
<1>1. CachedInv => EntriesWereCached
  <2> SUFFICES ASSUME CachedInv, NEW i \in DOMAIN entries
               PROVE  \E row \in cached : Listable(row) /\ entries[i] = Entry(row)
    BY DEF EntriesWereCached
  <2>1. entries \in Seq(Listed(cached)) /\ i \in 1 .. Len(entries)
    BY LenProperties DEF CachedInv
  <2>2. entries[i] \in Listed(cached)
    BY <2>1, ElementOfSeq
  <2> QED BY <2>2 DEF Listed
<1> QED BY CachedInit, CachedStep, <1>1, PTL DEF Spec

-----------------------------------------------------------------------------
(* A table at rest                                                         *)

\* The listing of one row more: the recursion defines a function on the rows.
LEMMA ListingSteps ==
  ASSUME table \in Seq(Row)
  PROVE  /\ ListingUpTo[0] = <<>>
         /\ \A i \in 0 .. Len(table) : ListingUpTo[i] \in Seq(Listed(Row))
         /\ \A i \in 1 .. Len(table) :
              /\ Listable(table[i]) => Entry(table[i]) \in Listed(Row)
              /\ ListingUpTo[i] = IF Listable(table[i])
                                  THEN Append(ListingUpTo[i - 1], Entry(table[i]))
                                  ELSE ListingUpTo[i - 1]
<1> DEFINE S == Seq(Listed(Row))
           Step == [n \in Nat |-> [s \in S |->
                      IF n + 1 \in 1 .. Len(table) /\ Listable(table[n + 1])
                      THEN Append(s, Entry(table[n + 1])) ELSE s]]
<1>1. Len(table) \in Nat /\ \A i \in 1 .. Len(table) : table[i] \in Row
  BY LenProperties, ElementOfSeq
<1>2. \A i \in 1 .. Len(table) : Listable(table[i]) => Entry(table[i]) \in Listed(Row)
  BY <1>1 DEF Listed
<1>3. <<>> \in S
  OBVIOUS
<1>4. \A s \in S : \A e \in Listed(Row) : Append(s, e) \in S
  BY AppendProperties
<1> HIDE DEF S
<1>5. \A n \in Nat, s \in S :
        /\ Step[n][s] = IF n + 1 \in 1 .. Len(table) /\ Listable(table[n + 1])
                        THEN Append(s, Entry(table[n + 1])) ELSE s
        /\ Step[n][s] \in S
  BY <1>2, <1>4
<1>6. Step \in [Nat -> [S -> S]]
  BY <1>2, <1>4
<1> HIDE DEF Step
<1>7. \E f : Recursive(f, S, <<>>, Step)
  BY <1>3, <1>6, RecursiveFunction, Zenon
<1> PICK f : Recursive(f, S, <<>>, Step)
  BY <1>7
<1>8. f \in [Nat -> S] /\ f[0] = <<>> /\ \A n \in Nat : f[n + 1] = Step[n][f[n]]
  BY DEF Recursive
<1> DEFINE g == [i \in 0 .. Len(table) |-> f[i]]
<1>9. ASSUME NEW i \in 1 .. Len(table)
      PROVE  /\ i - 1 \in 0 .. Len(table)
             /\ f[i] = IF Listable(table[i]) THEN Append(f[i - 1], Entry(table[i])) ELSE f[i - 1]
  <2>1. i - 1 \in Nat /\ i - 1 + 1 = i /\ i - 1 \in 0 .. Len(table)
    BY <1>1
  <2>2. f[i] = Step[i - 1][f[i - 1]] /\ f[i - 1] \in S
    BY <1>8, <2>1
  <2> QED BY <1>5, <2>1, <2>2
<1>10. g = [i \in 0 .. Len(table) |->
              IF i = 0 THEN <<>>
              ELSE IF Listable(table[i]) THEN Append(g[i - 1], Entry(table[i]))
              ELSE g[i - 1]]
  <2>1. \A i \in 0 .. Len(table) :
          g[i] = IF i = 0 THEN <<>>
                 ELSE IF Listable(table[i]) THEN Append(g[i - 1], Entry(table[i]))
                 ELSE g[i - 1]
    <3> SUFFICES ASSUME NEW i \in 0 .. Len(table)
                 PROVE  g[i] = IF i = 0 THEN <<>>
                               ELSE IF Listable(table[i]) THEN Append(g[i - 1], Entry(table[i]))
                               ELSE g[i - 1]
      OBVIOUS
    <3>1. CASE i = 0
      BY <1>8, <3>1
    <3>2. CASE i # 0
      <4>1. i \in 1 .. Len(table)
        BY <1>1, <3>2
      <4>2. g[i] = f[i] /\ g[i - 1] = f[i - 1]
        BY <1>9, <4>1
      <4> QED BY <1>9, <3>2, <4>1, <4>2
    <3> QED BY <3>1, <3>2
  <2>2. g = [i \in 0 .. Len(table) |-> g[i]]
    OBVIOUS
  <2> HIDE DEF g
  <2> QED BY <2>1, <2>2
<1> HIDE DEF g
<1>11. ListingUpTo = [i \in 0 .. Len(table) |->
                        IF i = 0 THEN <<>>
                        ELSE IF Listable(table[i]) THEN Append(ListingUpTo[i - 1], Entry(table[i]))
                        ELSE ListingUpTo[i - 1]]
  BY <1>10 DEF ListingUpTo
<1>12. /\ ListingUpTo[0] = <<>>
       /\ \A i \in 1 .. Len(table) :
            ListingUpTo[i] = IF Listable(table[i])
                             THEN Append(ListingUpTo[i - 1], Entry(table[i]))
                             ELSE ListingUpTo[i - 1]
  <2> DEFINE l == ListingUpTo
  <2>1. l = [i \in 0 .. Len(table) |->
               IF i = 0 THEN <<>>
               ELSE IF Listable(table[i]) THEN Append(l[i - 1], Entry(table[i])) ELSE l[i - 1]]
    BY <1>11
  <2> HIDE DEF l
  <2>2. 0 \in 0 .. Len(table) /\ \A i \in 1 .. Len(table) : i \in 0 .. Len(table) /\ i # 0
    BY <1>1
  <2>3. \A i \in 0 .. Len(table) :
          l[i] = IF i = 0 THEN <<>>
                 ELSE IF Listable(table[i]) THEN Append(l[i - 1], Entry(table[i])) ELSE l[i - 1]
    BY <2>1, Zenon
  <2>4. l[0] = <<>> /\ \A i \in 1 .. Len(table) :
          l[i] = IF Listable(table[i]) THEN Append(l[i - 1], Entry(table[i])) ELSE l[i - 1]
    BY <2>2, <2>3
  <2> QED BY <2>4 DEF l
<1> DEFINE Typed == {n \in Nat : n <= Len(table) => ListingUpTo[n] \in S}
<1>13. Nat \subseteq Typed
  <2>1. 0 \in Typed
    BY <1>3, <1>12
  <2>2. ASSUME NEW n \in Nat, n \in Typed PROVE n + 1 \in Typed
    <3> SUFFICES ASSUME n + 1 <= Len(table) PROVE ListingUpTo[n + 1] \in S
      OBVIOUS
    <3>1. n + 1 \in 1 .. Len(table) /\ n + 1 - 1 = n /\ ListingUpTo[n] \in S
      BY <1>1, <2>2
    <3> QED BY <1>2, <1>4, <1>12, <3>1
  <2> HIDE DEF Typed
  <2> QED BY <2>1, <2>2, Induction
<1>14. \A i \in 0 .. Len(table) : ListingUpTo[i] \in S
  BY <1>1, <1>13
<1> QED BY <1>2, <1>12, <1>14 DEF S

\* The rows read so far give a beginning of the listing.
LEMMA ListingsArePrefixes ==
  ASSUME table \in Seq(Row), NEW lo \in 0 .. Len(table)
  PROVE  IsPrefix(ListingUpTo[lo], Listing)
<1> DEFINE S == Seq(Listed(Row))
           L(i) == ListingUpTo[i]
           Begins(n) == /\ Len(L(lo)) <= Len(L(n))
                        /\ \A j \in 1 .. Len(L(lo)) : L(lo)[j] = L(n)[j]
           Prefixed == {n \in Nat : lo <= n /\ n <= Len(table) => Begins(n)}
<1>1. Len(table) \in Nat /\ lo \in Nat
  BY LenProperties
<1>2. \A i \in 0 .. Len(table) : L(i) \in S /\ Len(L(i)) \in Nat
  BY ListingSteps, LenProperties
<1>3. ASSUME NEW n \in Nat, n + 1 <= Len(table)
      PROVE  /\ Len(L(n)) <= Len(L(n + 1))
             /\ \A j \in 1 .. Len(L(n)) : L(n + 1)[j] = L(n)[j]
  <2>1. n + 1 \in 1 .. Len(table) /\ n \in 0 .. Len(table) /\ n + 1 - 1 = n
    BY <1>1, <1>3
  <2>2. L(n) \in S /\ Len(L(n)) \in Nat
    BY <1>2, <2>1
  <2>3. /\ Listable(table[n + 1]) => Entry(table[n + 1]) \in Listed(Row)
        /\ L(n + 1) = IF Listable(table[n + 1]) THEN Append(L(n + 1 - 1), Entry(table[n + 1]))
                      ELSE L(n + 1 - 1)
    BY <2>1, ListingSteps
  <2>4. CASE Listable(table[n + 1])
    <3>1. L(n + 1) = Append(L(n), Entry(table[n + 1])) /\ Entry(table[n + 1]) \in Listed(Row)
      BY <2>1, <2>3, <2>4
    <3>2. /\ Len(L(n + 1)) = Len(L(n)) + 1
          /\ \A j \in 1 .. Len(L(n)) : L(n + 1)[j] = L(n)[j]
      BY <2>2, <3>1, AppendProperties
    <3> QED BY <2>2, <3>2
  <2>5. CASE ~ Listable(table[n + 1])
    <3>1. L(n + 1) = L(n)
      BY <2>1, <2>3, <2>5
    <3> QED BY <2>2, <3>1
  <2> QED BY <2>4, <2>5
<1> HIDE DEF L, S
<1>4. 0 \in Prefixed
  <2> SUFFICES ASSUME lo <= 0 PROVE Begins(0)
    OBVIOUS
  <2>1. lo = 0 /\ Len(L(0)) \in Nat
    BY <1>1, <1>2
  <2> QED BY <2>1
<1>5. ASSUME NEW n \in Nat, n \in Prefixed PROVE n + 1 \in Prefixed
  <2> SUFFICES ASSUME lo <= n + 1, n + 1 <= Len(table) PROVE Begins(n + 1)
    OBVIOUS
  <2>1. CASE lo = n + 1
    BY <1>2, <2>1
  <2>2. CASE lo <= n
    <3>1. Begins(n) /\ n \in 0 .. Len(table) /\ n + 1 \in 0 .. Len(table)
      BY <1>1, <1>5, <2>2
    <3>2. Len(L(lo)) \in Nat /\ Len(L(n)) \in Nat /\ Len(L(n + 1)) \in Nat
      BY <1>2, <3>1
    <3> QED BY <1>3, <3>1, <3>2
  <2> QED BY <1>1, <2>1, <2>2
<1> HIDE DEF Prefixed
<1>6. Nat \subseteq Prefixed
  BY <1>4, <1>5, Induction
<1>7. Begins(Len(table))
  BY <1>1, <1>6 DEF Prefixed
<1> DEFINE s == L(lo)
           t == L(Len(table))
<1>8. /\ s \in S /\ t \in S /\ Len(s) \in Nat /\ Len(t) \in Nat /\ Len(s) <= Len(t)
      /\ \A j \in 1 .. Len(s) : s[j] = t[j]
  BY <1>1, <1>2, <1>7
<1> HIDE DEF s, t
<1>9. SubSeq(s, 1, Len(s)) = SubSeq(t, 1, Len(s))
  <2>1. \A j \in 1 .. Len(s) : s[j] \in Listed(Row) /\ t[j] \in Listed(Row)
    BY <1>8, ElementOfSeq DEF S
  <2>2. /\ SubSeq(s, 1, Len(s)) \in Seq(Listed(Row)) /\ SubSeq(t, 1, Len(s)) \in Seq(Listed(Row))
        /\ Len(SubSeq(s, 1, Len(s))) = Len(s) /\ Len(SubSeq(t, 1, Len(s))) = Len(s)
        /\ \A j \in 1 .. Len(s) : SubSeq(s, 1, Len(s))[j] = s[j] /\ SubSeq(t, 1, Len(s))[j] = t[j]
    BY <1>8, <2>1, SubSeqProperties
  <2> QED BY <1>8, <2>2, SeqEqual
<1> QED BY <1>8, <1>9 DEF IsPrefix, Listing, s, t, L

\* Messages that carry the rows behind lo up to hi, perhaps with one of another sort
\* before them and the end of the dump behind.
Carries(rows, msgs, lo, hi) ==
  \E first \in {0, 1}, last \in {0, 1} :
    /\ Len(msgs) = first + (hi - lo) + last
    /\ \A i \in 1 .. first : msgs[i].type = "OTHER"
    /\ \A i \in 1 .. hi - lo : msgs[first + i] = NewNeighbour(rows[lo + i])
    /\ last = 1 => msgs[Len(msgs)].type \in {"DONE", "ERROR"}

Ends(msgs) == \E i \in 1 .. Len(msgs) : msgs[i].type \in {"DONE", "ERROR"}

\* Of the rows of a dump, behind the lo that were parsed come those of the datagram read
\* last, up to mid, then those of the datagram in the socket, up to the hi that were
\* dumped; and nothing comes behind the end of the dump.
Pending(rows, lo, mid, hi) ==
  /\ Carries(rows, inbox, lo, mid)
  /\ pc # "parse" => inbox = <<>>
  /\ Ends(inbox) => queue = <<>> /\ dump # "running"
  /\ queue = <<>> => mid = hi
  /\ queue # <<>> => /\ Len(queue) = 1 /\ Carries(rows, queue[1], mid, hi)
                     /\ Ends(queue[1]) => dump # "running"

Stage(lo, mid) ==
  /\ lo <= mid /\ cursor - 1 <= Len(table)
  /\ entries = ListingUpTo[lo]
  /\ pc # "returned" => Pending(table, lo, mid, cursor - 1)
  /\ dump = "complete" => cursor - 1 = Len(table)
  /\ finished => /\ pc = "returned" /\ dump # "running"
                 /\ dump = "complete" => lo = Len(table)

QuietInv ==
  /\ changes \in [removed : Nat, inserted : Nat, altered : Nat]
  /\ Changed = 0 => \E lo, mid \in 0 .. cursor - 1 : Stage(lo, mid)

LEMMA CarriesNone ==
  ASSUME NEW rows, NEW lo \in Nat, NEW hi \in Nat, lo <= hi, Carries(rows, <<>>, lo, hi)
  PROVE  lo = hi
BY DEF Carries

\* The first message of them: something else, the end, or the next row.
LEMMA CarriesFirst ==
  ASSUME NEW rows, NEW M, NEW msgs \in Seq(M), msgs # <<>>,
         NEW lo \in Nat, NEW hi \in Nat, lo <= hi, Carries(rows, msgs, lo, hi)
  PROVE  /\ Head(msgs).type = "OTHER" => Carries(rows, Tail(msgs), lo, hi)
         /\ Head(msgs).type \in {"DONE", "ERROR"} => lo = hi
         /\ Head(msgs).type = "NEWNEIGH" => /\ lo < hi
                                            /\ Head(msgs) = NewNeighbour(rows[lo + 1])
                                            /\ Carries(rows, Tail(msgs), lo + 1, hi)
         /\ Ends(Tail(msgs)) => Ends(msgs)
         /\ Head(msgs).type \in {"DONE", "ERROR"} => Ends(msgs)
<1>1. /\ Len(msgs) \in Nat /\ Len(msgs) > 0 /\ Len(Tail(msgs)) = Len(msgs) - 1
      /\ Head(msgs) = msgs[1]
      /\ \A i \in 1 .. Len(Tail(msgs)) : Tail(msgs)[i] = msgs[i + 1]
  BY HeadTailProperties, EmptySeq, LenProperties
<1> DEFINE t == Tail(msgs)
<1>2. Len(t) \in Nat /\ Len(t) = Len(msgs) - 1 /\ \A i \in 1 .. Len(t) : t[i] = msgs[i + 1]
  BY <1>1
<1> HIDE DEF t
<1>3. Ends(t) => Ends(msgs)
  <2> SUFFICES ASSUME NEW i \in 1 .. Len(t), t[i].type \in {"DONE", "ERROR"} PROVE Ends(msgs)
    BY DEF Ends
  <2>1. i + 1 \in 1 .. Len(msgs) /\ msgs[i + 1].type \in {"DONE", "ERROR"}
    BY <1>1, <1>2
  <2> QED BY <2>1 DEF Ends
<1>4. Head(msgs).type \in {"DONE", "ERROR"} => Ends(msgs)
  <2>1. 1 \in 1 .. Len(msgs)
    BY <1>1
  <2> QED BY <1>1, <2>1 DEF Ends
<1>5. PICK first \in {0, 1}, last \in {0, 1} :
        /\ Len(msgs) = first + (hi - lo) + last
        /\ \A i \in 1 .. first : msgs[i].type = "OTHER"
        /\ \A i \in 1 .. hi - lo : msgs[first + i] = NewNeighbour(rows[lo + i])
        /\ last = 1 => msgs[Len(msgs)].type \in {"DONE", "ERROR"}
  BY DEF Carries
<1>6. \A row : NewNeighbour(row).type = "NEWNEIGH"
  BY DEF NewNeighbour
<1>7. last = 1 /\ Len(t) > 0 => t[Len(t)].type \in {"DONE", "ERROR"}
  <2> SUFFICES ASSUME last = 1, Len(t) > 0 PROVE t[Len(t)].type \in {"DONE", "ERROR"}
    OBVIOUS
  <2>1. Len(t) \in 1 .. Len(t) /\ Len(t) + 1 = Len(msgs)
    BY <1>1, <1>2
  <2>2. t[Len(t)] = msgs[Len(msgs)]
    BY <1>2, <2>1
  <2> QED BY <1>5, <2>2
<1>8. CASE first = 1
  <2>1. msgs[1].type = "OTHER"
    BY <1>5, <1>8
  <2>2. Len(t) = 0 + (hi - lo) + last
    BY <1>2, <1>5, <1>8
  <2>3. \A i \in 1 .. hi - lo : t[0 + i] = NewNeighbour(rows[lo + i])
    <3> SUFFICES ASSUME NEW i \in 1 .. hi - lo PROVE t[i] = NewNeighbour(rows[lo + i])
      OBVIOUS
    <3>1. i \in 1 .. Len(t) /\ i + 1 = first + i
      BY <1>8, <2>2
    <3>2. t[i] = msgs[i + 1]
      BY <1>2, <3>1
    <3>3. msgs[first + i] = NewNeighbour(rows[lo + i])
      BY <1>5
    <3> QED BY <3>1, <3>2, <3>3
  <2>4. last = 1 => t[Len(t)].type \in {"DONE", "ERROR"}
    BY <1>7, <2>2
  <2>5. \A i \in 1 .. 0 : t[i].type = "OTHER"
    OBVIOUS
  <2>6. Carries(rows, t, lo, hi)
    BY <2>2, <2>3, <2>4, <2>5 DEF Carries
  <2> QED BY <1>1, <1>3, <1>4, <2>1, <2>6 DEF t
<1>9. CASE first = 0 /\ lo = hi
  <2>1. last = 1 /\ Len(msgs) = 1
    BY <1>1, <1>5, <1>9
  <2>2. msgs[1].type \in {"DONE", "ERROR"}
    BY <1>5, <2>1
  <2> QED BY <1>1, <1>3, <1>4, <1>9, <2>2 DEF t
<1>10. CASE first = 0 /\ lo < hi
  <2>1. 1 \in 1 .. hi - lo /\ first + 1 = 1
    BY <1>10
  <2>2. msgs[first + 1] = NewNeighbour(rows[lo + 1])
    BY <1>5, <2>1
  <2>3. msgs[1] = NewNeighbour(rows[lo + 1])
    BY <2>1, <2>2
  <2>4. Len(t) = 0 + (hi - (lo + 1)) + last
    BY <1>2, <1>5, <1>10
  <2>5. \A i \in 1 .. hi - (lo + 1) : t[0 + i] = NewNeighbour(rows[lo + 1 + i])
    <3> SUFFICES ASSUME NEW i \in 1 .. hi - (lo + 1)
                 PROVE  t[i] = NewNeighbour(rows[lo + 1 + i])
      OBVIOUS
    <3>1. i \in 1 .. Len(t) /\ i + 1 \in 1 .. hi - lo /\ first + (i + 1) = i + 1
          /\ lo + (i + 1) = lo + 1 + i
      BY <1>10, <2>4
    <3>2. t[i] = msgs[i + 1]
      BY <1>2, <3>1
    <3>3. msgs[first + (i + 1)] = NewNeighbour(rows[lo + (i + 1)])
      BY <1>5, <3>1
    <3> QED BY <3>1, <3>2, <3>3
  <2>6. last = 1 => t[Len(t)].type \in {"DONE", "ERROR"}
    <3> SUFFICES ASSUME last = 1 PROVE t[Len(t)].type \in {"DONE", "ERROR"}
      OBVIOUS
    <3>1. Len(t) > 0
      BY <1>10, <2>4
    <3> QED BY <1>7, <3>1
  <2>7. \A i \in 1 .. 0 : t[i].type = "OTHER"
    OBVIOUS
  <2>8. Carries(rows, t, lo + 1, hi)
    BY <2>4, <2>5, <2>6, <2>7 DEF Carries
  <2> QED BY <1>1, <1>3, <1>4, <1>6, <1>10, <2>3, <2>8 DEF t
<1>11. first = 1 \/ (first = 0 /\ lo = hi) \/ (first = 0 /\ lo < hi)
  BY <1>5
<1> QED BY <1>8, <1>9, <1>10, <1>11

\* What the kernel keeps of its table, the listing and the messages keep.
LEMMA SameTable == table' = table => ListingUpTo' = ListingUpTo
BY DEF ListingUpTo

LEMMA SameCarriage ==
  ASSUME table' = table, NEW lo, NEW hi
  PROVE  /\ \A msgs : inbox' = msgs /\ Carries(table, msgs, lo, hi) =>
                        Carries(table, inbox, lo, hi)'
         /\ \A msgs : queue'[1] = msgs /\ Carries(table, msgs, lo, hi) =>
                        Carries(table, queue[1], lo, hi)'
BY DEF Carries

\* The thread works its way along the messages: it goes on to the next of them, parses a
\* row, gives up, or meets the end of the dump with every row parsed that was dumped.
LEMMA ThreadWorks ==
  ASSUME CachedInv, Thread \/ Faults, pc \in {"recv", "parse"},
         NEW rows, NEW lo \in Nat, NEW mid \in Nat, NEW hi \in Nat,
         lo <= mid, mid <= hi, Pending(rows, lo, mid, hi)
  PROVE  /\ UNCHANGED dump
         /\ \/ /\ pc' # "returned" /\ UNCHANGED <<entries, finished>>
               /\ \E middle \in lo .. hi : Pending(rows, lo, middle, hi)'
            \/ /\ pc' # "returned" /\ UNCHANGED finished
               /\ lo < mid /\ ParseNeighbour /\ Head(inbox) = NewNeighbour(rows[lo + 1])
               /\ Pending(rows, lo + 1, mid, hi)'
            \/ pc' = "returned" /\ UNCHANGED <<entries, finished>>
            \/ /\ pc' = "returned" /\ UNCHANGED entries
               /\ lo = hi /\ dump # "running"
<1> DEFINE M == Sent(cached)
<1>1. inbox \in Seq(M) /\ queue \in Seq(Seq(M))
  BY DEF CachedInv
<1> HIDE DEF M
<1>2. CASE Receive
  <2>1. /\ pc = "recv" /\ pc' = "parse" /\ queue # <<>>
        /\ inbox' = Head(queue) /\ queue' = Tail(queue)
        /\ UNCHANGED <<entries, dump, finished>>
    BY <1>2 DEF Receive, Messages
  <2>2. /\ Len(queue) = 1 /\ Carries(rows, queue[1], mid, hi)
        /\ Ends(queue[1]) => dump # "running"
        /\ Carries(rows, <<>>, lo, mid)
    BY <2>1 DEF Pending
  <2>3. lo = mid
    BY <2>2, CarriesNone
  <2>4. Head(queue) = queue[1] /\ Tail(queue) = <<>>
    BY <1>1, <2>1, <2>2, HeadTailProperties, EmptySeq
  <2>5. Carries(rows, inbox, lo, hi)'
    BY <2>1, <2>2, <2>3, <2>4 DEF Carries
  <2>6. Ends(inbox)' => dump' # "running"
    BY <2>1, <2>2, <2>4 DEF Ends
  <2>7. Pending(rows, lo, hi, hi)' /\ hi \in lo .. hi
    BY <2>1, <2>4, <2>5, <2>6 DEF Pending
  <2> QED BY <2>1, <2>7
<1>3. ASSUME NextMessage
      PROVE  /\ pc = "parse" /\ inbox # <<>> /\ inbox' = Tail(inbox)
             /\ UNCHANGED <<dump, queue>> /\ Carries(rows, inbox, lo, mid)
  BY <1>3 DEF NextMessage, kernelVars, Pending
<1>4. ASSUME NextMessage, pc' = "parse",
             NEW low, Carries(rows, Tail(inbox), low, mid), Ends(Tail(inbox)) => Ends(inbox)
      PROVE  Pending(rows, low, mid, hi)'
  <2>1. Carries(rows, inbox, low, mid)'
    BY <1>3, <1>4 DEF Carries
  <2>2. Ends(inbox)' => queue' = <<>> /\ dump' # "running"
    BY <1>3, <1>4 DEF Ends, Pending
  <2>3. queue' # <<>> => /\ Len(queue') = 1 /\ Carries(rows, queue[1], mid, hi)'
                         /\ Ends(queue[1])' => dump' # "running"
    BY <1>3, <1>4 DEF Pending, Carries, Ends
  <2> QED BY <1>3, <1>4, <2>1, <2>2, <2>3 DEF Pending
<1>5. CASE PassOver
  <2>1. NextMessage /\ Head(inbox).type = "OTHER" /\ UNCHANGED <<pc, entries, finished>>
    BY <1>5 DEF PassOver
  <2>2. Carries(rows, Tail(inbox), lo, mid) /\ (Ends(Tail(inbox)) => Ends(inbox))
    BY <1>1, <1>3, <2>1, CarriesFirst
  <2>3. Pending(rows, lo, mid, hi)' /\ mid \in lo .. hi /\ pc' = "parse"
    BY <1>3, <1>4, <2>1, <2>2
  <2> QED BY <1>3, <2>1, <2>3
<1>6. CASE ParseNeighbour
  <2>1. NextMessage /\ Head(inbox).type = "NEWNEIGH" /\ UNCHANGED <<pc, finished>>
    BY <1>6 DEF ParseNeighbour
  <2>2. /\ lo < mid /\ Head(inbox) = NewNeighbour(rows[lo + 1])
        /\ Carries(rows, Tail(inbox), lo + 1, mid) /\ (Ends(Tail(inbox)) => Ends(inbox))
    BY <1>1, <1>3, <2>1, CarriesFirst
  <2>3. Pending(rows, lo + 1, mid, hi)' /\ pc' = "parse"
    BY <1>3, <1>4, <2>1, <2>2
  <2> QED BY <1>3, <1>6, <2>1, <2>2, <2>3
<1>7. CASE ParseEnd
  <2>1. /\ NextMessage /\ Head(inbox).type \in {"DONE", "ERROR"}
        /\ pc' = "returned" /\ entries' = entries
    BY <1>7 DEF ParseEnd, StopParsing
  <2>2. lo = mid /\ Ends(inbox)
    BY <1>1, <1>3, <2>1, CarriesFirst
  <2>3. mid = hi /\ dump # "running"
    BY <2>2 DEF Pending
  <2> QED BY <1>3, <2>1, <2>2, <2>3
<1>8. CASE DatagramDone
  <2>1. /\ pc = "parse" /\ inbox = <<>> /\ pc' = "recv"
        /\ UNCHANGED <<entries, inbox, finished, dump, queue>>
    BY <1>8 DEF DatagramDone, kernelVars
  <2>2. Pending(rows, lo, mid, hi)' /\ mid \in lo .. hi
    BY <2>1 DEF Pending, Carries, Ends
  <2> QED BY <2>1, <2>2
<1>9. CASE ReceiveFails
  BY <1>9 DEF ReceiveFails, StopReceiving
<1> QED
  BY <1>2, <1>5, <1>6, <1>7, <1>8, <1>9
  DEF Thread, Faults, OpenSocket, SendRequest, SendFails

\* The thread works its way along the messages.
LEMMA ThreadKeepsQuiet ==
  ASSUME CachedInv, Thread \/ Faults,
         NEW lo \in 0 .. cursor - 1, NEW mid \in 0 .. cursor - 1, Stage(lo, mid)
  PROVE  \E low, middle \in 0 .. cursor' - 1 : Stage(low, middle)'
<1>1. /\ table \in Seq(Row) /\ cached \subseteq Row /\ cursor \in Nat /\ Len(table) \in Nat
      /\ inbox \in Seq(Sent(cached)) /\ queue \in Seq(Seq(Sent(cached)))
      /\ pc \in {"socket", "send"} =>
           dump = "none" /\ entries = <<>> /\ inbox = <<>> /\ queue = <<>>
  BY LenProperties DEF CachedInv
<1>2. /\ lo <= mid /\ cursor - 1 <= Len(table)
      /\ entries = ListingUpTo[lo]
      /\ pc # "returned" => Pending(table, lo, mid, cursor - 1)
      /\ dump = "complete" => cursor - 1 = Len(table)
      /\ finished => pc = "returned"
  BY DEF Stage
<1>3. table' = table /\ cursor' = cursor /\ ListingUpTo' = ListingUpTo
  <2>1. table' = table /\ cursor' = cursor
    BY DEF Thread, Faults, OpenSocket, SendRequest, Receive, PassOver,
           ParseNeighbour, ParseEnd, DatagramDone, SendFails, ReceiveFails, NextMessage, kernelVars
  <2> QED BY <2>1, SameTable
<1>4. /\ lo \in Nat /\ mid \in Nat /\ lo \in 0 .. cursor' - 1 /\ mid \in 0 .. cursor' - 1
      /\ lo \in 0 .. Len(table) /\ cursor - 1 \in 0 .. cursor' - 1
  BY <1>1, <1>2, <1>3
\* A return without DONE: the entries stay what they are.
<1>5. ASSUME pc' = "returned", ~ finished', UNCHANGED <<entries, dump>>
      PROVE  Stage(lo, mid)'
  BY <1>2, <1>3, <1>5 DEF Stage
<1>6. CASE OpenSocket
  <2>1. UNCHANGED <<entries, inbox, dump, queue, finished>> /\ pc = "socket"
        /\ pc' \in {"send", "returned"}
    BY <1>6 DEF OpenSocket, kernelVars
  <2>2. CASE pc' = "returned"
    BY <1>2, <1>4, <1>5, <2>1, <2>2
  <2>3. CASE pc' = "send"
    <3>1. Pending(table, lo, mid, cursor - 1)'
      BY <1>1, <1>2, <1>3, <2>1, <2>3 DEF Pending, Carries, Ends
    <3> QED BY <1>2, <1>3, <1>4, <2>1, <2>3, <3>1 DEF Stage
  <2> QED BY <2>1, <2>2, <2>3
<1>7. CASE SendRequest
  <2>1. /\ UNCHANGED <<entries, inbox, finished>> /\ pc = "send" /\ pc' = "recv"
        /\ \/ dump' = "running" /\ queue' = queue
           \/ dump' = "broken" /\ queue' = <<<<Bare("ERROR")>>>>
    BY <1>7 DEF SendRequest
  <2>2. inbox = <<>> /\ queue = <<>> /\ Pending(table, lo, mid, cursor - 1)
    BY <1>1, <1>2, <2>1
  <2>3. mid = cursor - 1
    BY <2>2 DEF Pending
  <2>4. Carries(table, inbox, lo, mid)'
    BY <1>3, <2>1, <2>2, SameCarriage DEF Pending
  <2>5. ~ Ends(inbox)'
    BY <2>1, <2>2 DEF Ends
  <2>6. CASE queue' = <<>>
    BY <1>2, <1>3, <1>4, <2>1, <2>2, <2>3, <2>4, <2>5, <2>6 DEF Stage, Pending
  <2>7. CASE dump' = "broken" /\ queue' = <<<<Bare("ERROR")>>>>
    <3> DEFINE msgs == <<Bare("ERROR")>>
    <3>1. Len(msgs) = 1 /\ msgs[Len(msgs)].type \in {"DONE", "ERROR"}
      BY DEF Bare
    <3> HIDE DEF msgs
    <3>2. queue' = <<msgs>> /\ Len(queue') = 1 /\ queue'[1] = msgs /\ queue' # <<>>
      BY <2>7 DEF msgs
    <3>3. Carries(table, msgs, mid, mid)
      <4>1. Len(msgs) = 0 + (mid - mid) + 1
        BY <1>4, <3>1
      <4>2. \A i \in 1 .. mid - mid : msgs[0 + i] = NewNeighbour(table[mid + i])
        BY <1>4
      <4>3. \A i \in 1 .. 0 : msgs[i].type = "OTHER"
        OBVIOUS
      <4> QED BY <3>1, <4>1, <4>2, <4>3 DEF Carries
    <3>4. Carries(table, queue[1], mid, cursor - 1)'
      BY <1>3, <2>3, <3>2, <3>3 DEF Carries
    <3>5. Pending(table, lo, mid, cursor - 1)'
      BY <2>1, <2>2, <2>4, <2>5, <2>7, <3>2, <3>4 DEF Pending
    <3> QED BY <1>2, <1>3, <1>4, <2>1, <2>7, <3>5 DEF Stage
  <2> QED BY <2>1, <2>2, <2>6, <2>7
<1>8. CASE SendFails
  <2>1. pc = "send" /\ pc' = "returned" /\ UNCHANGED <<entries, dump, finished>>
    BY <1>8 DEF SendFails, kernelVars
  <2> QED BY <1>2, <1>4, <1>5, <2>1
<1>9. ASSUME lo < mid
      PROVE  ListingUpTo[lo + 1] = IF Listable(table[lo + 1])
                                   THEN Append(ListingUpTo[lo], Entry(table[lo + 1]))
                                   ELSE ListingUpTo[lo]
  <2>1. lo + 1 \in 1 .. Len(table) /\ lo + 1 - 1 = lo
    BY <1>1, <1>2, <1>4, <1>9
  <2>2. ListingUpTo[lo + 1] = IF Listable(table[lo + 1])
                              THEN Append(ListingUpTo[lo + 1 - 1], Entry(table[lo + 1]))
                              ELSE ListingUpTo[lo + 1 - 1]
    BY <1>1, <2>1, ListingSteps
  <2> QED BY <2>1, <2>2
<1>10. CASE pc \in {"recv", "parse"}
  <2> PICK rows : rows = table
    OBVIOUS
  <2> PICK hi \in Nat : hi = cursor - 1
    BY <1>1, <1>4
  <2>1. Pending(rows, lo, mid, hi) /\ mid <= hi /\ ~ finished
    BY <1>2, <1>10
  <2>2. ASSUME NEW low, NEW middle, Pending(rows, low, middle, hi)'
        PROVE  Pending(table, low, middle, cursor - 1)'
    BY <1>3, <2>2
  <2>3. UNCHANGED dump
    BY <1>2, <1>4, <1>10, <2>1, ThreadWorks
  <2>4. CASE /\ pc' # "returned" /\ UNCHANGED <<entries, finished>>
             /\ \E middle \in lo .. hi : Pending(rows, lo, middle, hi)'
    <3>1. PICK middle \in lo .. hi : Pending(rows, lo, middle, hi)'
      BY <2>4
    <3>2. middle \in 0 .. cursor' - 1 /\ lo <= middle
      BY <1>3, <1>4
    <3>3. Stage(lo, middle)'
      BY <1>2, <1>3, <2>1, <2>2, <2>3, <2>4, <3>1, <3>2 DEF Stage
    <3> QED BY <1>4, <3>2, <3>3
  <2>5. CASE /\ pc' # "returned" /\ UNCHANGED finished
             /\ lo < mid /\ ParseNeighbour /\ Head(inbox) = NewNeighbour(rows[lo + 1])
             /\ Pending(rows, lo + 1, mid, hi)'
    <3>1. lo + 1 \in 1 .. Len(table) /\ lo + 1 <= mid
          /\ lo + 1 \in 0 .. cursor' - 1
      BY <1>1, <1>2, <1>3, <1>4, <2>5
    <3>2. table[lo + 1] \in Row
      BY <1>1, <3>1, ElementOfSeq
    <3>3. entries' = IF Listable(table[lo + 1]) THEN Append(entries, Entry(table[lo + 1]))
                     ELSE entries
      BY <2>5, <3>2, ParsedEntry
    <3>4. entries' = ListingUpTo[lo + 1]
      BY <1>2, <1>9, <2>5, <3>3
    <3>5. Stage(lo + 1, mid)'
      BY <1>2, <1>3, <2>1, <2>2, <2>3, <2>5, <3>1, <3>4 DEF Stage
    <3> QED BY <1>4, <3>1, <3>5
  <2>6. CASE pc' = "returned" /\ UNCHANGED <<entries, finished>>
    BY <1>4, <1>5, <2>1, <2>3, <2>6
  <2>7. CASE pc' = "returned" /\ UNCHANGED entries /\ lo = hi /\ dump # "running"
    BY <1>2, <1>3, <1>4, <2>3, <2>7 DEF Stage
  <2> QED BY <1>2, <1>4, <1>10, <2>1, <2>4, <2>5, <2>6, <2>7, ThreadWorks
<1> QED
  BY <1>6, <1>7, <1>8, <1>10
  DEF Thread, Faults, Receive, PassOver, ParseNeighbour, ParseEnd, DatagramDone, ReceiveFails,
      NextMessage

\* A datagram carries the rows from the kernel's cursor on.
LEMMA DatagramCarries ==
  ASSUME table \in Seq(Row), cursor \in Nat \ {0}, NEW rows, Range(table) \subseteq rows,
         RowsFromCursor,
         NEW k \in Nat, NEW noise, NEW tail, Datagram(k, noise, tail),
         NEW message, message = Filled(k, noise, tail)
  PROVE  /\ \A lo : lo = cursor - 1 => Carries(table, message, lo, lo + k)
         /\ Ends(message) => tail # <<>>
<1>1. /\ Len(noise) \in {0, 1} /\ Len(tail) \in {0, 1} /\ (tail = <<>> <=> Len(tail) = 0)
      /\ Len(message) = Len(noise) + k + Len(tail)
      /\ \A i \in 1 .. Len(noise) : message[i] = Bare("OTHER")
      /\ \A i \in 1 .. k : message[Len(noise) + i] = NewNeighbour(table[cursor + i - 1])
      /\ Len(tail) = 1 => message[Len(message)] = Bare("DONE")
  <2>1. LaidOut(message, k, noise, tail)
    BY DatagramMessages
  <2> QED BY <2>1 DEF LaidOut
<1> PICK lo \in Nat : lo = cursor - 1
  OBVIOUS
<1>2. PICK first \in {0, 1} : first = Len(noise)
  BY <1>1
<1>3. PICK last \in {0, 1} : last = Len(tail)
  BY <1>1
<1>4. Len(message) = first + k + last
  BY <1>1, <1>2, <1>3
<1>5. \A i \in 1 .. first : message[i].type = "OTHER"
  BY <1>1, <1>2 DEF Bare
<1>6. \A i \in 1 .. k : message[first + i] = NewNeighbour(table[lo + i])
  <2> SUFFICES ASSUME NEW i \in 1 .. k PROVE message[first + i] = NewNeighbour(table[lo + i])
    OBVIOUS
  <2>1. cursor + i - 1 = lo + i
    OBVIOUS
  <2> QED BY <1>1, <1>2, <2>1
<1>7. Carries(table, message, lo, lo + k)
  <2> PICK hi \in Nat : hi = lo + k
    OBVIOUS
  <2>1. hi - lo = k
    OBVIOUS
  <2>2. last = 1 => message[Len(message)].type \in {"DONE", "ERROR"}
    BY <1>1, <1>3 DEF Bare
  <2>3. Carries(table, message, lo, hi)
    BY <1>4, <1>5, <1>6, <2>1, <2>2 DEF Carries
  <2> QED BY <2>3
<1>8. ASSUME last = 0 PROVE ~ Ends(message)
  <2> SUFFICES ASSUME NEW i \in 1 .. first + k
               PROVE  message[i].type \notin {"DONE", "ERROR"}
    BY <1>4, <1>8 DEF Ends
  <2>1. CASE i <= first
    <3>1. i \in 1 .. first
      BY <2>1
    <3> QED BY <1>5, <3>1
  <2>2. CASE i > first
    <3>1. i - first \in 1 .. k /\ first + (i - first) = i
      BY <2>2
    <3>2. message[first + (i - first)] = NewNeighbour(table[lo + (i - first)])
      BY <1>6, <3>1
    <3>3. message[i] = NewNeighbour(table[lo + (i - first)])
      BY <3>1, <3>2
    <3>4. \A row : NewNeighbour(row).type = "NEWNEIGH"
      BY DEF NewNeighbour
    <3>5. message[i].type = "NEWNEIGH"
      BY <3>3, <3>4, Zenon
    <3> QED BY <3>5
  <2> QED BY <2>1, <2>2
<1> QED BY <1>1, <1>3, <1>7, <1>8

\* The rows that were not dumped yet are the table's from the cursor on.
Undumped == IF cursor <= Len(table) THEN Len(table) - cursor + 1 ELSE 0
DumpsOn(rows, hi) == \A i \in 1 .. Undumped : rows[hi + i] = table[cursor + i - 1]

\* The kernel puts the next of them into the socket.
LEMMA KernelWorks ==
  ASSUME CachedInv, UNCHANGED threadVars, FillDatagram,
         NEW rows, NEW lo \in Nat, NEW mid \in Nat, NEW hi \in Nat,
         DumpsOn(rows, hi), Pending(rows, lo, mid, hi)
  PROVE  \E k \in 0 .. Undumped :
           /\ mid = hi /\ cursor' = cursor + k
           /\ Pending(rows, lo, hi, hi + k)'
           /\ dump' = "complete" => k = Undumped
<1>1. table \in Seq(Row) /\ cursor \in Nat \ {0} /\ Len(table) \in Nat
  BY LenProperties DEF CachedInv
<1>2. /\ queue = <<>> /\ table' = table /\ Len(Rest) = Undumped
      /\ RowsFromCursor
  BY <1>1, NextDatagram DEF Undumped
<1>3. PICK k \in Nat : \E noise, tail : Datagram(k, noise, tail)
  BY <1>1, NextDatagram
<1>4. PICK noise, tail : Datagram(k, noise, tail)
  BY <1>3
<1>5. PICK message : message = Filled(k, noise, tail)
  OBVIOUS
<1>6. /\ k \in 0 .. Undumped
      /\ queue' = <<message>> /\ cursor' = cursor + k
      /\ dump' = IF tail = <<>> THEN "running"
                 ELSE IF k = Undumped THEN "complete" ELSE "broken"
  BY <1>1, <1>2, <1>4, <1>5 DEF Datagram, Undumped
<1>7. Carries(rows, message, hi, hi + k) /\ (Ends(message) => tail # <<>>)
  <2> PICK base \in Nat : base = cursor - 1
    BY <1>1
  <2>1. Range(table) \subseteq Row
    BY <1>1, RangeOfSeq
  <2>2. Carries(table, message, base, base + k) /\ (Ends(message) => tail # <<>>)
    BY <1>1, <1>2, <1>4, <1>5, <2>1, DatagramCarries
  <2>3. PICK first \in {0, 1}, last \in {0, 1} :
          /\ Len(message) = first + k + last
          /\ \A i \in 1 .. first : message[i].type = "OTHER"
          /\ \A i \in 1 .. k : message[first + i] = NewNeighbour(table[base + i])
          /\ last = 1 => message[Len(message)].type \in {"DONE", "ERROR"}
    <3> PICK top \in Nat : top = base + k
      OBVIOUS
    <3>1. Carries(table, message, base, top) /\ top - base = k
      BY <2>2
    <3> QED BY <3>1 DEF Carries
  <2>4. \A i \in 1 .. k : rows[hi + i] = table[base + i]
    <3> SUFFICES ASSUME NEW i \in 1 .. k PROVE rows[hi + i] = table[base + i]
      OBVIOUS
    <3>1. i \in 1 .. Undumped /\ cursor + i - 1 = base + i
      BY <1>1, <1>6 DEF Undumped
    <3> QED BY <3>1 DEF DumpsOn
  <2>5. \A i \in 1 .. k : message[first + i] = NewNeighbour(rows[hi + i])
    BY <2>3, <2>4
  <2>6. Carries(rows, message, hi, hi + k)
    <3> PICK top \in Nat : top = hi + k
      OBVIOUS
    <3>1. top - hi = k
      OBVIOUS
    <3>2. Carries(rows, message, hi, top)
      BY <2>3, <2>5, <3>1 DEF Carries
    <3> QED BY <3>2
  <2> QED BY <2>2, <2>6
<1>8. Pending(rows, lo, hi, hi + k)' /\ mid = hi
  <2>1. mid = hi /\ UNCHANGED <<pc, inbox>> /\ dump = "running"
    BY <1>1, <1>2, NextDatagram DEF Pending, threadVars
  <2>2. Carries(rows, inbox, lo, hi)'
    BY <2>1 DEF Pending, Carries
  <2>3. ~ Ends(inbox)' /\ (pc' # "parse" => inbox' = <<>>)
    BY <2>1 DEF Pending, Ends
  <2>4. queue' # <<>> /\ Len(queue') = 1 /\ queue'[1] = message
    BY <1>6
  <2>5. Carries(rows, queue[1], hi, hi + k)'
    BY <1>7, <2>4 DEF Carries
  <2>6. Ends(queue[1])' => dump' # "running"
    BY <1>6, <1>7, <2>4 DEF Ends
  <2> QED BY <2>1, <2>2, <2>3, <2>4, <2>5, <2>6 DEF Pending
<1>9. dump' = "complete" => k = Undumped
  BY <1>6
<1> QED BY <1>6, <1>8, <1>9

LEMMA KernelKeepsQuiet ==
  ASSUME CachedInv, UNCHANGED threadVars, FillDatagram,
         NEW lo \in 0 .. cursor - 1, NEW mid \in 0 .. cursor - 1, Stage(lo, mid)
  PROVE  \E middle \in 0 .. cursor' - 1 : lo \in 0 .. cursor' - 1 /\ Stage(lo, middle)'
<1>1. table \in Seq(Row) /\ cursor \in Nat \ {0} /\ Len(table) \in Nat
  BY LenProperties DEF CachedInv
<1>2. /\ lo <= mid /\ cursor - 1 <= Len(table) /\ entries = ListingUpTo[lo]
      /\ pc # "returned" => Pending(table, lo, mid, cursor - 1)
      /\ finished => dump # "running"
  BY DEF Stage
<1>3. /\ dump = "running" /\ table' = table /\ Len(Rest) = Undumped
  BY <1>1, NextDatagram DEF Undumped
<1>4. ListingUpTo' = ListingUpTo /\ UNCHANGED <<pc, entries, inbox, finished>>
  BY <1>3, SameTable DEF threadVars
<1>5. Undumped = Len(table) - cursor + 1
  BY <1>1, <1>2 DEF Undumped
<1>6. \E k \in 0 .. Undumped : /\ cursor' = cursor + k
                               /\ dump' = "complete" => k = Undumped
  <2>1. PICK k \in Nat : \E noise, tail : Datagram(k, noise, tail)
    BY <1>1, NextDatagram
  <2>2. PICK noise, tail : Datagram(k, noise, tail)
    BY <2>1
  <2>3. /\ cursor' = cursor + k /\ k \in 0 .. Undumped
        /\ dump' = "complete" => k = Undumped
    BY <1>1, <1>3, <1>5, <2>2 DEF Datagram
  <2> QED BY <2>3
<1>7. PICK k \in 0 .. Undumped : /\ cursor' = cursor + k
                                 /\ dump' = "complete" => k = Undumped
  BY <1>6
<1>8. PICK middle \in Nat : middle = cursor - 1
  BY <1>1
<1>9. /\ cursor' - 1 <= Len(table') /\ middle + k = cursor' - 1
      /\ middle \in 0 .. cursor' - 1 /\ lo \in 0 .. cursor' - 1 /\ lo <= middle
      /\ dump' = "complete" => cursor' - 1 = Len(table')
  BY <1>1, <1>2, <1>3, <1>5, <1>7, <1>8
<1>10. ASSUME pc # "returned" PROVE Pending(table, lo, middle, cursor - 1)'
  <2> PICK rows : rows = table
    OBVIOUS
  <2>1. DumpsOn(rows, middle)
    BY <1>1, <1>8 DEF DumpsOn, Undumped
  <2>2. Pending(rows, lo, mid, middle)
    BY <1>2, <1>8, <1>10
  <2>3. PICK n \in 0 .. Undumped : /\ cursor' = cursor + n
                                   /\ Pending(rows, lo, middle, middle + n)'
    BY <1>10, <2>1, <2>2, KernelWorks
  <2>4. middle + n = cursor' - 1
    BY <1>1, <1>5, <1>8, <2>3
  <2> QED BY <1>3, <2>3, <2>4
<1>11. ~ finished'
  BY <1>2, <1>3, <1>4
<1>12. Stage(lo, middle)'
  BY <1>2, <1>3, <1>4, <1>9, <1>10, <1>11 DEF Stage
<1> QED BY <1>9, <1>12

LEMMA QuietStep ==
  ASSUME CachedInv, QuietInv, [Next]_vars
  PROVE  QuietInv'
<1>1. changes \in [removed : Nat, inserted : Nat, altered : Nat]
  BY DEF QuietInv
<1>2. CASE Thread \/ Faults
  <2>1. changes' = changes
    BY <1>2 DEF Thread, Faults, OpenSocket, SendRequest, Receive, PassOver,
           ParseNeighbour, ParseEnd, DatagramDone, SendFails, ReceiveFails, NextMessage, kernelVars
  <2>2. ASSUME Changed' = 0 PROVE \E low, middle \in 0 .. cursor' - 1 : Stage(low, middle)'
    <3>1. Changed = 0
      BY <2>1, <2>2 DEF Changed
    <3>2. PICK lo \in 0 .. cursor - 1, mid \in 0 .. cursor - 1 : Stage(lo, mid)
      BY <3>1 DEF QuietInv
    <3> QED BY <1>2, <3>2, ThreadKeepsQuiet
  <2> QED BY <1>1, <2>1, <2>2 DEF QuietInv
<1>3. CASE FillDatagram /\ UNCHANGED threadVars
  <2>1. changes' = changes
    BY <1>3 DEF FillDatagram
  <2>2. ASSUME Changed' = 0 PROVE \E low, middle \in 0 .. cursor' - 1 : Stage(low, middle)'
    <3>1. Changed = 0
      BY <2>1, <2>2 DEF Changed
    <3>2. PICK lo \in 0 .. cursor - 1, mid \in 0 .. cursor - 1 : Stage(lo, mid)
      BY <3>1 DEF QuietInv
    <3>3. \E middle \in 0 .. cursor' - 1 : lo \in 0 .. cursor' - 1 /\ Stage(lo, middle)'
      BY <1>3, <3>2, KernelKeepsQuiet
    <3> QED BY <3>3
  <2> QED BY <1>1, <2>1, <2>2 DEF QuietInv
<1>4. CASE TableChanges
  <2>1. PICK kind \in {"removed", "inserted", "altered"} :
          changes' = [changes EXCEPT ![kind] = @ + 1]
    BY <1>4, ChangedTable DEF CachedInv
  <2>2. changes' \in [removed : Nat, inserted : Nat, altered : Nat] /\ Changed' # 0
    BY <1>1, <2>1 DEF Changed
  <2> QED BY <2>2 DEF QuietInv
<1>5. CASE UNCHANGED vars
  <2>1. /\ UNCHANGED <<pc, entries, inbox, finished, table, dump, cursor, queue, changes>>
        /\ ListingUpTo' = ListingUpTo
    BY <1>5, SameTable DEF vars, threadVars, kernelVars
  <2>2. ASSUME NEW lo, NEW mid, Stage(lo, mid) PROVE Stage(lo, mid)'
    BY <2>1, <2>2 DEF Stage, Pending, Carries, Ends
  <2>3. Changed' = Changed
    BY <2>1 DEF Changed
  <2> QED BY <2>1, <2>2, <2>3 DEF QuietInv
<1> QED BY <1>2, <1>3, <1>4, <1>5 DEF Next, Kernel, Stopped

LEMMA QuietInit == Init => QuietInv
<1> SUFFICES ASSUME Init PROVE QuietInv
  OBVIOUS
<1>1. table \in Seq(Row) /\ Len(table) \in Nat
  BY ArpAssumption, LenProperties DEF Init
<1>2. ListingUpTo[0] = <<>>
  BY <1>1, ListingSteps
<1>3. Carries(table, <<>>, 0, 0)
  BY DEF Carries
<1>4. ~ Ends(<<>>)
  BY DEF Ends
<1>5. Stage(0, 0)
  BY <1>1, <1>2, <1>3, <1>4 DEF Init, Stage, Pending
<1>6. 0 \in 0 .. cursor - 1 /\ changes \in [removed : Nat, inserted : Nat, altered : Nat]
  BY DEF Init, NoChange
<1> QED BY <1>5, <1>6 DEF QuietInv

\* Off a table at rest the entries are a beginning of the listing, and all of it once the
\* parser has met the end of a complete dump - for every table, every cut into datagrams
\* and every failure on the way.
THEOREM QuietTableListed == Spec => []QuietDumpExact
<1>1. CachedInv /\ QuietInv => QuietDumpExact
  <2> SUFFICES ASSUME CachedInv, QuietInv, Changed = 0
               PROVE  /\ IsPrefix(entries, Listing)
                      /\ (finished /\ dump = "complete") => entries = Listing
    BY DEF QuietDumpExact
  <2>1. PICK lo \in 0 .. cursor - 1, mid \in 0 .. cursor - 1 : Stage(lo, mid)
    BY DEF QuietInv
  <2>2. table \in Seq(Row) /\ Len(table) \in Nat /\ cursor \in Nat
    BY LenProperties DEF CachedInv
  <2>3. lo \in 0 .. Len(table) /\ entries = ListingUpTo[lo]
    BY <2>1, <2>2 DEF Stage
  <2>4. (finished /\ dump = "complete") => entries = Listing
    BY <2>1, <2>3 DEF Stage, Listing
  <2> QED BY <2>2, <2>3, <2>4, ListingsArePrefixes
<1>2. Init => CachedInv /\ QuietInv
  BY CachedInit, QuietInit
<1>3. CachedInv /\ QuietInv /\ [Next]_vars => (CachedInv /\ QuietInv)'
  BY CachedStep, QuietStep
<1> QED BY <1>1, <1>2, <1>3, PTL DEF Spec

-----------------------------------------------------------------------------
(* A table that changes                                                    *)

\* No address comes twice: the model tells rows of two interfaces not apart.
Distinct(rows) == \A i, j \in DOMAIN rows : rows[i].ip = rows[j].ip => i = j

Ips(set) == {row.ip : row \in set}

\* The rows behind the lo that were parsed: dumped already, or the table's from the
\* cursor on.
Ahead(rows, lo) == {rows[i] : i \in lo + 1 .. Len(rows)}
Behind == {table[j] : j \in cursor .. Len(table)}

\* The rows that the listing will lack, and the addresses it has or may come to have.
Lost(rows, lo) ==
  {row \in stable :
     Listable(row) /\ Entry(row) \notin Range(entries) /\ row \notin Ahead(rows, lo)}
Met(rows, lo) == Ips(Range(entries)) \cup Ips(Ahead(rows, lo))

\* The image of a finite set, with as many elements if no two of them share theirs.
LEMMA ImageFinite ==
  ASSUME NEW S, IsFiniteSet(S), NEW T, NEW f, \A x \in S : f[x] \in T,
         \A y \in T : \E x \in S : f[x] = y
  PROVE  /\ IsFiniteSet(T) /\ Cardinality(T) <= Cardinality(S)
         /\ (\A x, y \in S : f[x] = f[y] => x = y) => Cardinality(T) = Cardinality(S)
<1> DEFINE g == [x \in S |-> f[x]]
<1>1. g \in Surjection(S, T)
  BY DEF Surjection
<1>2. (\A x, y \in S : f[x] = f[y] => x = y) => g \in Injection(S, T)
  BY DEF Injection, IsInjective
<1> HIDE DEF g
<1> QED BY <1>1, <1>2, FS_Surjection

\* Both are finite.
LEMMA AheadFinite ==
  ASSUME NEW rows \in Seq(Row), NEW lo \in Nat
  PROVE  IsFiniteSet(Ips(Ahead(rows, lo))) /\ IsFiniteSet(Ahead(rows, lo))
<1> DEFINE S == lo + 1 .. Len(rows)
<1>1. IsFiniteSet(S)
  BY FS_Interval, LenProperties
<1>2. IsFiniteSet(Ahead(rows, lo))
  <2>1. /\ \A i \in S : rows[i] \in Ahead(rows, lo)
        /\ \A y \in Ahead(rows, lo) : \E i \in S : rows[i] = y
    BY DEF Ahead
  <2> HIDE DEF S
  <2> QED BY <1>1, <2>1, ImageFinite
<1>3. IsFiniteSet(Ips(Ahead(rows, lo)))
  <2> DEFINE ip == [i \in S |-> rows[i].ip]
             T == Ips(Ahead(rows, lo))
  <2>1. /\ \A i \in S : ip[i] \in T
        /\ \A y \in T : \E i \in S : ip[i] = y
    BY DEF Ahead, Ips
  <2> HIDE DEF S, ip, T
  <2>2. IsFiniteSet(T)
    BY <1>1, <2>1, ImageFinite
  <2> QED BY <2>2 DEF T
<1> QED BY <1>2, <1>3

LEMMA MetFinite ==
  ASSUME CachedInv, NEW rows \in Seq(Row), NEW lo \in Nat
  PROVE  IsFiniteSet(Met(rows, lo)) /\ Cardinality(Met(rows, lo)) \in Nat
<1> DEFINE T == Ips(Range(entries))
           S == 1 .. Len(entries)
           ip == [i \in S |-> entries[i].ip]
<1>1. IsFiniteSet(S) /\ DOMAIN entries = S
  BY FS_Interval, LenProperties DEF CachedInv
<1>2. /\ \A i \in S : ip[i] \in T
      /\ \A y \in T : \E i \in S : ip[i] = y
  BY <1>1 DEF Ips, Range
<1> HIDE DEF S, ip, T
<1>3. IsFiniteSet(T)
  BY <1>1, <1>2, ImageFinite
<1>4. IsFiniteSet(Met(rows, lo))
  BY <1>3, AheadFinite, FS_Union DEF Met, T
<1> QED BY <1>4, FS_CardinalityType

\* One element more at most.
LEMMA OneMore ==
  ASSUME NEW S, NEW T, IsFiniteSet(T), NEW x, S \subseteq T \cup {x}
  PROVE  IsFiniteSet(S) /\ Cardinality(S) <= Cardinality(T) + 1
<1>1. /\ IsFiniteSet(T \cup {x}) /\ Cardinality(T) \in Nat
      /\ Cardinality(T \cup {x}) <= Cardinality(T) + 1
  BY FS_AddElement, FS_CardinalityType
<1>2. IsFiniteSet(S) /\ Cardinality(S) <= Cardinality(T \cup {x}) /\ Cardinality(S) \in Nat
      /\ Cardinality(T \cup {x}) \in Nat
  BY <1>1, FS_Subset, FS_CardinalityType
<1> QED BY <1>1, <1>2

\* With no address twice there are as many addresses as rows.
LEMMA DistinctCount ==
  ASSUME NEW rows \in Seq(Row), Distinct(rows)
  PROVE  Cardinality(Ips(Ahead(rows, 0))) = Len(rows)
<1> DEFINE T == Ips(Ahead(rows, 0))
           S == 1 .. Len(rows)
           ip == [i \in S |-> rows[i].ip]
<1>1. IsFiniteSet(S) /\ DOMAIN rows = S /\ Cardinality(S) = Len(rows) /\ 0 + 1 .. Len(rows) = S
  <2>1. Len(rows) \in Nat /\ DOMAIN rows = S
    BY LenProperties
  <2>2. IsFiniteSet(S) /\ Cardinality(S) = IF 1 > Len(rows) THEN 0 ELSE Len(rows) - 1 + 1
    BY <2>1, FS_Interval
  <2> QED BY <2>1, <2>2
<1>2. /\ \A i \in S : ip[i] \in T
      /\ \A y \in T : \E i \in S : ip[i] = y
      /\ \A i, j \in S : ip[i] = ip[j] => i = j
  BY <1>1 DEF Ips, Ahead, Distinct
<1> HIDE DEF S, ip, T
<1>3. Cardinality(T) = Cardinality(S)
  BY <1>1, <1>2, ImageFinite
<1> QED BY <1>1, <1>3 DEF T

\* While the dump goes on, and once its end was met, its rows are: those that were
\* dumped, hi of them, and those that would be if the table changed no more.  No more of
\* them are lost than were removed, and no more come twice than were inserted.
Followed == dump \in {"running", "complete"} /\ (pc \in {"recv", "parse"} \/ finished)
Counted(rows, lo) ==
  /\ Cardinality(Lost(rows, lo)) <= changes.removed
  /\ Len(entries) + (Len(rows) - lo) <= Cardinality(Met(rows, lo)) + changes.inserted

Torn(rows, lo, mid, hi) ==
  /\ lo <= mid /\ mid <= hi /\ Len(rows) = hi + Undumped /\ DumpsOn(rows, hi)
  /\ dump = "complete" => Undumped = 0
  /\ pc # "returned" => Pending(rows, lo, mid, hi)
  /\ finished => lo = Len(rows)
  /\ Counted(rows, lo)

TornInv ==
  /\ Distinct(table)
  /\ IsFiniteSet(stable)
  /\ changes \in [removed : Nat, inserted : Nat, altered : Nat]
  /\ pc \in {"socket", "send"} => changes = NoChange /\ cursor = 1
  /\ finished => pc = "returned" /\ dump # "running"
  /\ Followed => \E rows \in Seq(Row) : \E lo, mid, hi \in Nat : Torn(rows, lo, mid, hi)

\* Parsing a row lists it, or it was not to be listed: nothing is lost, and it leaves
\* the rows ahead as one entry, or as none.
LEMMA ParsingCounts ==
  ASSUME CachedInv, IsFiniteSet(stable),
         changes \in [removed : Nat, inserted : Nat, altered : Nat],
         NEW rows \in Seq(Row), NEW lo \in Nat, lo < Len(rows), Counted(rows, lo),
         entries' = IF Listable(rows[lo + 1]) THEN Append(entries, Entry(rows[lo + 1]))
                    ELSE entries,
         UNCHANGED <<stable, changes>>
  PROVE  Counted(rows, lo + 1)'
<1> PICK row \in Row : row = rows[lo + 1]
  <2>1. lo + 1 \in 1 .. Len(rows)
    BY LenProperties
  <2> QED BY <2>1, ElementOfSeq
<1> PICK next \in Nat : next = lo + 1
  OBVIOUS
<1>1. Len(rows) \in Nat /\ entries \in Seq(Listed(cached)) /\ Len(entries) \in Nat
  BY LenProperties DEF CachedInv
<1>2. Ahead(rows, lo) = Ahead(rows, next) \cup {row}
  <2>1. lo + 1 .. Len(rows) = (next + 1 .. Len(rows)) \cup {next}
    BY <1>1
  <2> QED BY <2>1 DEF Ahead
<1>3. /\ Cardinality(Lost(rows, lo)) <= changes.removed
      /\ Len(entries) + (Len(rows) - lo) <= Cardinality(Met(rows, lo)) + changes.inserted
  BY DEF Counted
<1>4. /\ IsFiniteSet(Lost(rows, lo)) /\ Cardinality(Lost(rows, lo)) \in Nat
      /\ IsFiniteSet(Met(rows, lo)) /\ Cardinality(Met(rows, lo)) \in Nat
      /\ IsFiniteSet(Met(rows, next)) /\ Cardinality(Met(rows, next)) \in Nat
  <2>1. Lost(rows, lo) \subseteq stable
    BY DEF Lost
  <2> QED BY <2>1, MetFinite, FS_Subset, FS_CardinalityType
<1>5. ASSUME Lost(rows, next)' \subseteq Lost(rows, lo)
      PROVE  Cardinality(Lost(rows, next)') <= changes'.removed
  <2>1. /\ Cardinality(Lost(rows, next)') <= Cardinality(Lost(rows, lo))
        /\ Cardinality(Lost(rows, next)') \in Nat
    BY <1>4, <1>5, FS_Subset, FS_CardinalityType
  <2> QED BY <1>3, <1>4, <2>1
<1>6. Ahead(rows, next)' = Ahead(rows, next)
  BY DEF Ahead
<1>7. CASE Listable(row)
  <2>1. entries' = Append(entries, Entry(row))
    BY <1>7
  <2>2. Range(entries') = Range(entries) \cup {Entry(row)} /\ Len(entries') = Len(entries) + 1
    <3>1. /\ entries' \in Seq(Listed(cached) \cup {Entry(row)})
          /\ Len(entries') = Len(entries) + 1
          /\ \A i \in 1 .. Len(entries) : entries'[i] = entries[i]
          /\ entries'[Len(entries) + 1] = Entry(row)
      <4>1. entries \in Seq(Listed(cached) \cup {Entry(row)})
        BY <1>1, SeqMonotonic
      <4> QED BY <2>1, <4>1, AppendProperties
    <3>2. DOMAIN entries' = 1 .. Len(entries) + 1 /\ DOMAIN entries = 1 .. Len(entries)
      BY <1>1, <3>1, LenProperties
    <3> QED BY <1>1, <3>1, <3>2 DEF Range
  <2>3. Lost(rows, next)' \subseteq Lost(rows, lo)
    BY <1>2, <1>6, <2>2 DEF Lost, Listable
  <2>4. Met(rows, next)' = Met(rows, lo)
    <3>1. Entry(row).ip = row.ip
      BY DEF Entry
    <3>2. Ips(Range(entries')) = Ips(Range(entries)) \cup {row.ip}
      BY <2>2, <3>1 DEF Ips
    <3>3. Ips(Ahead(rows, lo)) = Ips(Ahead(rows, next)) \cup {row.ip}
      BY <1>2 DEF Ips
    <3>4. Ips(Ahead(rows, next))' = Ips(Ahead(rows, next))
      BY <1>6 DEF Ips
    <3> QED BY <3>2, <3>3, <3>4 DEF Met, Ips
  <2>5. Len(entries') + (Len(rows) - next) <= Cardinality(Met(rows, next)') + changes'.inserted
    BY <1>1, <1>3, <1>4, <2>2, <2>4
  <2> QED BY <1>5, <2>3, <2>5 DEF Counted
<1>8. CASE ~ Listable(row)
  <2>1. entries' = entries
    BY <1>8
  <2>2. Lost(rows, next)' \subseteq Lost(rows, lo)
    BY <1>2, <1>6, <1>8, <2>1 DEF Lost, Listable
  <2>3. Met(rows, next)' = Met(rows, next)
    BY <1>6, <2>1 DEF Met, Ips
  <2>4. Met(rows, lo) \subseteq Met(rows, next) \cup {row.ip}
    BY <1>2 DEF Met, Ips
  <2>5. Cardinality(Met(rows, lo)) <= Cardinality(Met(rows, next)) + 1
    BY <1>4, <2>4, OneMore
  <2>6. Len(entries') + (Len(rows) - next) <= Cardinality(Met(rows, next)') + changes'.inserted
    BY <1>1, <1>3, <1>4, <2>1, <2>3, <2>5
  <2> QED BY <1>5, <2>2, <2>6 DEF Counted
<1> QED BY <1>7, <1>8

\* The counts are of the entries, the stable rows and the changes.
LEMMA SameCounts ==
  ASSUME UNCHANGED <<entries, stable, changes>>, NEW rows, NEW lo, Counted(rows, lo)
  PROVE  Counted(rows, lo)'
BY DEF Counted, Lost, Met, Ahead, Ips

\* The request: all rows are ahead, each address once.
LEMMA RequestKeepsTorn ==
  ASSUME CachedInv, TornInv, SendRequest
  PROVE  TornInv'
<1>1. /\ pc = "send" /\ pc' = "recv"
      /\ UNCHANGED <<entries, inbox, finished, table, cursor, changes>>
      /\ stable' = Range(table)
      /\ \/ dump' = "running" /\ queue' = queue
         \/ dump' = "broken"
  BY DEF SendRequest
<1>2. /\ table \in Seq(Row) /\ entries = <<>> /\ inbox = <<>> /\ queue = <<>>
      /\ cursor = 1 /\ changes = NoChange /\ ~ finished /\ Distinct(table)
  BY <1>1 DEF CachedInv, TornInv
<1> PICK rows \in Seq(Row) : rows = table
  BY <1>2
<1>3. Len(rows) \in Nat /\ DOMAIN rows = 1 .. Len(rows)
  BY LenProperties
<1>4. Ahead(rows, 0) = Range(table)
  BY <1>3 DEF Ahead, Range
<1>5. IsFiniteSet(stable')
  BY <1>1, <1>4, AheadFinite
<1>6. changes' \in [removed : Nat, inserted : Nat, altered : Nat]
  BY <1>1 DEF TornInv
<1>7. Counted(rows, 0)'
  <2>1. Lost(rows, 0)' = {}
    <3>1. Ahead(rows, 0)' = Range(table)
      BY <1>4 DEF Ahead
    <3> QED BY <1>1, <3>1 DEF Lost
  <2>2. Met(rows, 0)' = Ips(Ahead(rows, 0))
    <3>1. Range(entries') = {}
      BY <1>1, <1>2 DEF Range
    <3> QED BY <3>1 DEF Met, Ips, Ahead
  <2>3. Cardinality(Ips(Ahead(rows, 0))) = Len(rows)
    BY <1>2, DistinctCount
  <2>4. Cardinality(Lost(rows, 0)') = 0 /\ Len(entries') = 0
    BY <1>1, <1>2, <2>1, FS_EmptySet
  <2>5. changes'.removed = 0 /\ changes'.inserted = 0
    BY <1>1, <1>2 DEF NoChange
  <2>6. Cardinality(Lost(rows, 0)') <= changes'.removed
    BY <2>4, <2>5
  <2>7. Len(entries') + (Len(rows) - 0) <= Cardinality(Met(rows, 0)') + changes'.inserted
    BY <1>3, <2>2, <2>3, <2>4, <2>5
  <2> QED BY <2>6, <2>7 DEF Counted
<1>8. CASE dump' = "running" /\ queue' = queue
  <2>1. Pending(rows, 0, 0, 0)'
    <3>1. Carries(rows, <<>>, 0, 0) /\ ~ Ends(<<>>)
      BY DEF Carries, Ends
    <3> QED BY <1>1, <1>2, <1>8, <3>1 DEF Pending, Carries, Ends
  <2>2. Len(rows) = 0 + Undumped' /\ DumpsOn(rows, 0)'
    <3>1. Undumped' = Len(rows)
      BY <1>1, <1>2, <1>3 DEF Undumped
    <3> QED BY <1>1, <1>2, <1>3, <3>1 DEF DumpsOn
  <2>3. Torn(rows, 0, 0, 0)'
    BY <1>1, <1>2, <1>7, <1>8, <2>1, <2>2 DEF Torn
  <2> QED BY <1>1, <1>2, <1>5, <1>6, <2>3 DEF TornInv, Distinct
<1>9. CASE dump' = "broken"
  BY <1>1, <1>2, <1>5, <1>6, <1>9 DEF TornInv, Distinct, Followed
<1> QED BY <1>1, <1>8, <1>9

\* The thread: only parsing touches the counts.
LEMMA ThreadKeepsTorn ==
  ASSUME CachedInv, TornInv, Thread \/ Faults
  PROVE  TornInv'
<1>1. ASSUME UNCHANGED <<table, stable, changes, cursor>>, ~ Followed',
             pc' \notin {"socket", "send"}, finished' => pc' = "returned" /\ dump' # "running"
      PROVE  TornInv'
  BY <1>1 DEF TornInv, Distinct
<1>2. CASE OpenSocket
  <2>1. /\ UNCHANGED <<table, stable, changes, cursor, dump, finished>>
        /\ pc = "socket" /\ pc' \in {"send", "returned"}
    BY <1>2 DEF OpenSocket, kernelVars
  <2>2. ~ Followed'
    BY <2>1 DEF TornInv, Followed
  <2> QED BY <2>1, <2>2 DEF TornInv, Distinct
<1>3. CASE SendRequest
  BY <1>3, RequestKeepsTorn
<1>4. CASE SendFails
  <2>1. /\ UNCHANGED <<table, stable, changes, cursor, dump, finished>>
        /\ pc = "send" /\ pc' = "returned"
    BY <1>4 DEF SendFails, kernelVars
  <2>2. ~ finished'
    BY <2>1 DEF TornInv
  <2> QED BY <1>1, <2>1, <2>2 DEF Followed
<1>5. CASE pc \in {"recv", "parse"}
  <2>1. UNCHANGED <<table, stable, changes, cursor, dump>> /\ pc' \notin {"socket", "send"}
    BY <1>5 DEF Thread, Faults, OpenSocket, SendRequest, Receive, PassOver,
           ParseNeighbour, ParseEnd, DatagramDone, SendFails, ReceiveFails, NextMessage,
           kernelVars, StopParsing, StopReceiving
  <2>2. Distinct(table)' /\ Undumped' = Undumped
        /\ \A rows, hi : DumpsOn(rows, hi) => DumpsOn(rows, hi)'
    BY <2>1 DEF TornInv, Distinct, Undumped, DumpsOn
  <2>3. CASE dump \notin {"running", "complete"}
    <3>1. finished' => pc' = "returned"
      BY <1>5 DEF TornInv, Thread, Faults, OpenSocket, SendRequest, Receive, PassOver,
           ParseNeighbour, ParseEnd, DatagramDone, SendFails, ReceiveFails, NextMessage,
           StopParsing, StopReceiving
    <3> QED BY <1>1, <2>1, <2>3, <3>1 DEF Followed
  <2>4. CASE dump \in {"running", "complete"}
    <3>1. PICK rows \in Seq(Row), lo \in Nat, mid \in Nat, hi \in Nat : Torn(rows, lo, mid, hi)
      BY <1>5, <2>4 DEF TornInv, Followed
    <3>2. /\ lo <= mid /\ mid <= hi /\ Len(rows) = hi + Undumped /\ DumpsOn(rows, hi)
          /\ dump = "complete" => Undumped = 0
          /\ Pending(rows, lo, mid, hi) /\ Counted(rows, lo) /\ ~ finished
          /\ Undumped \in Nat
      <4>1. Undumped \in Nat
        BY LenProperties DEF Undumped, CachedInv
      <4> QED BY <1>5, <3>1, <4>1 DEF Torn, TornInv
    <3>3. CASE /\ pc' # "returned" /\ UNCHANGED <<entries, finished>>
               /\ \E middle \in lo .. hi : Pending(rows, lo, middle, hi)'
      <4>1. PICK middle \in lo .. hi : Pending(rows, lo, middle, hi)'
        BY <3>3
      <4>2. Counted(rows, lo)'
        BY <2>1, <3>2, <3>3, SameCounts
      <4>3. Torn(rows, lo, middle, hi)'
        BY <2>1, <2>2, <3>2, <3>3, <4>1, <4>2 DEF Torn
      <4> QED BY <2>1, <2>2, <3>2, <3>3, <4>3 DEF TornInv
    <3>4. CASE /\ pc' # "returned" /\ UNCHANGED finished
               /\ lo < mid /\ ParseNeighbour /\ Head(inbox) = NewNeighbour(rows[lo + 1])
               /\ Pending(rows, lo + 1, mid, hi)'
      <4>1. lo < Len(rows) /\ lo + 1 \in 1 .. Len(rows) /\ lo + 1 <= mid /\ lo + 1 \in Nat
        BY <3>2, <3>4
      <4>2. rows[lo + 1] \in Row
        BY <4>1, ElementOfSeq
      <4>3. entries' = IF Listable(rows[lo + 1]) THEN Append(entries, Entry(rows[lo + 1]))
                       ELSE entries
        BY <3>4, <4>2, ParsedEntry
      <4>4. Counted(rows, lo + 1)'
        BY <2>1, <3>2, <4>1, <4>3, ParsingCounts DEF TornInv
      <4>5. Torn(rows, lo + 1, mid, hi)'
        BY <2>1, <2>2, <3>2, <3>4, <4>1, <4>4 DEF Torn
      <4> QED BY <2>1, <2>2, <3>2, <3>4, <4>1, <4>5 DEF TornInv
    <3>5. CASE pc' = "returned" /\ UNCHANGED <<entries, finished>>
      BY <1>1, <2>1, <3>2, <3>5 DEF Followed
    <3>6. CASE pc' = "returned" /\ UNCHANGED entries /\ lo = hi /\ dump # "running"
      <4>1. Counted(rows, lo)' /\ lo = Len(rows)
        BY <2>1, <2>4, <3>2, <3>6, SameCounts
      <4>2. Torn(rows, lo, mid, hi)'
        BY <2>1, <2>2, <3>2, <3>6, <4>1 DEF Torn
      <4> QED BY <2>1, <2>2, <3>2, <3>6, <4>2 DEF TornInv
    <3> QED BY <1>5, <3>2, <3>3, <3>4, <3>5, <3>6, ThreadWorks
  <2> QED BY <2>3, <2>4
<1> QED
  BY <1>2, <1>3, <1>4, <1>5
  DEF Thread, Faults, Receive, PassOver, ParseNeighbour, ParseEnd, DatagramDone, ReceiveFails,
      NextMessage

\* A datagram moves rows from the undumped to the dumped: they stay the same.
LEMMA DumpKeepsTorn ==
  ASSUME CachedInv, TornInv, UNCHANGED threadVars, FillDatagram
  PROVE  TornInv'
<1>1. /\ table \in Seq(Row) /\ cursor \in Nat \ {0} /\ Len(table) \in Nat
      /\ pc \in {"socket", "send"} => dump = "none"
  BY LenProperties DEF CachedInv
<1>2. /\ dump = "running" /\ UNCHANGED <<table, changes, stable, pc, entries, finished>>
  BY <1>1, NextDatagram DEF threadVars
<1>3. ~ finished' /\ Distinct(table)' /\ pc' \notin {"socket", "send"}
  BY <1>1, <1>2 DEF TornInv, Distinct
<1>4. CASE pc \notin {"recv", "parse"}
  BY <1>2, <1>3, <1>4 DEF TornInv, Followed
<1>5. CASE pc \in {"recv", "parse"}
  <2>1. PICK rows \in Seq(Row), lo \in Nat, mid \in Nat, hi \in Nat : Torn(rows, lo, mid, hi)
    BY <1>2, <1>5 DEF TornInv, Followed
  <2>2. /\ lo <= mid /\ mid <= hi /\ Len(rows) = hi + Undumped /\ DumpsOn(rows, hi)
        /\ Pending(rows, lo, mid, hi) /\ Counted(rows, lo)
    BY <1>5, <2>1 DEF Torn
  <2>3. PICK k \in 0 .. Undumped :
          /\ mid = hi /\ cursor' = cursor + k
          /\ Pending(rows, lo, hi, hi + k)'
          /\ dump' = "complete" => k = Undumped
    BY <2>2, KernelWorks
  <2>4. /\ Undumped \in Nat /\ Undumped' = Undumped - k
        /\ hi + k \in Nat /\ Len(rows) = hi + k + Undumped'
    <3>1. Undumped \in Nat /\ k \in Nat /\ k <= Undumped
      BY <1>1, <2>3 DEF Undumped
    <3>2. Undumped' = IF cursor + k <= Len(table) THEN Len(table) - (cursor + k) + 1 ELSE 0
      BY <1>2, <2>3 DEF Undumped
    <3>3. Undumped' = Undumped - k
      <4>1. CASE cursor <= Len(table)
        BY <1>1, <3>1, <3>2, <4>1 DEF Undumped
      <4>2. CASE cursor > Len(table)
        BY <1>1, <3>1, <3>2, <4>2 DEF Undumped
      <4> QED BY <1>1, <4>1, <4>2
    <3> QED BY <2>2, <3>1, <3>3
  <2>5. DumpsOn(rows, hi + k)'
    <3> SUFFICES ASSUME NEW i \in 1 .. Undumped' PROVE rows[hi + k + i] = table'[cursor' + i - 1]
      BY DEF DumpsOn
    <3>1. k + i \in 1 .. Undumped /\ cursor + (k + i) - 1 = cursor' + i - 1
          /\ hi + (k + i) = hi + k + i
      BY <1>1, <2>3, <2>4
    <3>2. rows[hi + (k + i)] = table[cursor + (k + i) - 1]
      BY <2>2, <3>1 DEF DumpsOn
    <3> QED BY <1>2, <3>1, <3>2
  <2>6. Counted(rows, lo)'
    BY <1>2, <2>2, SameCounts
  <2>7. Torn(rows, lo, hi, hi + k)'
    BY <1>3, <2>2, <2>3, <2>4, <2>5, <2>6 DEF Torn
  <2> QED BY <1>2, <1>3, <2>4, <2>7 DEF TornInv
<1> QED BY <1>4, <1>5

\* What a change of the table does to the rows from the cursor on: a row that is removed,
\* or moves in front of the cursor, is gone; a row that is inserted, or moves behind the
\* cursor, comes on top; a row that is altered keeps its place and its address.
Removes ==
  /\ changes' = [changes EXCEPT !["removed"] = @ + 1]
  /\ \/ Undumped' = Undumped /\ Behind \subseteq Behind'
     \/ \E gone : Undumped' = Undumped - 1 /\ Behind \subseteq Behind' \cup {gone}
Inserts ==
  /\ changes' = [changes EXCEPT !["inserted"] = @ + 1]
  /\ Undumped' = Undumped \/ Undumped' = Undumped + 1
  /\ Behind \subseteq Behind'
Alters ==
  /\ changes' = [changes EXCEPT !["altered"] = @ + 1]
  /\ Undumped' = Undumped /\ Ips(Behind) \subseteq Ips(Behind')
  /\ \E gone : gone \notin Range(table') /\ Behind \subseteq Behind' \cup {gone}

\* A piece of a table, and two of them joined.
LEMMA Slice ==
  ASSUME NEW seq \in Seq(Row), NEW m \in Nat, NEW n \in Nat, m <= n, n <= Len(seq),
         NEW part, part = SubSeq(seq, m + 1, n)
  PROVE  /\ part \in Seq(Row) /\ Len(part) = n - m
         /\ \A j \in 1 .. n - m : part[j] = seq[m + j]
<1>1. \A j \in m + 1 .. n : seq[j] \in Row
  <2> SUFFICES ASSUME NEW j \in m + 1 .. n PROVE seq[j] \in Row
    OBVIOUS
  <2>1. j \in 1 .. Len(seq)
    BY LenProperties
  <2> QED BY <2>1, ElementOfSeq
<1>2. /\ part \in Seq(Row) /\ Len(part) = IF m + 1 <= n THEN n - (m + 1) + 1 ELSE 0
      /\ \A j \in 1 .. n - (m + 1) + 1 : part[j] = seq[m + 1 + j - 1]
  BY <1>1, SubSeqProperties
<1>3. n - (m + 1) + 1 = n - m
  OBVIOUS
<1>4. ASSUME NEW j \in 1 .. n - m PROVE part[j] = seq[m + j]
  <2>1. m + 1 + j - 1 = m + j /\ j \in 1 .. n - (m + 1) + 1
    BY <1>3
  <2>2. part[j] = seq[m + 1 + j - 1]
    BY <1>2, <2>1
  <2> QED BY <2>1, <2>2
<1> QED BY <1>2, <1>4

LEMMA Joined ==
  ASSUME NEW s \in Seq(Row), NEW t \in Seq(Row), NEW both, both = s \o t
  PROVE  /\ both \in Seq(Row) /\ Len(both) = Len(s) + Len(t)
         /\ \A j \in 1 .. Len(s) + Len(t) :
              both[j] = IF j <= Len(s) THEN s[j] ELSE t[j - Len(s)]
BY ConcatProperties

\* A row is removed: those behind it move one place to the front.
LEMMA RemovalRows ==
  ASSUME table \in Seq(Row), cursor \in Nat \ {0}, Distinct(table),
         NEW i \in DOMAIN table, Becomes(RemoveAt(table, i), "removed")
  PROVE  Distinct(table') /\ Removes
<1>1. Len(table) \in Nat /\ DOMAIN table = 1 .. Len(table) /\ i \in 1 .. Len(table)
      /\ \A j \in 1 .. Len(table) : table[j] \in Row
  BY LenProperties, ElementOfSeq
<1>2. /\ table' = SubSeq(table, 1, i - 1) \o SubSeq(table, i + 1, Len(table))
      /\ changes' = [changes EXCEPT !["removed"] = @ + 1] /\ cursor' = cursor
  BY DEF Becomes, RemoveAt
<1> DEFINE s == SubSeq(table, 1, i - 1)
           t == SubSeq(table, i + 1, Len(table))
<1>3. /\ s \in Seq(Row) /\ Len(s) = i - 1 /\ \A j \in 1 .. i - 1 : s[j] = table[j]
      /\ t \in Seq(Row) /\ Len(t) = Len(table) - i
      /\ \A j \in 1 .. Len(table) - i : t[j] = table[i + j]
  <2> PICK before \in Nat : before = i - 1
    BY <1>1
  <2>1. s = SubSeq(table, 0 + 1, before) /\ before - 0 = before /\ before <= Len(table)
    BY <1>1
  <2>2. i \in Nat /\ i <= Len(table)
    BY <1>1
  <2> HIDE DEF s, t
  <2>3. /\ s \in Seq(Row) /\ Len(s) = before
        /\ \A j \in 1 .. before : s[j] = table[0 + j]
    BY <2>1, Slice
  <2>4. /\ t \in Seq(Row) /\ Len(t) = Len(table) - i
        /\ \A j \in 1 .. Len(table) - i : t[j] = table[i + j]
    BY <1>1, <2>2, Slice DEF t
  <2> QED BY <2>3, <2>4
<1> HIDE DEF s, t
<1>4. /\ Len(table') = Len(table) - 1
      /\ \A j \in 1 .. Len(table) - 1 : table'[j] = IF j < i THEN table[j] ELSE table[j + 1]
  <2>1. /\ table' \in Seq(Row) /\ Len(table') = Len(s) + Len(t)
        /\ \A j \in 1 .. Len(s) + Len(t) :
             table'[j] = IF j <= Len(s) THEN s[j] ELSE t[j - Len(s)]
    BY <1>2, <1>3, ConcatProperties DEF s, t
  <2> SUFFICES ASSUME NEW j \in 1 .. Len(table) - 1
               PROVE  table'[j] = IF j < i THEN table[j] ELSE table[j + 1]
    BY <1>1, <1>3, <2>1
  <2>2. CASE j < i
    BY <1>1, <1>3, <2>1, <2>2
  <2>3. CASE ~ (j < i)
    <3>1. j - (i - 1) \in 1 .. Len(table) - i /\ i + (j - (i - 1)) = j + 1
      BY <1>1, <2>3
    <3>2. table'[j] = t[j - (i - 1)]
      BY <1>1, <1>3, <2>1, <2>3
    <3> QED BY <1>3, <2>3, <3>1, <3>2
  <2> QED BY <2>2, <2>3
<1>5. DOMAIN table' = 1 .. Len(table) - 1
  BY <1>2, <1>3, <1>4, ConcatProperties, LenProperties DEF s, t
<1>6. Distinct(table')
  <2> SUFFICES ASSUME NEW j \in 1 .. Len(table) - 1, NEW k \in 1 .. Len(table) - 1,
                      table'[j].ip = table'[k].ip
               PROVE  j = k
    BY <1>5 DEF Distinct
  <2> DEFINE from(n) == IF n < i THEN n ELSE n + 1
  <2>1. from(j) \in 1 .. Len(table) /\ from(k) \in 1 .. Len(table)
    BY <1>1
  <2>2. table'[j] = table[from(j)] /\ table'[k] = table[from(k)]
    BY <1>4
  <2>3. from(j) = from(k)
    <3> HIDE DEF from
    <3> QED BY <1>1, <2>1, <2>2 DEF Distinct
  <2> QED BY <1>1, <2>3
<1>7. CASE cursor > Len(table)
  <2>1. Undumped = 0 /\ Undumped' = 0 /\ Behind = {}
    BY <1>1, <1>2, <1>4, <1>7 DEF Undumped, Behind
  <2> QED BY <1>2, <1>6, <2>1 DEF Removes
<1>8. CASE cursor <= Len(table)
  <2>1. Undumped' = Undumped - 1
    BY <1>1, <1>2, <1>4, <1>8 DEF Undumped
  <2>2. CASE i < cursor
    <3>1. Behind \subseteq Behind' \cup {table[cursor]}
      <4> SUFFICES ASSUME NEW j \in cursor .. Len(table), j # cursor PROVE table[j] \in Behind'
        BY DEF Behind
      <4>1. j - 1 \in cursor .. Len(table) - 1 /\ ~ (j - 1 < i)
            /\ j - 1 + 1 = j /\ j - 1 \in 1 .. Len(table) - 1
        BY <1>1, <2>2
      <4>2. table[j] = table'[j - 1]
        BY <1>4, <4>1
      <4> QED BY <1>2, <1>4, <4>1, <4>2 DEF Behind
    <3> QED BY <1>2, <1>6, <2>1, <3>1 DEF Removes
  <2>3. CASE i >= cursor
    <3>1. Behind \subseteq Behind' \cup {table[i]}
      <4> SUFFICES ASSUME NEW j \in cursor .. Len(table), j # i PROVE table[j] \in Behind'
        BY DEF Behind
      <4>1. CASE j < i
        <5>1. j \in cursor .. Len(table) - 1 /\ j \in 1 .. Len(table) - 1
          BY <1>1, <4>1
        <5> QED BY <1>2, <1>4, <4>1, <5>1 DEF Behind
      <4>2. CASE j > i
        <5>1. j - 1 \in cursor .. Len(table) - 1 /\ ~ (j - 1 < i)
            /\ j - 1 + 1 = j /\ j - 1 \in 1 .. Len(table) - 1
          BY <1>1, <2>3, <4>2
        <5>2. table[j] = table'[j - 1]
          BY <1>4, <5>1
        <5> QED BY <1>2, <1>4, <5>1, <5>2 DEF Behind
      <4> QED BY <1>1, <4>1, <4>2
    <3> QED BY <1>2, <1>6, <2>1, <3>1 DEF Removes
  <2> QED BY <1>1, <2>2, <2>3
<1> QED BY <1>1, <1>7, <1>8

\* A row is inserted: those behind it move one place to the back.
LEMMA InsertionRows ==
  ASSUME table \in Seq(Row), cursor \in Nat \ {0}, Distinct(table),
         NEW row \in Arrivals, NEW i \in 1 .. Len(table) + 1,
         \A j \in DOMAIN table : table[j].ip # row.ip,
         Becomes(InsertAt(table, i, row), "inserted")
  PROVE  Distinct(table') /\ Inserts
<1>1. Len(table) \in Nat /\ DOMAIN table = 1 .. Len(table) /\ i \in 1 .. Len(table) + 1
      /\ row \in Row
  BY LenProperties, ArpAssumption
<1>2. /\ table' = SubSeq(table, 1, i - 1) \o <<row>> \o SubSeq(table, i, Len(table))
      /\ changes' = [changes EXCEPT !["inserted"] = @ + 1] /\ cursor' = cursor
  BY DEF Becomes, InsertAt
<1> PICK before \in Nat : before = i - 1
  BY <1>1
<1> DEFINE s == SubSeq(table, 1, i - 1)
           t == SubSeq(table, i, Len(table))
           one == <<row>>
<1>3. /\ s \in Seq(Row) /\ Len(s) = before /\ \A j \in 1 .. before : s[j] = table[j]
      /\ t \in Seq(Row) /\ Len(t) = Len(table) - before
      /\ \A j \in 1 .. Len(table) - before : t[j] = table[before + j]
      /\ one \in Seq(Row) /\ Len(one) = 1 /\ one[1] = row
  <2>1. s = SubSeq(table, 0 + 1, before) /\ before - 0 = before /\ before <= Len(table)
        /\ t = SubSeq(table, before + 1, Len(table))
    BY <1>1
  <2>2. one \in Seq(Row) /\ Len(one) = 1 /\ one[1] = row
    BY <1>1
  <2> HIDE DEF s, t
  <2>3. /\ s \in Seq(Row) /\ Len(s) = before
        /\ \A j \in 1 .. before : s[j] = table[0 + j]
    BY <2>1, Slice
  <2>4. /\ t \in Seq(Row) /\ Len(t) = Len(table) - before
        /\ \A j \in 1 .. Len(table) - before : t[j] = table[before + j]
    BY <1>1, <2>1, Slice
  <2> QED BY <2>2, <2>3, <2>4
<1> HIDE DEF s, t, one
<1> DEFINE front == s \o one
<1>4. /\ front \in Seq(Row) /\ Len(front) = before + 1
      /\ \A j \in 1 .. before + 1 : front[j] = IF j <= before THEN table[j] ELSE row
  <2>1. /\ front \in Seq(Row) /\ Len(front) = Len(s) + Len(one)
        /\ \A j \in 1 .. Len(s) + Len(one) :
             front[j] = IF j <= Len(s) THEN s[j] ELSE one[j - Len(s)]
    <3>1. s \in Seq(Row) /\ one \in Seq(Row)
      BY <1>3
    <3>2. front = s \o one
      OBVIOUS
    <3> HIDE DEF front
    <3> QED BY <3>1, <3>2, Joined
  <2> SUFFICES ASSUME NEW j \in 1 .. before + 1
               PROVE  front[j] = IF j <= before THEN table[j] ELSE row
    BY <1>3, <2>1
  <2>2. j <= before \/ j - before = 1
    OBVIOUS
  <2> HIDE DEF front
  <2> QED BY <1>3, <2>1, <2>2
<1>5. /\ Len(table') = Len(table) + 1 /\ DOMAIN table' = 1 .. Len(table) + 1
      /\ \A j \in 1 .. Len(table) + 1 :
           table'[j] = IF j < i THEN table[j] ELSE IF j = i THEN row ELSE table[j - 1]
  <2>1. /\ table' \in Seq(Row) /\ Len(table') = Len(front) + Len(t)
        /\ \A j \in 1 .. Len(front) + Len(t) :
             table'[j] = IF j <= Len(front) THEN front[j] ELSE t[j - Len(front)]
    <3>1. table' = front \o t
      BY <1>2 DEF s, t, one
    <3>2. front \in Seq(Row) /\ t \in Seq(Row)
      BY <1>3, <1>4
    <3> HIDE DEF front
    <3> QED BY <3>1, <3>2, Joined
  <2> HIDE DEF front
  <2>2. Len(table') = Len(table) + 1 /\ DOMAIN table' = 1 .. Len(table) + 1
    BY <1>1, <1>3, <1>4, <2>1, LenProperties
  <2> SUFFICES ASSUME NEW j \in 1 .. Len(table) + 1
               PROVE  table'[j] = IF j < i THEN table[j] ELSE IF j = i THEN row ELSE table[j - 1]
    BY <2>2
  <2>3. CASE j <= i
    <3>1. j \in 1 .. before + 1 /\ (j < i <=> j <= before)
      BY <1>1, <2>3
    <3> QED BY <1>1, <1>3, <1>4, <2>1, <2>3, <3>1
  <2>4. CASE j > i
    <3>1. j - (before + 1) \in 1 .. Len(table) - before /\ before + (j - (before + 1)) = j - 1
          /\ ~ (j <= before + 1)
      BY <1>1, <2>4
    <3>2. table'[j] = t[j - (before + 1)]
      BY <1>1, <1>3, <1>4, <2>1, <3>1
    <3> QED BY <1>3, <2>4, <3>1, <3>2
  <2> QED BY <1>1, <2>3, <2>4
<1> HIDE DEF front
<1>6. Distinct(table')
  <2> SUFFICES ASSUME NEW j \in 1 .. Len(table) + 1, NEW k \in 1 .. Len(table) + 1,
                      table'[j].ip = table'[k].ip
               PROVE  j = k
    BY <1>5 DEF Distinct
  <2> DEFINE from(n) == IF n < i THEN n ELSE n - 1
  <2>1. /\ j # i => from(j) \in 1 .. Len(table) /\ table'[j] = table[from(j)]
        /\ k # i => from(k) \in 1 .. Len(table) /\ table'[k] = table[from(k)]
        /\ j = i => table'[j] = row
        /\ k = i => table'[k] = row
    BY <1>1, <1>5
  <2>2. j # i /\ k # i => from(j) = from(k)
    <3> HIDE DEF from
    <3> QED BY <1>1, <2>1 DEF Distinct
  <2>3. j = i <=> k = i
    <3> HIDE DEF from
    <3> QED BY <1>1, <2>1
  <2> QED BY <1>1, <2>2, <2>3
<1>7. Undumped' = Undumped \/ Undumped' = Undumped + 1
  <2>1. Len(table') = Len(table) + 1 /\ cursor' = cursor
    BY <1>2, <1>5
  <2>2. Undumped' = IF cursor <= Len(table) + 1 THEN Len(table) + 1 - cursor + 1 ELSE 0
    BY <2>1 DEF Undumped
  <2> QED BY <1>1, <2>2 DEF Undumped
<1>8. Behind \subseteq Behind'
  <2> SUFFICES ASSUME NEW j \in cursor .. Len(table) PROVE table[j] \in Behind'
    BY DEF Behind
  <2>1. CASE j < i
    <3>1. j \in 1 .. Len(table) + 1 /\ j \in cursor .. Len(table) + 1
      BY <1>1
    <3> QED BY <1>2, <1>5, <2>1, <3>1 DEF Behind
  <2>2. CASE ~ (j < i)
    <3>1. j + 1 \in 1 .. Len(table) + 1 /\ j + 1 \in cursor .. Len(table) + 1 /\ j + 1 - 1 = j
          /\ ~ (j + 1 < i) /\ j + 1 # i
      BY <1>1, <2>2
    <3>2. table'[j + 1] = table[j]
      BY <1>5, <3>1
    <3> QED BY <1>2, <1>5, <3>1, <3>2 DEF Behind
  <2> QED BY <2>1, <2>2
<1> QED BY <1>2, <1>6, <1>7, <1>8 DEF Inserts

\* A row is altered: as no address comes twice, the row it was is nowhere any more.
LEMMA AlterationRows ==
  ASSUME table \in Seq(Row), cursor \in Nat \ {0}, Distinct(table),
         NEW row \in Arrivals, NEW i \in DOMAIN table, row.ip = table[i].ip, row # table[i],
         Becomes([table EXCEPT ![i] = row], "altered")
  PROVE  Distinct(table') /\ Alters
<1>1. Len(table) \in Nat /\ DOMAIN table = 1 .. Len(table) /\ row \in Row
  BY LenProperties, ArpAssumption
<1>2. /\ table' = [table EXCEPT ![i] = row]
      /\ changes' = [changes EXCEPT !["altered"] = @ + 1] /\ cursor' = cursor
  BY DEF Becomes
<1>3. /\ Len(table') = Len(table) /\ DOMAIN table' = DOMAIN table
      /\ \A j \in DOMAIN table : /\ table'[j] = IF j = i THEN row ELSE table[j]
                                 /\ table'[j].ip = table[j].ip
  <2>1. table' \in Seq(Row) /\ Len(table') = Len(table)
    BY <1>1, <1>2, ExceptSeq
  <2> QED BY <1>1, <1>2, <2>1
<1>4. Distinct(table')
  BY <1>3 DEF Distinct
<1>5. Undumped' = Undumped
  BY <1>2, <1>3 DEF Undumped
<1>6. table[i] \notin Range(table')
  BY <1>3 DEF Distinct, Range
<1>7. Behind \subseteq Behind' \cup {table[i]}
  BY <1>1, <1>2, <1>3 DEF Behind
<1>8. Ips(Behind) \subseteq Ips(Behind')
  <2> SUFFICES ASSUME NEW j \in cursor .. Len(table) PROVE table[j].ip \in Ips(Behind')
    BY DEF Behind, Ips
  <2>1. j \in DOMAIN table /\ table'[j] \in Behind'
    BY <1>1, <1>2, <1>3 DEF Behind
  <2> QED BY <1>3, <2>1 DEF Ips
<1> QED BY <1>2, <1>4, <1>5, <1>6, <1>7, <1>8 DEF Alters

\* The rows of a dump: those that were dumped, and those of a table from a cursor on.
Part(rows, first, last) == {rows[i] : i \in first .. last}
Follows(rows, hi, tab, cur) ==
  LET left == IF cur <= Len(tab) THEN Len(tab) - cur + 1 ELSE 0
  IN  Len(rows) = hi + left /\ \A i \in 1 .. left : rows[hi + i] = tab[cur + i - 1]

LEMMA DumpedAndUndumped ==
  ASSUME NEW tab \in Seq(Row), NEW cur \in Nat \ {0},
         NEW rows, NEW lo \in Nat, NEW hi \in Nat, lo <= hi, Follows(rows, hi, tab, cur)
  PROVE  Ahead(rows, lo) = Part(rows, lo + 1, hi) \cup Part(tab, cur, Len(tab))
<1> PICK left : left = IF cur <= Len(tab) THEN Len(tab) - cur + 1 ELSE 0
  OBVIOUS
<1>1. /\ Len(tab) \in Nat /\ left \in Nat
      /\ Len(rows) = hi + left /\ \A i \in 1 .. left : rows[hi + i] = tab[cur + i - 1]
  BY LenProperties DEF Follows
<1>2. ASSUME NEW i \in lo + 1 .. Len(rows)
      PROVE  rows[i] \in Part(rows, lo + 1, hi) \cup Part(tab, cur, Len(tab))
  <2>1. CASE i <= hi
    <3>1. i \in lo + 1 .. hi
      BY <1>1, <2>1
    <3> QED BY <3>1 DEF Part
  <2>2. CASE i > hi
    <3>1. i - hi \in 1 .. left /\ hi + (i - hi) = i
      BY <1>1, <2>2
    <3>2. cur + (i - hi) - 1 \in cur .. Len(tab)
      BY <1>1, <3>1
    <3> QED BY <1>1, <3>1, <3>2 DEF Part
  <2> QED BY <1>1, <2>1, <2>2
<1>3. ASSUME NEW k \in lo + 1 .. hi PROVE rows[k] \in Ahead(rows, lo)
  <2>1. k \in lo + 1 .. Len(rows)
    BY <1>1
  <2> QED BY <2>1 DEF Ahead
<1>4. ASSUME NEW j \in cur .. Len(tab) PROVE tab[j] \in Ahead(rows, lo)
  <2>1. j - cur + 1 \in 1 .. left /\ cur + (j - cur + 1) - 1 = j
        /\ hi + (j - cur + 1) \in lo + 1 .. Len(rows)
    BY <1>1
  <2>2. rows[hi + (j - cur + 1)] = tab[j]
    BY <1>1, <2>1
  <2> QED BY <2>1, <2>2 DEF Ahead
<1> QED BY <1>2, <1>3, <1>4 DEF Ahead, Part

\* Messages carry whatever rows are the same at these places.
LEMMA SameRows ==
  ASSUME NEW rows, NEW other, NEW lo \in Nat, NEW hi \in Nat,
         \A i \in lo + 1 .. hi : other[i] = rows[i],
         NEW msgs, Carries(rows, msgs, lo, hi)
  PROVE  Carries(other, msgs, lo, hi)
<1>1. PICK first \in {0, 1}, last \in {0, 1} :
        /\ Len(msgs) = first + (hi - lo) + last
        /\ \A i \in 1 .. first : msgs[i].type = "OTHER"
        /\ \A i \in 1 .. hi - lo : msgs[first + i] = NewNeighbour(rows[lo + i])
        /\ last = 1 => msgs[Len(msgs)].type \in {"DONE", "ERROR"}
  BY DEF Carries
<1>2. \A i \in 1 .. hi - lo : msgs[first + i] = NewNeighbour(other[lo + i])
  <2> SUFFICES ASSUME NEW i \in 1 .. hi - lo PROVE msgs[first + i] = NewNeighbour(other[lo + i])
    OBVIOUS
  <2>1. lo + i \in lo + 1 .. hi
    OBVIOUS
  <2> QED BY <1>1, <2>1
<1> QED BY <1>1, <1>2 DEF Carries

\* One row more, and one more that was inserted.
LEMMA OneOnTop ==
  ASSUME NEW e \in Nat, NEW m \in Nat, NEW n \in Nat, NEW c \in Nat, NEW d \in Nat, NEW k \in Nat,
         NEW lo \in Nat, e + (m - lo) <= c + k, n - lo <= m - lo + 1, c <= d
  PROVE  e + (n - lo) <= d + (k + 1)
OBVIOUS

\* A change of the table against the counts: a row gone is one removed, a row on top one
\* inserted, and an altered row is stable no more.
LEMMA ChangeCounts ==
  ASSUME CachedInv, IsFiniteSet(stable),
         changes \in [removed : Nat, inserted : Nat, altered : Nat],
         Removes \/ Inserts \/ Alters, UNCHANGED entries, stable' = stable \cap Range(table'),
         Undumped \in Nat,
         NEW rows \in Seq(Row), NEW other \in Seq(Row), NEW lo \in Nat, NEW hi \in Nat, lo <= hi,
         Len(rows) = hi + Undumped, Len(other) = hi + Undumped', NEW dumped,
         Ahead(rows, lo) = dumped \cup Behind, Ahead(other, lo) = dumped \cup Behind',
         Counted(rows, lo)
  PROVE  Counted(other, lo)'
<1>1. /\ Cardinality(Lost(rows, lo)) <= changes.removed
      /\ Len(entries) + (Len(rows) - lo) <= Cardinality(Met(rows, lo)) + changes.inserted
  BY DEF Counted
<1>2. /\ IsFiniteSet(Lost(rows, lo)) /\ Cardinality(Lost(rows, lo)) \in Nat
      /\ IsFiniteSet(Met(rows, lo)) /\ Cardinality(Met(rows, lo)) \in Nat
      /\ IsFiniteSet(Met(other, lo)) /\ Cardinality(Met(other, lo)) \in Nat
      /\ Len(entries) \in Nat
  <2>1. Lost(rows, lo) \subseteq stable
    BY DEF Lost
  <2>2. Len(entries) \in Nat
    BY LenProperties DEF CachedInv
  <2> QED BY <2>1, <2>2, MetFinite, FS_Subset, FS_CardinalityType
<1>3. Met(other, lo)' = Met(other, lo) /\ Len(entries') = Len(entries)
  BY DEF Met, Ips, Ahead
<1>4. Lost(other, lo)' =
        {row \in stable \cap Range(table') :
           Listable(row) /\ Entry(row) \notin Range(entries) /\ row \notin Ahead(other, lo)}
  BY DEF Lost, Ahead
<1>5. ASSUME Lost(other, lo)' \subseteq Lost(rows, lo)
      PROVE  Cardinality(Lost(other, lo)') <= Cardinality(Lost(rows, lo))
             /\ Cardinality(Lost(other, lo)') \in Nat
  BY <1>2, <1>5, FS_Subset, FS_CardinalityType
<1>6. ASSUME Met(rows, lo) \subseteq Met(other, lo)
      PROVE  Cardinality(Met(rows, lo)) <= Cardinality(Met(other, lo))
  BY <1>2, <1>6, FS_Subset
<1>7. ASSUME Behind \subseteq Behind'
      PROVE  Lost(other, lo)' \subseteq Lost(rows, lo) /\ Met(rows, lo) \subseteq Met(other, lo)
  BY <1>4, <1>7 DEF Lost, Met, Ips
<1>8. CASE Removes /\ Undumped' = Undumped /\ Behind \subseteq Behind'
  <2>1. /\ changes'.removed = changes.removed + 1 /\ changes'.inserted = changes.inserted
        /\ changes.removed \in Nat /\ changes.inserted \in Nat
    BY <1>8 DEF Removes
  <2> QED BY <1>1, <1>2, <1>3, <1>5, <1>6, <1>7, <1>8, <2>1 DEF Counted
<1>9. CASE Removes /\ \E gone : Undumped' = Undumped - 1 /\ Behind \subseteq Behind' \cup {gone}
  <2>1. /\ changes'.removed = changes.removed + 1 /\ changes'.inserted = changes.inserted
        /\ changes.removed \in Nat /\ changes.inserted \in Nat
    BY <1>9 DEF Removes
  <2>2. PICK gone : Undumped' = Undumped - 1 /\ Behind \subseteq Behind' \cup {gone}
    BY <1>9
  <2>3. Lost(other, lo)' \subseteq Lost(rows, lo) \cup {gone}
    BY <1>4, <2>2 DEF Lost
  <2>4. Cardinality(Lost(other, lo)') <= Cardinality(Lost(rows, lo)) + 1
        /\ Cardinality(Lost(other, lo)') \in Nat
    BY <1>2, <2>3, OneMore, FS_CardinalityType
  <2>5. Met(rows, lo) \subseteq Met(other, lo) \cup {gone.ip}
    BY <2>2 DEF Met, Ips
  <2>6. Cardinality(Met(rows, lo)) <= Cardinality(Met(other, lo)) + 1
    BY <1>2, <2>5, OneMore
  <2>7. Cardinality(Lost(other, lo)') <= changes'.removed
    BY <1>1, <1>2, <2>1, <2>4
  <2>8. Len(entries) + (Len(other) - lo) <= Cardinality(Met(other, lo)) + changes'.inserted
    BY <1>1, <1>2, <2>1, <2>2, <2>6
  <2> QED BY <1>3, <2>7, <2>8 DEF Counted
<1>10. CASE Inserts
  <2>1. /\ changes'.removed = changes.removed /\ changes'.inserted = changes.inserted + 1
        /\ changes.removed \in Nat /\ changes.inserted \in Nat
        /\ Undumped' = Undumped \/ Undumped' = Undumped + 1
        /\ Behind \subseteq Behind'
    BY <1>10 DEF Inserts
  <2>2. Lost(other, lo)' \subseteq Lost(rows, lo) /\ Met(rows, lo) \subseteq Met(other, lo)
    BY <1>7, <2>1
  <2>3. /\ Cardinality(Lost(other, lo)') <= Cardinality(Lost(rows, lo))
        /\ Cardinality(Lost(other, lo)') \in Nat
        /\ Cardinality(Met(rows, lo)) <= Cardinality(Met(other, lo))
    BY <1>5, <1>6, <2>2
  <2>4. Cardinality(Lost(other, lo)') <= changes'.removed
    BY <1>1, <1>2, <2>1, <2>3
  <2>5. Len(other) - lo <= Len(rows) - lo + 1 /\ Len(other) \in Nat /\ Len(rows) \in Nat
    BY <2>1, LenProperties
  <2>6. Len(entries) + (Len(other) - lo) <= Cardinality(Met(other, lo)) + changes'.inserted
    <3>1. /\ Len(entries) + (Len(rows) - lo) <= Cardinality(Met(rows, lo)) + changes.inserted
          /\ changes'.inserted = changes.inserted + 1 /\ changes.inserted \in Nat
      BY <1>1, <2>1
    <3> PICK e \in Nat : e = Len(entries)
      BY <1>2
    <3> PICK m \in Nat, n \in Nat : m = Len(rows) /\ n = Len(other)
      BY <2>5
    <3> PICK c \in Nat, d \in Nat :
           c = Cardinality(Met(rows, lo)) /\ d = Cardinality(Met(other, lo))
      BY <1>2
    <3> PICK k \in Nat : k = changes.inserted
      BY <3>1
    <3>2. e + (m - lo) <= c + k /\ n - lo <= m - lo + 1 /\ c <= d
      BY <2>3, <2>5, <3>1
    <3>3. e + (n - lo) <= d + (k + 1)
      BY <3>2, OneOnTop
    <3>4. changes'.inserted = k + 1
      BY <3>1
    <3> QED BY <3>3, <3>4
  <2> QED BY <1>3, <2>4, <2>6 DEF Counted
<1>11. CASE Alters
  <2>1. /\ changes'.removed = changes.removed /\ changes'.inserted = changes.inserted
        /\ changes.removed \in Nat /\ changes.inserted \in Nat
        /\ Undumped' = Undumped /\ Ips(Behind) \subseteq Ips(Behind')
    BY <1>11 DEF Alters
  <2>2. PICK gone : gone \notin Range(table') /\ Behind \subseteq Behind' \cup {gone}
    BY <1>11 DEF Alters
  <2>3. Lost(other, lo)' \subseteq Lost(rows, lo)
    BY <1>4, <2>2 DEF Lost
  <2>4. Met(rows, lo) \subseteq Met(other, lo)
    BY <2>1 DEF Met, Ips
  <2>5. Cardinality(Lost(other, lo)') <= changes'.removed
    BY <1>1, <1>2, <1>5, <2>1, <2>3
  <2>6. Len(entries) + (Len(other) - lo) <= Cardinality(Met(other, lo)) + changes'.inserted
    BY <1>1, <1>2, <1>6, <2>1, <2>4
  <2> QED BY <1>3, <2>5, <2>6 DEF Counted
<1> QED BY <1>8, <1>9, <1>10, <1>11 DEF Removes

\* A change of the table gives the dump other rows behind those that were dumped.
LEMMA ChangeKeepsTorn ==
  ASSUME CachedInv, TornInv, UNCHANGED threadVars, TableChanges
  PROVE  TornInv'
<1>1. /\ table \in Seq(Row) /\ cursor \in Nat \ {0} /\ Len(table) \in Nat /\ Undumped \in Nat
      /\ pc \in {"socket", "send"} => dump = "none"
      /\ IsFiniteSet(stable) /\ changes \in [removed : Nat, inserted : Nat, altered : Nat]
      /\ Distinct(table)
  BY LenProperties DEF CachedInv, Undumped, TornInv
<1>2. /\ dump = "running" /\ table' \in Seq(Row)
      /\ UNCHANGED <<dump, cursor, queue, pc, entries, inbox, finished>>
  BY <1>1, ChangedTable DEF threadVars
<1>3. stable' = stable \cap Range(table')
  <2>1. \A rows, kind : Becomes(rows, kind) => stable' = stable \cap Range(table')
    BY DEF Becomes
  <2> QED BY <2>1 DEF TableChanges
<1>4. Distinct(table') /\ (Removes \/ Inserts \/ Alters)
  BY <1>1, RemovalRows, InsertionRows, AlterationRows DEF TableChanges
<1>5. IsFiniteSet(stable') /\ changes' \in [removed : Nat, inserted : Nat, altered : Nat]
  <2>1. changes' \in [removed : Nat, inserted : Nat, altered : Nat]
    BY <1>1, <1>4 DEF Removes, Inserts, Alters
  <2> QED BY <1>1, <1>3, <2>1, FS_Subset
<1>6. ~ finished' /\ Distinct(table)' /\ pc' \notin {"socket", "send"}
  BY <1>1, <1>2, <1>4 DEF TornInv, Distinct
<1>7. CASE pc \notin {"recv", "parse"}
  BY <1>2, <1>5, <1>6, <1>7 DEF TornInv, Followed
<1>8. CASE pc \in {"recv", "parse"}
  <2>1. PICK rows \in Seq(Row), lo \in Nat, mid \in Nat, hi \in Nat : Torn(rows, lo, mid, hi)
    BY <1>2, <1>8 DEF TornInv, Followed
  <2>2. /\ lo <= mid /\ mid <= hi /\ Len(rows) = hi + Undumped /\ DumpsOn(rows, hi)
        /\ Pending(rows, lo, mid, hi) /\ Counted(rows, lo)
    BY <1>8, <2>1 DEF Torn
  <2> PICK tab \in Seq(Row) : tab = table'
    BY <1>2
  <2> PICK left : left = Undumped'
    OBVIOUS
  <2>3. left = (IF cursor <= Len(tab) THEN Len(tab) - cursor + 1 ELSE 0) /\ left \in Nat
        /\ Len(tab) \in Nat
    BY <1>1, <1>2, LenProperties DEF Undumped
  <2> DEFINE new == [i \in 1 .. hi + left |->
                      IF i <= hi THEN rows[i] ELSE tab[cursor + i - hi - 1]]
  <2>4. /\ new \in Seq(Row) /\ Len(new) = hi + left
        /\ \A i \in 1 .. hi : new[i] = rows[i]
        /\ \A i \in 1 .. left : new[hi + i] = tab[cursor + i - 1]
    <3>1. ASSUME NEW i \in 1 .. hi + left
          PROVE  (IF i <= hi THEN rows[i] ELSE tab[cursor + i - hi - 1]) \in Row
      <4>1. CASE i <= hi
        <5>1. i \in 1 .. Len(rows)
          BY <1>1, <2>2, <4>1
        <5> QED BY <4>1, <5>1, ElementOfSeq
      <4>2. CASE i > hi
        <5>1. cursor + i - hi - 1 \in 1 .. Len(tab)
          BY <1>1, <2>3, <4>2
        <5> QED BY <4>2, <5>1, ElementOfSeq
      <4> QED BY <2>3, <4>1, <4>2
    <3>2. new \in [1 .. hi + left -> Row] /\ hi + left \in Nat
      BY <2>3, <3>1
    <3>3. \A i \in 1 .. hi : new[i] = rows[i]
      BY <2>3
    <3>4. ASSUME NEW i \in 1 .. left PROVE new[hi + i] = tab[cursor + i - 1]
      <4>1. hi + i \in 1 .. hi + left /\ ~ (hi + i <= hi)
            /\ cursor + (hi + i) - hi - 1 = cursor + i - 1
        BY <1>1, <2>3
      <4> QED BY <4>1
    <3> HIDE DEF new
    <3>5. new \in Seq(Row) /\ Len(new) = hi + left
      BY <3>2
    <3> QED BY <3>3, <3>4, <3>5
  <2> HIDE DEF new
  <2> PICK other \in Seq(Row) : other = new
    BY <2>4
  <2> PICK dumped : dumped = Part(rows, lo + 1, hi)
    OBVIOUS
  <2>5. Ahead(rows, lo) = dumped \cup Behind
    <3>1. Ahead(rows, lo) = Part(rows, lo + 1, hi) \cup Part(table, cursor, Len(table))
      <4>1. Follows(rows, hi, table, cursor) /\ lo <= hi
        BY <2>2 DEF DumpsOn, Undumped, Follows
      <4> QED BY <1>1, <4>1, DumpedAndUndumped
    <3> QED BY <3>1 DEF Behind, Part
  <2>6. Ahead(other, lo) = dumped \cup Behind'
    <3>1. Ahead(other, lo) = Part(other, lo + 1, hi) \cup Part(tab, cursor, Len(tab))
      <4>1. Follows(other, hi, tab, cursor) /\ lo <= hi
        BY <2>2, <2>3, <2>4 DEF Follows
      <4> QED BY <1>1, <4>1, DumpedAndUndumped
    <3>2. Part(other, lo + 1, hi) = dumped
      <4>1. \A i \in lo + 1 .. hi : i \in 1 .. hi
        OBVIOUS
      <4> QED BY <2>4, <4>1 DEF Part
    <3> QED BY <1>2, <3>1, <3>2 DEF Behind, Part
  <2>7. Counted(other, lo)'
    <3>1. lo <= hi /\ Len(other) = hi + Undumped'
      BY <2>2, <2>4
    <3> QED BY <1>1, <1>2, <1>3, <1>4, <2>2, <2>5, <2>6, <3>1, ChangeCounts
  <2>8. Pending(other, lo, mid, hi)'
    <3>1. \A i \in lo + 1 .. mid : other[i] = rows[i]
      BY <2>2, <2>4
    <3>2. \A i \in mid + 1 .. hi : other[i] = rows[i]
      BY <2>2, <2>4
    <3>3. /\ \A msgs : Carries(rows, msgs, lo, mid) => Carries(other, msgs, lo, mid)
          /\ \A msgs : Carries(rows, msgs, mid, hi) => Carries(other, msgs, mid, hi)
      BY <3>1, <3>2, SameRows
    <3>4. Pending(other, lo, mid, hi)
      BY <2>2, <3>3 DEF Pending
    <3> QED BY <1>2, <3>4 DEF Pending, Carries, Ends
  <2>9. DumpsOn(other, hi)' /\ Len(other) = hi + Undumped'
    BY <1>2, <2>4 DEF DumpsOn
  <2>10. Torn(other, lo, mid, hi)'
    BY <1>2, <1>6, <2>2, <2>7, <2>8, <2>9 DEF Torn
  <2> QED BY <1>5, <1>6, <2>10 DEF TornInv
<1> QED BY <1>7, <1>8

LEMMA TornStep == CachedInv /\ TornInv /\ [Next]_vars => TornInv'
<1> SUFFICES ASSUME CachedInv, TornInv, [Next]_vars PROVE TornInv'
  OBVIOUS
<1>1. CASE UNCHANGED vars
  <2>1. UNCHANGED <<pc, entries, inbox, finished, table, dump, cursor, queue, changes, stable>>
    BY <1>1 DEF vars, threadVars, kernelVars
  <2>2. ASSUME NEW rows, NEW lo, NEW mid, NEW hi, Torn(rows, lo, mid, hi)
        PROVE  Torn(rows, lo, mid, hi)'
    <3>1. Counted(rows, lo)'
      BY <2>1, <2>2, SameCounts DEF Torn
    <3> QED BY <2>1, <2>2, <3>1 DEF Torn, DumpsOn, Undumped, Pending, Carries, Ends
  <2> QED BY <2>1, <2>2 DEF TornInv, Distinct, Followed
<1> QED BY <1>1, ThreadKeepsTorn, DumpKeepsTorn, ChangeKeepsTorn DEF Next, Kernel, Stopped

\* Of tables in which no address comes twice, a complete dump misses no more of the rows
\* that were there all the time than were removed meanwhile, and lists no more addresses
\* again than were inserted - whatever the table, however often it changes, and wherever
\* the dump stands when it does.
THEOREM TornDumpCounted ==
  ASSUME \A rows \in Tables : Distinct(rows)
  PROVE  Spec => []TornDumpBounded
<1>1. Init => CachedInv /\ TornInv
  <2> SUFFICES ASSUME Init PROVE TornInv
    BY CachedInit
  <2>1. IsFiniteSet({})
    BY FS_EmptySet
  <2> QED BY <2>1 DEF Init, TornInv, Followed, NoChange
<1>2. CachedInv /\ TornInv /\ [Next]_vars => (CachedInv /\ TornInv)'
  BY CachedStep, TornStep
<1>3. CachedInv /\ TornInv => TornDumpBounded
  <2> SUFFICES ASSUME CachedInv, TornInv, finished, dump = "complete"
               PROVE  /\ Cardinality({row \in stable :
                                         Listable(row) /\ Entry(row) \notin Range(entries)})
                           <= changes.removed
                      /\ Len(entries) <= Cardinality({entries[i].ip : i \in DOMAIN entries})
                                           + changes.inserted
    BY DEF TornDumpBounded
  <2>1. PICK rows \in Seq(Row), lo \in Nat, mid \in Nat, hi \in Nat : Torn(rows, lo, mid, hi)
    BY DEF TornInv, Followed
  <2>2. lo = Len(rows) /\ Counted(rows, lo)
    BY <2>1 DEF Torn
  <2>3. Ahead(rows, lo) = {}
    BY <2>2 DEF Ahead
  <2>4. Lost(rows, lo) = {row \in stable : Listable(row) /\ Entry(row) \notin Range(entries)}
    BY <2>3 DEF Lost
  <2>5. Met(rows, lo) = {entries[i].ip : i \in DOMAIN entries}
    BY <2>3 DEF Met, Ips, Range
  <2>6. Len(entries) \in Nat /\ Len(rows) - lo = 0
    BY <2>2, LenProperties DEF CachedInv
  <2> QED BY <2>2, <2>4, <2>5, <2>6 DEF Counted
<1> QED BY <1>1, <1>2, <1>3, PTL DEF Spec
=============================================================================
