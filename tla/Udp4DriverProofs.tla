--------------------------- MODULE Udp4DriverProofs ----------------------------
(***************************************************************************)
(* Proofs about Udp4Driver for any packets, addresses, connections, size   *)
(* of the receive buffers and number of packets.                           *)
(***************************************************************************)
EXTENDS Udp4Driver, SequenceTheorems, WellFoundedInduction, TLAPS

Bytewise == Nat \X Nat
Descrs == [len : Nat \ {0}, dst_addr : {p.addr.dst : p \in Packets}]

DriverTypes ==
  /\ sock \in {"closed", "bare", "filtered", "ready"} /\ cleared \in BOOLEAN
  /\ pushed \in Seq(Packets) /\ msg_descr \in Seq(Descrs)
  /\ packet_buffers \in Seq(Bytewise)
  /\ sent = -1 \/ sent \in 0..Len(msg_descr)
  /\ buffers \in Nat

\* packet_buffers, which is never emptied, holds whole packets: from any unit the
\* rest of its packet follows.
Whole ==
  \A j \in 1..Len(packet_buffers) :
    LET n == packet_buffers[j][1]
        i == packet_buffers[j][2]
    IN  /\ n \in 1..Len(pushed) /\ i \in 0..(pushed[n].len - 1)
        /\ \A k \in 0..(pushed[n].len - 1 - i) :
             j + k <= Len(packet_buffers) /\ packet_buffers[j + k] = <<n, i + k>>

\* The descriptors cover no more than there are bytes.
Covered == Advanced(msg_descr, Len(msg_descr)) <= Len(packet_buffers)

\* Until the first clear() each descriptor describes its own packet.
Aligned ==
  /\ Len(msg_descr) = Len(pushed)
  /\ Advanced(msg_descr, Len(msg_descr)) = Len(packet_buffers)
  /\ \A i \in 1..Len(pushed) :
       /\ msg_descr[i] = [len |-> pushed[i].len, dst_addr |-> pushed[i].addr.dst]
       /\ \A k \in 1..pushed[i].len :
            packet_buffers[Advanced(msg_descr, i - 1) + k] = <<i, k - 1>>

\* A datagram that, when it starts with the headers of a packet, goes on with that
\* packet; and one that is a packet, to the destination in its headers.
Fits(d, packets) ==
  LET n == d.bytes[1][1]
  IN  /\ d.bytes \in Seq(Bytewise) /\ Len(d.bytes) >= 1 /\ n \in 1..Len(packets)
      /\ packets[n].id \in {htons(d.id), Zero}
      /\ d.bytes[1][2] = 0 => \A k \in 1..packets[n].len :
                                k <= Len(d.bytes) => d.bytes[k] = <<n, k - 1>>
IsPacket(d, packets) ==
  \E n \in 1..Len(packets) : /\ d.bytes = Bytes(n, packets[n].len)
                             /\ d.dst_addr = packets[n].addr.dst

OnWire == \A d \in wire : Fits(d, pushed)

\* What recvmmsg() returned has passed the filter of the socket.
Passed(d) ==
  /\ d.bytes[1][2] = 0
  /\ sock # "bare" => pushed[d.bytes[1][1]].addr.dst.port \in 10..50
Received ==
  /\ messages \in Seq(wire)
  /\ \A j \in 1..Len(messages) : Passed(messages[j])
  /\ sock = "closed" => messages = <<>> /\ calls = {} /\ sent <= 0

\* The packets that send() counts as sent are on the network.
Progress ==
  sock = "ready" => \A i \in 1..sent : \E d \in wire :
    d.bytes = Slice(Offset(i), msg_descr[i].len) /\ d.dst_addr = msg_descr[i].dst_addr

DriverInv ==
  /\ DriverTypes /\ Whole /\ Covered /\ (~cleared => Aligned)
  /\ OnWire /\ Received /\ Progress
  /\ FirstSendIntact /\ CalledWithPushed /\ PortsFiltered
------------------------------------------------------------------------------
(* The recursion of Advanced() is followed with sets of natural numbers    *)
(* that hold 0 and are closed under successor.                             *)

LEMMA SetInduction ==
  ASSUME NEW T \in SUBSET Nat, 0 \in T, \A n \in T : n + 1 \in T
  PROVE  T = Nat
  <1> DEFINE Less == OpToRel(<, Nat)
             Rest == Nat \ T
  <1>1. SUFFICES ASSUME Rest # {} PROVE FALSE
    OBVIOUS
  <1>2. IsWellFoundedOn(Less, Nat)
    BY NatLessThanWellFounded
  <1>3. \A x, y \in Nat : y < x => <<y, x>> \in Less
    BY DEF OpToRel
  <1> HIDE DEF Less
  <1>4. PICK n \in Rest : \A k \in Rest : <<k, n>> \notin Less
    BY <1>1, <1>2, WFMin, Rest \subseteq Nat
  <1>5. n \in Nat /\ n # 0 /\ n - 1 \in Nat /\ n - 1 < n
    OBVIOUS
  <1>6. n - 1 \in T
    BY <1>3, <1>4, <1>5
  <1>7. (n - 1) + 1 \in T /\ (n - 1) + 1 = n
    BY <1>5, <1>6
  <1> QED
    BY <1>7

\* What the recursive function inside Advanced(descr, n) satisfies.
Advances(data, descr, n) ==
  data = [k \in 0..n |-> IF k = 0 THEN 0 ELSE data[k - 1] + descr[k].len]

LEMMA AdvancesAt ==
  ASSUME NEW descr, NEW n \in Nat, NEW data, Advances(data, descr, n)
  PROVE  data[0] = 0 /\ \A k \in 1..n : data[k] = data[k - 1] + descr[k].len
  <1>1. \A k \in 0..n : data[k] = IF k = 0 THEN 0 ELSE data[k - 1] + descr[k].len
    BY Zenon DEF Advances
  <1>2. \A k \in 1..n : k \in 0..n /\ k # 0
    OBVIOUS
  <1>3. 0 \in 0..n
    OBVIOUS
  <1> QED
    BY <1>1, <1>2, <1>3, Zenon

LEMMA AdvancesExists ==
  ASSUME NEW descr, NEW n \in Nat PROVE \E data : Advances(data, descr, n)
  <1> DEFINE T == {k \in Nat : \E data : Advances(data, descr, k)}
  <1>1. 0 \in T
    <2>1. Advances([k \in 0..0 |-> 0], descr, 0)
      BY DEF Advances
    <2> QED
      BY <2>1
  <1>2. ASSUME NEW k \in T PROVE k + 1 \in T
    <2>1. PICK data : Advances(data, descr, k)
      OBVIOUS
    <2> DEFINE next == [i \in 0..(k + 1) |-> IF i <= k THEN data[i]
                                             ELSE data[k] + descr[k + 1].len]
    <2>2. ASSUME NEW i \in 0..(k + 1)
          PROVE  next[i] = IF i = 0 THEN 0 ELSE next[i - 1] + descr[i].len
      <3>1. CASE i = k + 1
        BY <3>1
      <3>2. CASE i = 0
        <4>1. data[0] = 0 /\ k \in Nat
          BY <2>1, AdvancesAt
        <4>2. next[0] = data[0]
          BY <4>1
        <4> QED
          BY <3>2, <4>1, <4>2
      <3>3. CASE i \in 1..k
        <4>1. next[i] = data[i] /\ next[i - 1] = data[i - 1]
          BY <3>3
        <4>2. data[i] = data[i - 1] + descr[i].len
          BY <3>3, <2>1, AdvancesAt
        <4> QED
          BY <3>3, <4>1, <4>2
      <3> QED
        BY <3>1, <3>2, <3>3
    <2>3. Advances(next, descr, k + 1)
      BY <2>2 DEF Advances
    <2> QED
      BY <2>3
  <1>3. T = Nat
    BY <1>1, <1>2, SetInduction
  <1> QED
    BY <1>3

LEMMA AdvancesSame ==
  ASSUME NEW descr, NEW n \in Nat, NEW data, Advances(data, descr, n),
         NEW other, NEW m \in Nat, NEW odata, Advances(odata, other, m),
         NEW j \in Nat, j <= n, j <= m, \A k \in 1..j : descr[k].len = other[k].len
  PROVE  data[j] = odata[j]
  <1> DEFINE T == {k \in Nat : k <= j => data[k] = odata[k]}
  <1>1. 0 \in T
    BY AdvancesAt
  <1>2. ASSUME NEW k \in T, k + 1 <= j PROVE data[k + 1] = odata[k + 1]
    <2>1. k + 1 \in 1..n /\ k + 1 \in 1..m /\ k + 1 \in 1..j /\ (k + 1) - 1 = k
      BY <1>2
    <2>2. data[k + 1] = data[k] + descr[k + 1].len
      BY <2>1, AdvancesAt
    <2>3. odata[k + 1] = odata[k] + other[k + 1].len
      BY <2>1, AdvancesAt
    <2> QED
      BY <1>2, <2>1, <2>2, <2>3
  <1>3. \A k \in T : k + 1 \in T
    BY <1>2
  <1>4. T = Nat
    BY <1>1, <1>3, SetInduction
  <1> QED
    BY <1>4

LEMMA AdvancedUnfold ==
  ASSUME NEW descr, NEW n \in Nat
  PROVE  \E data : Advances(data, descr, n) /\ Advanced(descr, n) = data[n]
  <1> DEFINE data == CHOOSE data : Advances(data, descr, n)
  <1>1. Advances(data, descr, n)
    BY AdvancesExists
  <1>2. Advanced(descr, n) = data[n]
    BY Zenon DEF Advanced, Advances
  <1> QED
    BY <1>1, <1>2

\* Only the lengths of the first n descriptors count.
LEMMA AdvancedSame ==
  ASSUME NEW descr, NEW other, NEW n \in Nat,
         \A k \in 1..n : descr[k].len = other[k].len
  PROVE  Advanced(descr, n) = Advanced(other, n)
  <1>1. PICK f : Advances(f, descr, n) /\ Advanced(descr, n) = f[n]
    BY AdvancedUnfold
  <1>2. PICK g : Advances(g, other, n) /\ Advanced(other, n) = g[n]
    BY AdvancedUnfold
  <1>3. f[n] = g[n]
    BY <1>1, <1>2, AdvancesSame, n <= n
  <1> QED
    BY <1>1, <1>2, <1>3

LEMMA AdvancedStep ==
  ASSUME NEW descr, NEW n \in Nat
  PROVE  /\ Advanced(descr, 0) = 0
         /\ Advanced(descr, n + 1) = Advanced(descr, n) + descr[n + 1].len
  <1>1. PICK f : Advances(f, descr, n) /\ Advanced(descr, n) = f[n]
    BY AdvancedUnfold
  <1>2. PICK g : Advances(g, descr, n + 1) /\ Advanced(descr, n + 1) = g[n + 1]
    BY AdvancedUnfold, n + 1 \in Nat
  <1>3. PICK h : Advances(h, descr, 0) /\ Advanced(descr, 0) = h[0]
    BY AdvancedUnfold, 0 \in Nat
  <1>4. f[n] = g[n]
    <2>1. PICK m \in Nat : m = n + 1
      OBVIOUS
    <2>2. PICK same : same = descr
      OBVIOUS
    <2>3. Advances(f, same, n) /\ Advances(g, descr, m) /\ n <= n /\ n <= m
      BY <1>1, <1>2, <2>1, <2>2
    <2>4. \A k \in 1..n : same[k].len = descr[k].len
      BY <2>2
    <2> HIDE <2>2
    <2> QED
      BY <2>3, <2>4, AdvancesSame
  <1>5. g[n + 1] = g[n] + descr[n + 1].len
    BY <1>2, AdvancesAt, n + 1 \in Nat, n + 1 \in 1..(n + 1), (n + 1) - 1 = n
  <1>6. h[0] = 0
    BY <1>3, AdvancesAt, 0 \in Nat
  <1> QED
    BY <1>1, <1>2, <1>3, <1>4, <1>5, <1>6

\* Later packets start at later bytes, and end within what all descriptors cover.
LEMMA AdvancedMonotone ==
  ASSUME NEW descr, NEW n \in Nat, \A k \in 1..n : descr[k].len \in Nat
  PROVE  /\ \A k \in 0..n : Advanced(descr, k) \in Nat
         /\ \A k \in 0..n : Advanced(descr, k) <= Advanced(descr, n)
  <1> DEFINE T == {k \in Nat : k <= n => Advanced(descr, k) \in Nat}
  <1>1. 0 \in T
    BY AdvancedStep
  <1>2. ASSUME NEW k \in T, k + 1 <= n PROVE Advanced(descr, k + 1) \in Nat
    <2>1. Advanced(descr, k + 1) = Advanced(descr, k) + descr[k + 1].len
      BY AdvancedStep
    <2>2. descr[k + 1].len \in Nat /\ Advanced(descr, k) \in Nat
      BY <1>2
    <2> QED
      BY <2>1, <2>2
  <1>3. T = Nat
    <2>1. \A k \in T : k + 1 \in T
      BY <1>2
    <2> QED
      BY <1>1, <2>1, SetInduction
  <1>4. \A k \in 0..n : Advanced(descr, k) \in Nat
    BY <1>3
  <1> DEFINE D == {j \in Nat : j <= n => Advanced(descr, n - j) <= Advanced(descr, n)}
  <1> HIDE DEF T
  <1>5. 0 \in D
    BY <1>4
  <1>6. ASSUME NEW j \in D, j + 1 <= n PROVE Advanced(descr, n - (j + 1)) <= Advanced(descr, n)
    <2>1. PICK i \in 0..n : i = n - (j + 1) /\ i + 1 = n - j /\ i + 1 \in 1..n
      BY <1>6
    <2>2. Advanced(descr, i + 1) = Advanced(descr, i) + descr[i + 1].len
      BY AdvancedStep
    <2>3. Advanced(descr, i + 1) <= Advanced(descr, n)
      BY <1>6, <2>1
    <2>4. descr[i + 1].len \in Nat /\ Advanced(descr, i) \in Nat /\ Advanced(descr, n) \in Nat
      BY <1>4, <2>1
    <2> QED
      BY <2>1, <2>2, <2>3, <2>4
  <1>7. D = Nat
    <2>1. \A j \in D : j + 1 \in D
      BY <1>6
    <2> QED
      BY <1>5, <2>1, SetInduction
  <1>8. ASSUME NEW k \in 0..n PROVE Advanced(descr, k) <= Advanced(descr, n)
    <2>1. PICK j \in Nat : j = n - k /\ j <= n /\ n - j = k
      OBVIOUS
    <2>2. Advanced(descr, n - j) <= Advanced(descr, n)
      BY <1>7, <2>1
    <2> QED
      BY <2>1, <2>2
  <1> QED
    BY <1>4, <1>8


------------------------------------------------------------------------------
(* The other operators of the model.                                       *)

LEMMA MinOfTwo ==
  ASSUME NEW a \in Int, NEW b \in Int
  PROVE  Min({a, b}) = IF a <= b THEN a ELSE b
  <1>1. \E x \in {a, b} : \A y \in {a, b} : x <= y
    OBVIOUS
  <1>2. Min({a, b}) \in {a, b} /\ \A y \in {a, b} : Min({a, b}) <= y
    BY <1>1 DEF Min
  <1> QED
    BY <1>2

LEMMA MinOfThree ==
  ASSUME NEW a \in Int, NEW b \in Int, NEW c \in Int
  PROVE  /\ Min({a, b, c}) \in {a, b, c} /\ Min({a, b, c}) <= a
         /\ Min({a, b, c}) <= b /\ Min({a, b, c}) <= c
  <1>1. \E x \in {a, b, c} : \A y \in {a, b, c} : x <= y
    OBVIOUS
  <1>2. Min({a, b, c}) \in {a, b, c} /\ \A y \in {a, b, c} : Min({a, b, c}) <= y
    BY <1>1 DEF Min
  <1> QED
    BY <1>2

\* The subtraction of the filter wraps ports below the range to beyond its end.
LEMMA FilterIsRange ==
  ASSUME NEW port \in Port PROVE filter_udp_port(port) <=> port \in 10..50
  BY DEF filter_udp_port, Port

\* htons() is its own inverse and keeps 0, and only 0, at 0.
LEMMA SwapTwice ==
  ASSUME NEW x \in Octet \X Octet
  PROVE  htons(htons(x)) = x /\ (htons(x) = Zero => x = Zero)
  BY DEF htons, Zero

LEMMA BytesParts ==
  ASSUME NEW n \in Nat, NEW len \in Nat
  PROVE  /\ Bytes(n, len) \in Seq(Bytewise) /\ Len(Bytes(n, len)) = len
         /\ \A k \in 1..len : Bytes(n, len)[k] = <<n, k - 1>>
  BY DEF Bytes, Bytewise

\* A sequence that is a packet's bytes one by one.
LEMMA BytesEqual ==
  ASSUME NEW n \in Nat, NEW len \in Nat, NEW s \in Seq(Bytewise), Len(s) = len,
         \A k \in 1..len : s[k] = <<n, k - 1>>
  PROVE  s = Bytes(n, len)
  <1>1. PICK b \in Seq(Bytewise) : /\ b = Bytes(n, len) /\ Len(b) = len
                                   /\ \A k \in 1..len : b[k] = <<n, k - 1>>
    BY BytesParts
  <1>2. s = b
    BY <1>1, SeqEqual
  <1> QED
    BY <1>1, <1>2

LEMMA ConcatParts ==
  ASSUME NEW S, NEW s \in Seq(S), NEW t \in Seq(S), NEW u, u = s \o t
  PROVE  /\ u \in Seq(S) /\ Len(u) = Len(s) + Len(t)
         /\ \A k \in 1..Len(s) : u[k] = s[k]
         /\ \A k \in 1..Len(t) : u[Len(s) + k] = t[k]
  OBVIOUS

LEMMA AppendParts ==
  ASSUME NEW S, NEW s \in Seq(S), NEW e \in S, NEW u, u = Append(s, e)
  PROVE  /\ u \in Seq(S) /\ Len(u) = Len(s) + 1 /\ u[Len(s) + 1] = e
         /\ \A k \in 1..Len(s) : u[k] = s[k]
  OBVIOUS

LEMMA SliceParts ==
  ASSUME NEW S, NEW s \in Seq(S), NEW first \in Nat, NEW len \in Nat,
         first + len <= Len(s), NEW t, t = SubSeq(s, first + 1, first + len)
  PROVE  t \in Seq(S) /\ Len(t) = len /\ \A k \in 1..len : t[k] = s[first + k]
  OBVIOUS

LEMMA PacketFacts ==
  ASSUME NEW p \in Packets
  PROVE  /\ p.len \in Nat /\ p.len >= 1 /\ p.addr.dst.port \in Port
         /\ p.id \in Octet \X Octet
         /\ [len |-> p.len, dst_addr |-> p.addr.dst] \in Descrs
  <1>1. PICK len \in Nat \ {0} : len = p.len
    BY DriverAssumption
  <1>2. [len |-> len, dst_addr |-> p.addr.dst] \in Descrs
    BY DEF Descrs
  <1>3. p.addr.dst.port \in Port /\ p.id \in Octet \X Octet
    BY DriverAssumption
  <1>4. p.len \in Nat /\ p.len >= 1
    BY <1>1
  <1> QED
    BY <1>1, <1>2, <1>3, <1>4

LEMMA DescrFacts ==
  ASSUME NEW d \in Seq(Descrs)
  PROVE  /\ Len(d) \in Nat
         /\ \A k \in 1..Len(d) : d[k].len \in Nat /\ d[k].len >= 1
  <1>1. \A e \in Descrs : e.len \in Nat \ {0}
    BY DEF Descrs
  <1>2. \A k \in 1..Len(d) : d[k] \in Descrs
    BY ElementOfSeq
  <1>3. \A k \in 1..Len(d) : d[k].len \in Nat \ {0}
    BY <1>1, <1>2
  <1> QED
    BY <1>3

------------------------------------------------------------------------------
(* One lemma for each kind of step.                                        *)

\* Steps that touch neither packets nor the network: the set-up of the socket,
\* the buffers, the table of connections, the start of send() and its failure.
LEMMA QuietStep ==
  ASSUME DriverInv, UNCHANGED <<msg_descr, packet_buffers, messages, wire, pushed,
                                cleared, calls>>,
         sock' = sock \/ (sock = "closed" /\ sock' \in {"bare", "filtered", "ready"}),
         sent' = sent \/ sent' = 0 \/ sent' = -1, sock' # sock => sent' = sent,
         buffers' \in Nat
  PROVE  DriverInv'
  <1> USE DEF DriverInv
  <1>1. DriverTypes'
    <2>1. Len(msg_descr) \in Nat
      BY DEF DriverTypes
    <2> QED
      BY <2>1 DEF DriverTypes
  <1>2. Whole' /\ Covered' /\ (~cleared => Aligned)' /\ OnWire'
    BY DEF Whole, Covered, Aligned, OnWire
  <1>3. FirstSendIntact' /\ CalledWithPushed'
    BY DEF FirstSendIntact, CalledWithPushed
  <1>4. Received' /\ PortsFiltered'
    <2>1. CASE sock' = sock
      <3>1. sock' = "closed" => sent' <= 0
        <4>1. sock = "closed" => sent <= 0
          BY DEF Received, Passed
        <4> QED
          BY <2>1, <4>1
      <3> QED
        BY <2>1, <3>1 DEF Received, Passed, PortsFiltered
    <2>2. CASE sock = "closed" /\ sock' # "closed"
      <3>1. messages' = <<>> /\ calls' = {} /\ messages' \in Seq(wire')
        BY <2>2 DEF Received, Passed
      <3> QED
        BY <2>2, <3>1 DEF Received, Passed, PortsFiltered
    <2> QED
      BY <2>1, <2>2
  <1>5. Progress'
    <2>1. CASE sent' = sent /\ sock' = sock
      BY <2>1 DEF Progress, Slice, Offset
    <2>2. CASE sent' <= 0 /\ sent' \in Int
      <3>1. 1..sent' = {}
        BY <2>2
      <3> QED
        BY <3>1 DEF Progress
    <2>3. sock = "closed" => sent <= 0 /\ sent \in Int
      <3>1. sent \in Int
        BY DEF DriverTypes
      <3>2. sock = "closed" => sent <= 0
        BY DEF Received, Passed
      <3> QED
        BY <3>1, <3>2
    <2> QED
      BY <2>1, <2>2, <2>3
  <1> QED
    BY <1>1, <1>2, <1>3, <1>4, <1>5

\* What is known of packets stays known when another is pushed.
LEMMA PushedGrows ==
  ASSUME DriverTypes, NEW p \in Packets, pushed' = Append(pushed, p)
  PROVE  /\ pushed' \in Seq(Packets) /\ Len(pushed') = Len(pushed) + 1
         /\ Len(pushed) \in Nat /\ pushed'[Len(pushed) + 1] = p
         /\ \A n \in 1..Len(pushed) : pushed'[n] = pushed[n] /\ n \in 1..Len(pushed')
  <1>1. pushed \in Seq(Packets) /\ Len(pushed) \in Nat
    BY DEF DriverTypes
  <1>2. /\ pushed' \in Seq(Packets) /\ Len(pushed') = Len(pushed) + 1
        /\ pushed'[Len(pushed) + 1] = p
        /\ \A n \in 1..Len(pushed) : pushed'[n] = pushed[n]
    BY <1>1, AppendParts
  <1> QED
    BY <1>1, <1>2

\* A push does not touch what the network and the connections have seen.
LEMMA HistoryStep ==
  ASSUME DriverInv, NEW p \in Packets, UNCHANGED <<sock, messages, wire, calls, cleared>>,
         pushed' = Append(pushed, p), sent = -1, sent' = sent
  PROVE  /\ OnWire' /\ Received' /\ FirstSendIntact' /\ CalledWithPushed' /\ PortsFiltered'
  <1> USE DEF DriverInv
  <1>1. \A n \in 1..Len(pushed) : pushed'[n] = pushed[n] /\ n \in 1..Len(pushed')
    BY PushedGrows
  <1>2. OnWire'
    BY <1>1 DEF OnWire, Fits
  <1>3. FirstSendIntact'
    BY <1>1 DEF FirstSendIntact
  <1>4. CalledWithPushed'
    BY <1>1 DEF CalledWithPushed
  <1>5. PortsFiltered'
    BY DEF PortsFiltered
  <1>6. Received'
    <2>1. \A j \in 1..Len(messages) : messages[j].bytes[1][1] \in 1..Len(pushed)
      <3>1. messages \in Seq(wire)
        BY DEF Received, Passed
      <3>2. \A j \in 1..Len(messages) : messages[j] \in wire
        BY <3>1, ElementOfSeq, Zenon
      <3> QED
        BY <3>2 DEF OnWire, Fits
    <2> QED
      BY <1>1, <2>1 DEF Received, Passed
  <1> QED
    BY <1>2, <1>3, <1>4, <1>5, <1>6

LEMMA PushStep ==
  ASSUME DriverInv, NEW p \in Packets, send_packet(p)
  PROVE  DriverInv'
  <1> USE DEF DriverInv
  <1>1. /\ sent = -1 /\ UNCHANGED <<sock, sent, buffers, messages, wire, calls, cleared>>
        /\ pushed' = Append(pushed, p)
        /\ packet_buffers' = packet_buffers \o Bytes(Len(pushed) + 1, p.len)
        /\ msg_descr' = Append(msg_descr, [len |-> p.len, dst_addr |-> p.addr.dst])
    BY DEF send_packet, Sending
  <1>2. /\ OnWire' /\ Received' /\ FirstSendIntact' /\ CalledWithPushed' /\ PortsFiltered'
    BY <1>1, HistoryStep
  <1>3. /\ pushed' \in Seq(Packets) /\ Len(pushed') = Len(pushed) + 1
        /\ Len(pushed) \in Nat /\ pushed'[Len(pushed) + 1] = p
        /\ \A n \in 1..Len(pushed) : pushed'[n] = pushed[n] /\ n \in 1..Len(pushed')
    BY <1>1, PushedGrows
  <1>4. PICK len \in Nat \ {0}, n \in Nat \ {0} : len = p.len /\ n = Len(pushed) + 1
    <2>1. p.len \in Nat /\ p.len >= 1
      BY PacketFacts
    <2> QED
      BY <1>3, <2>1
  <1>5. PICK e \in Descrs : e = [len |-> p.len, dst_addr |-> p.addr.dst] /\ e.len = len
    BY <1>4, PacketFacts
  <1>6. PICK b \in Seq(Bytewise) : /\ b = Bytes(n, len) /\ Len(b) = len
                                   /\ \A k \in 1..len : b[k] = <<n, k - 1>>
    BY BytesParts
  <1>7. packet_buffers \in Seq(Bytewise) /\ packet_buffers' = packet_buffers \o b
    BY <1>1, <1>4, <1>6 DEF DriverTypes
  <1>8. PICK old \in Nat : old = Len(packet_buffers)
    BY <1>7
  <1>9. /\ packet_buffers' \in Seq(Bytewise) /\ Len(packet_buffers') = old + len
        /\ \A k \in 1..old : packet_buffers'[k] = packet_buffers[k]
        /\ \A k \in 1..len : packet_buffers'[old + k] = b[k]
    <2>0. PICK u : u = packet_buffers'
      OBVIOUS
    <2>1. PICK s \in Seq(Bytewise) : s = packet_buffers /\ u = packet_buffers' /\ u = s \o b
      BY <1>7, <2>0
    <2>2. /\ u \in Seq(Bytewise) /\ Len(u) = Len(s) + Len(b)
          /\ \A k \in 1..Len(s) : u[k] = s[k]
          /\ \A k \in 1..Len(b) : u[Len(s) + k] = b[k]
      BY <2>1, ConcatParts
    <2> QED
      BY <1>6, <1>8, <2>1, <2>2
  <1>10. \A k \in 1..len : packet_buffers'[old + k] = <<n, k - 1>>
    BY <1>6, <1>9
  <1>11. msg_descr \in Seq(Descrs) /\ msg_descr' = Append(msg_descr, e)
    BY <1>1, <1>5 DEF DriverTypes
  <1>12. PICK m \in Nat : m = Len(msg_descr)
    BY <1>11
  <1>13. /\ msg_descr' \in Seq(Descrs) /\ Len(msg_descr') = m + 1 /\ msg_descr'[m + 1] = e
         /\ \A k \in 1..m : msg_descr'[k] = msg_descr[k]
    BY <1>11, <1>12, AppendParts
  <1>14. \A k \in 0..m : Advanced(msg_descr', k) = Advanced(msg_descr, k)
    <2>1. SUFFICES ASSUME NEW k \in 0..m
                   PROVE  Advanced(msg_descr', k) = Advanced(msg_descr, k)
      OBVIOUS
    <2>2. \A i \in 1..k : msg_descr'[i].len = msg_descr[i].len
      BY <1>13
    <2> QED
      BY <2>2, AdvancedSame
  <1>15. Advanced(msg_descr', m + 1) = Advanced(msg_descr, m) + len
    <2>1. Advanced(msg_descr', m + 1) = Advanced(msg_descr', m) + msg_descr'[m + 1].len
      BY AdvancedStep
    <2>2. m \in 0..m
      OBVIOUS
    <2> QED
      BY <2>1, <2>2, <1>13, <1>14, <1>5
  <1>16. \A k \in 0..m : Advanced(msg_descr, k) \in Nat
    <2>1. \A k \in 1..m : msg_descr[k].len \in Nat
      BY <1>11, <1>12, DescrFacts
    <2> QED
      BY <2>1, AdvancedMonotone
  <1>17. DriverTypes'
    BY <1>1, <1>3, <1>9, <1>13 DEF DriverTypes
  <1>18. Whole'
    <2>1. SUFFICES ASSUME NEW j \in 1..(old + len),
                          NEW h, NEW i, h = packet_buffers'[j][1], i = packet_buffers'[j][2]
                   PROVE  /\ h \in 1..Len(pushed') /\ i \in 0..(pushed'[h].len - 1)
                          /\ \A k \in 0..(pushed'[h].len - 1 - i) :
                               /\ j + k <= old + len
                               /\ packet_buffers'[j + k] = <<h, i + k>>
      BY <1>9, SMTT(20) DEF Whole
    <2>2. CASE j \in 1..old
      <3>1. h = packet_buffers[j][1] /\ i = packet_buffers[j][2]
        BY <1>9, <2>1, <2>2
      <3>2. /\ h \in 1..Len(pushed) /\ i \in 0..(pushed[h].len - 1)
            /\ \A k \in 0..(pushed[h].len - 1 - i) :
                 j + k <= old /\ packet_buffers[j + k] = <<h, i + k>>
        BY <1>8, <2>2, <3>1 DEF Whole
      <3>3. pushed'[h] = pushed[h] /\ h \in 1..Len(pushed')
        BY <1>3, <3>2
      <3>4. PICK s \in Nat : s = pushed[h].len
        <4>1. pushed[h] \in Packets
          BY <3>2 DEF DriverTypes
        <4> QED
          BY <4>1, PacketFacts
      <3>5. ASSUME NEW k \in 0..(s - 1 - i)
            PROVE  j + k <= old + len /\ packet_buffers'[j + k] = <<h, i + k>>
        <4>1. i \in Nat /\ k \in Nat /\ j + k <= old /\ packet_buffers[j + k] = <<h, i + k>>
          BY <3>2, <3>4
        <4>2. j + k \in 1..old
          BY <4>1
        <4> QED
          BY <4>1, <4>2, <1>9
      <3> QED
        BY <3>2, <3>3, <3>4, <3>5
    <2>3. CASE j \notin 1..old
      <3>1. PICK c \in 1..len : j = old + c
        BY <2>3
      <3>2. h = n /\ i = c - 1
        BY <1>10, <2>1, <3>1
      <3>3. pushed'[h].len = len /\ h \in 1..Len(pushed')
        BY <1>3, <1>4, <3>2
      <3>4. ASSUME NEW k \in 0..(len - 1 - i)
            PROVE  j + k <= old + len /\ packet_buffers'[j + k] = <<h, i + k>>
        <4>1. PICK x \in 1..len : x = c + k /\ j + k = old + x /\ i + k = x - 1
          BY <3>1, <3>2
        <4>2. packet_buffers'[old + x] = <<n, x - 1>>
          BY <1>10
        <4>3. j + k <= old + len
          BY <4>1
        <4> QED
          BY <4>1, <4>2, <4>3, <3>2
      <3> QED
        BY <3>2, <3>3, <3>4
    <2> QED
      BY <2>2, <2>3
  <1>19. Covered'
    <2>1. PICK x \in Nat : x = Advanced(msg_descr, m) /\ Advanced(msg_descr', m + 1) = x + len
      BY <1>15, <1>16
    <2>2. x <= old
      BY <1>8, <1>12, <2>1 DEF Covered
    <2>3. Len(msg_descr') = m + 1 /\ Len(packet_buffers') = old + len
      BY <1>9, <1>13
    <2>4. x + len <= old + len
      BY <2>2
    <2> QED
      BY <2>1, <2>3, <2>4 DEF Covered
  <1>20. (~cleared => Aligned)'
    <2>1. SUFFICES ASSUME Aligned PROVE Aligned'
      BY <1>1
    <2>2. m + 1 = n /\ m = Len(pushed) /\ Advanced(msg_descr, m) = old
      BY <1>4, <1>8, <1>12, <2>1 DEF Aligned
    <2>3. Len(msg_descr') = Len(pushed')
      BY <1>3, <1>13, <2>2
    <2>4. Advanced(msg_descr', Len(msg_descr')) = Len(packet_buffers')
      BY <1>9, <1>13, <1>15, <2>2
    <2>5. ASSUME NEW i \in 1..Len(pushed')
          PROVE  /\ msg_descr'[i] = [len |-> pushed'[i].len, dst_addr |-> pushed'[i].addr.dst]
                 /\ \A k \in 1..pushed'[i].len :
                      packet_buffers'[Advanced(msg_descr', i - 1) + k] = <<i, k - 1>>
      <3>1. CASE i = n
        <4>1. pushed'[i] = p /\ msg_descr'[i] = e
          BY <1>3, <1>4, <1>13, <2>2, <3>1
        <4>2. i - 1 = m /\ m \in 0..m
          BY <2>2, <3>1
        <4>3. Advanced(msg_descr', i - 1) = old
          BY <4>2, <2>2, <1>14
        <4> QED
          BY <4>1, <4>3, <1>5, <1>4, <1>10, <3>1
      <3>2. CASE i \in 1..m
        <4>1. pushed'[i] = pushed[i] /\ msg_descr'[i] = msg_descr[i]
          BY <1>3, <1>13, <2>2, <3>2
        <4>2. PICK a \in Nat, s \in Nat : /\ a = Advanced(msg_descr, i - 1) /\ s = pushed[i].len
                                          /\ a = Advanced(msg_descr', i - 1)
          <5>1. i - 1 \in 0..m
            BY <3>2
          <5>2. pushed[i] \in Packets
            BY <2>2, <3>2 DEF DriverTypes
          <5> QED
            BY <5>1, <5>2, <1>14, <1>16, PacketFacts
        <4>3. /\ msg_descr[i] = [len |-> pushed[i].len, dst_addr |-> pushed[i].addr.dst]
              /\ \A k \in 1..s : packet_buffers[a + k] = <<i, k - 1>>
          BY <2>1, <2>2, <3>2, <4>2 DEF Aligned
        <4>4. a + s <= old
          <5>1. PICK c \in 0..m : c = i - 1 /\ c + 1 = i
            BY <3>2
          <5>2. Advanced(msg_descr, c + 1) = Advanced(msg_descr, c) + msg_descr[c + 1].len
            BY AdvancedStep, c \in Nat
          <5>3. msg_descr[i].len = s
            BY <4>2, <4>3
          <5>4. Advanced(msg_descr, i) = a + s
            BY <4>2, <5>1, <5>2, <5>3
          <5>5. \A k \in 1..m : msg_descr[k].len \in Nat
            BY <1>11, <1>12, DescrFacts
          <5>6. Advanced(msg_descr, i) <= Advanced(msg_descr, m)
            BY <5>5, <3>2, AdvancedMonotone, i \in 0..m
          <5> QED
            BY <5>4, <5>6, <2>2
        <4>5. \A k \in 1..s : packet_buffers'[a + k] = <<i, k - 1>>
          <5>1. SUFFICES ASSUME NEW k \in 1..s PROVE packet_buffers'[a + k] = <<i, k - 1>>
            OBVIOUS
          <5>2. a + k \in 1..old
            BY <4>4
          <5>3. packet_buffers[a + k] = <<i, k - 1>>
            BY <4>3
          <5> QED
            BY <5>2, <5>3, <1>9
        <4> QED
          BY <4>1, <4>2, <4>3, <4>5
      <3> QED
        BY <1>3, <2>2, <3>1, <3>2
    <2> QED
      BY <2>3, <2>4, <2>5 DEF Aligned
  <1>21. Progress'
    BY <1>1 DEF Progress
  <1> QED
    BY <1>2, <1>17, <1>18, <1>19, <1>20, <1>21

\* What send() hands over for descriptor i lies within the bytes of the queue.
LEMMA SliceFacts ==
  ASSUME DriverTypes, Covered, NEW i \in 1..Len(msg_descr),
         NEW t, t = Slice(Offset(i), msg_descr[i].len)
  PROVE  /\ Offset(i) \in Nat /\ msg_descr[i].len \in Nat /\ msg_descr[i].len >= 1
         /\ Offset(i) + msg_descr[i].len <= Len(packet_buffers)
         /\ t \in Seq(Bytewise) /\ Len(t) = msg_descr[i].len
         /\ \A k \in 1..msg_descr[i].len : t[k] = packet_buffers[Offset(i) + k]
  <1>1. /\ packet_buffers \in Seq(Bytewise) /\ Len(packet_buffers) \in Nat
        /\ msg_descr \in Seq(Descrs)
    BY DEF DriverTypes
  <1>2. PICK m \in Nat : m = Len(msg_descr) /\ \A k \in 1..m : msg_descr[k].len \in Nat
    BY <1>1, DescrFacts
  <1>3. PICK len \in Nat : len = msg_descr[i].len /\ len >= 1
    BY <1>1, DescrFacts
  <1>4. PICK c \in Nat : c = i - 1 /\ c + 1 = i /\ c \in 0..m /\ i \in 0..m
    BY <1>2
  <1>5. PICK a \in Nat : a = Offset(i) /\ a = Advanced(msg_descr, c)
    BY <1>2, <1>4, AdvancedMonotone DEF Offset
  <1>6. Advanced(msg_descr, c + 1) = a + len
    BY <1>3, <1>4, <1>5, AdvancedStep
  <1>7. Advanced(msg_descr, i) <= Advanced(msg_descr, m) /\ Advanced(msg_descr, m) \in Nat
    BY <1>2, <1>4, AdvancedMonotone
  <1>8. a + len <= Len(packet_buffers)
    BY <1>1, <1>2, <1>4, <1>6, <1>7 DEF Covered
  <1>9. t = SubSeq(packet_buffers, a + 1, a + len)
    BY <1>3, <1>5 DEF Slice
  <1>10. t \in Seq(Bytewise) /\ Len(t) = len /\ \A k \in 1..len : t[k] = packet_buffers[a + k]
    BY <1>1, <1>8, <1>9, SliceParts
  <1> QED
    BY <1>3, <1>5, <1>8, <1>10

\* A datagram of send() is stale or misaligned at worst: it starts within some
\* pushed packet and goes on with it.  Before the first clear() it is that packet.
LEMMA DatagramFacts ==
  ASSUME DriverInv, NEW i \in 1..Len(msg_descr), NEW id, NEW d,
         d = on_wire(Slice(Offset(i), msg_descr[i].len), msg_descr[i].dst_addr, id)
  PROVE  Fits(d, pushed) /\ (~cleared => IsPacket(d, pushed))
  <1> USE DEF DriverInv
  <1>1. PICK t : t = Slice(Offset(i), msg_descr[i].len)
    OBVIOUS
  <1>2. PICK a \in Nat, len \in Nat :
          /\ a = Offset(i) /\ len = msg_descr[i].len /\ len >= 1
          /\ a + len <= Len(packet_buffers) /\ t \in Seq(Bytewise) /\ Len(t) = len
          /\ \A k \in 1..len : t[k] = packet_buffers[a + k]
    <2>1. /\ Offset(i) \in Nat /\ msg_descr[i].len \in Nat /\ msg_descr[i].len >= 1
          /\ Offset(i) + msg_descr[i].len <= Len(packet_buffers)
          /\ t \in Seq(Bytewise) /\ Len(t) = msg_descr[i].len
          /\ \A k \in 1..msg_descr[i].len : t[k] = packet_buffers[Offset(i) + k]
      BY <1>1, SliceFacts
    <2> QED
      BY <2>1
  <1>3. /\ d.bytes = t /\ d.dst_addr = msg_descr[i].dst_addr
        /\ d.id = IF htons(pushed[t[1][1]].id) = Zero THEN id ELSE htons(pushed[t[1][1]].id)
    BY <1>1 DEF on_wire
  <1>4. PICK j \in 1..Len(packet_buffers) : j = a + 1 /\ t[1] = packet_buffers[j]
    <2>1. Len(packet_buffers) \in Nat
      BY DEF DriverTypes
    <2>2. a + 1 \in 1..Len(packet_buffers) /\ 1 \in 1..len
      BY <1>2, <2>1
    <2> QED
      BY <1>2, <2>2
  <1>5. PICK n, o : n = t[1][1] /\ o = t[1][2]
    OBVIOUS
  <1>6. /\ n \in 1..Len(pushed) /\ o \in 0..(pushed[n].len - 1)
        /\ \A k \in 0..(pushed[n].len - 1 - o) :
             j + k <= Len(packet_buffers) /\ packet_buffers[j + k] = <<n, o + k>>
    BY <1>4, <1>5 DEF Whole
  <1>7. PICK s \in Nat : s = pushed[n].len /\ pushed[n].id \in Octet \X Octet
    <2>1. pushed[n] \in Packets
      BY <1>6 DEF DriverTypes
    <2> QED
      BY <2>1, PacketFacts
  <1>8. pushed[n].id \in {htons(d.id), Zero}
    <2>1. PICK x \in Octet \X Octet : x = pushed[n].id
      BY <1>7
    <2>2. htons(htons(x)) = x /\ (htons(x) = Zero => x = Zero)
      BY SwapTwice
    <2>3. d.id = IF htons(x) = Zero THEN id ELSE htons(x)
      BY <1>3, <1>5, <2>1
    <2> QED
      BY <2>1, <2>2, <2>3
  <1>9. ASSUME o = 0, NEW k \in 1..s, k <= len PROVE t[k] = <<n, k - 1>>
    <2>1. PICK c \in Nat : c = k - 1 /\ a + k = j + c /\ o + c = k - 1 /\ c \in 0..(s - 1 - o)
      BY <1>4, <1>9
    <2>2. packet_buffers[j + c] = <<n, o + c>>
      BY <1>6, <1>7, <2>1
    <2>3. t[k] = packet_buffers[a + k]
      BY <1>2, <1>9
    <2> QED
      BY <2>1, <2>2, <2>3
  <1>10. ~cleared => /\ t = Bytes(i, pushed[i].len) /\ i \in 1..Len(pushed)
                     /\ msg_descr[i].dst_addr = pushed[i].addr.dst
    <2>1. SUFFICES ASSUME Aligned
                   PROVE  /\ t = Bytes(i, pushed[i].len) /\ i \in 1..Len(pushed)
                          /\ msg_descr[i].dst_addr = pushed[i].addr.dst
      OBVIOUS
    <2>2. i \in 1..Len(pushed)
      BY <2>1 DEF Aligned
    <2>3. /\ msg_descr[i] = [len |-> pushed[i].len, dst_addr |-> pushed[i].addr.dst]
          /\ \A k \in 1..pushed[i].len :
               packet_buffers[Advanced(msg_descr, i - 1) + k] = <<i, k - 1>>
      BY <2>1, <2>2 DEF Aligned
    <2>4. msg_descr[i].len = pushed[i].len /\ msg_descr[i].dst_addr = pushed[i].addr.dst
      BY <2>3
    <2>5. \A k \in 1..len : t[k] = <<i, k - 1>>
      BY <1>2, <2>3, <2>4 DEF Offset
    <2>6. i \in Nat
      BY DEF DriverTypes
    <2>7. t = Bytes(i, len)
      BY <1>2, <2>5, <2>6, BytesEqual
    <2> QED
      BY <1>2, <2>2, <2>4, <2>7
  <1> QED
    <2>1. Fits(d, pushed)
      BY <1>2, <1>3, <1>5, <1>6, <1>7, <1>8, <1>9 DEF Fits
    <2>2. ~cleared => IsPacket(d, pushed)
      BY <1>3, <1>10 DEF IsPacket
    <2> QED
      BY <1>2, <1>3, <2>1, <2>2

LEMMA SendStep ==
  ASSUME DriverInv, NEW l, NEW id, sendmmsg(l, id)
  PROVE  DriverInv'
  <1> DEFINE new(i) == on_wire(Slice(Offset(i), msg_descr[i].len), msg_descr[i].dst_addr, id)
  <1>0. \A i \in 1..Len(msg_descr) : Fits(new(i), pushed) /\ (~cleared => IsPacket(new(i), pushed))
    BY DatagramFacts
  <1> USE DEF DriverInv
  <1>1. /\ sock # "closed" /\ sent # -1
        /\ l \in (IF msg_descr = <<>> THEN {0} ELSE 1..Len(msg_descr) - sent)
        /\ wire' = IF sock # "ready" THEN wire
                   ELSE wire \cup {new(i) : i \in sent + 1..sent + l}
        /\ UNCHANGED <<sock, buffers, messages, pushed, calls, packet_buffers>>
    BY Zenon DEF sendmmsg, Sending, clear
  <1>2. \/ /\ sent + l < Len(msg_descr) /\ sent' = sent + l
           /\ UNCHANGED <<msg_descr, cleared>>
        \/ sent' = -1 /\ msg_descr' = <<>> /\ cleared' = TRUE
    BY Zenon DEF sendmmsg, clear
  <1>3. PICK m \in Nat : m = Len(msg_descr)
    BY DEF DriverTypes
  <1>4. sent \in 0..m /\ l \in 0..m /\ sent + l \in 0..m
    <2>1. sent \in 0..m
      BY <1>1, <1>3 DEF DriverTypes
    <2>2. CASE msg_descr = <<>>
      BY <1>1, <2>1, <2>2
    <2>3. CASE msg_descr # <<>>
      BY <1>1, <1>3, <2>1, <2>3
    <2> QED
      BY <2>2, <2>3
  <1>5. wire \subseteq wire'
    BY <1>1
  <1>6. \A d \in wire' : d \in wire \/ \E i \in 1..m : d = new(i)
    BY <1>1, <1>4
  <1>7. sock = "ready" => \A i \in (sent + 1)..(sent + l) : new(i) \in wire'
    BY <1>1
  <1>8. \A i \in 1..m : /\ new(i).bytes = Slice(Offset(i), msg_descr[i].len)
                        /\ new(i).dst_addr = msg_descr[i].dst_addr
    BY DEF on_wire
  <1> HIDE DEF new
  <1>9. DriverTypes'
    <2>1. CASE sent' = -1 /\ msg_descr' = <<>> /\ cleared' = TRUE
      <3>1. msg_descr' \in Seq(Descrs)
        BY <2>1
      <3> QED
        BY <1>1, <2>1, <3>1 DEF DriverTypes
    <2>2. CASE sent' = sent + l /\ UNCHANGED <<msg_descr, cleared>>
      BY <1>1, <1>3, <1>4, <2>2 DEF DriverTypes
    <2> QED
      BY <1>2, <2>1, <2>2
  <1>10. Whole'
    BY <1>1 DEF Whole
  <1>11. Covered'
    <2>1. CASE msg_descr' = <<>>
      <3>1. Len(msg_descr') = 0 /\ Len(packet_buffers) \in Nat
        BY <2>1 DEF DriverTypes
      <3>2. Advanced(msg_descr', 0) = 0
        BY AdvancedStep, 0 \in Nat
      <3> QED
        BY <1>1, <3>1, <3>2 DEF Covered
    <2>2. CASE msg_descr' = msg_descr
      BY <1>1, <2>2 DEF Covered
    <2> QED
      BY <1>2, <2>1, <2>2
  <1>12. (~cleared => Aligned)'
    BY <1>1, <1>2 DEF Aligned
  <1>13. OnWire'
    <2>1. \A d \in wire : Fits(d, pushed)
      BY Zenon DEF OnWire
    <2>2. \A i \in 1..m : Fits(new(i), pushed)
      BY <1>0, <1>3
    <2>3. \A d \in wire' : Fits(d, pushed)
      BY <1>6, <2>1, <2>2
    <2> QED
      BY <2>3, <1>1 DEF OnWire
  <1>14. FirstSendIntact'
    <2>1. SUFFICES ASSUME ~cleared PROVE \A d \in wire' : IsPacket(d, pushed)
      BY <1>1, <1>2 DEF FirstSendIntact, IsPacket
    <2>2. \A d \in wire : IsPacket(d, pushed)
      BY <2>1, Zenon DEF IsPacket, FirstSendIntact
    <2>3. \A i \in 1..m : IsPacket(new(i), pushed)
      BY <1>0, <1>3, <2>1
    <2> QED
      BY <1>6, <2>2, <2>3
  <1>15. Received'
    <2>1. messages \in Seq(wire)
      BY DEF Received, Passed
    <2>2. messages \in Seq(wire')
      BY <1>5, <2>1
    <2> QED
      BY <1>1, <2>2 DEF Received, Passed
  <1>16. CalledWithPushed' /\ PortsFiltered'
    BY <1>1 DEF CalledWithPushed, PortsFiltered
  <1>17. Progress'
    <2>1. CASE sent' = -1
      BY <2>1 DEF Progress
    <2>2. CASE sent' = sent + l /\ msg_descr' = msg_descr
      <3>1. SUFFICES ASSUME sock = "ready", NEW i \in 1..(sent + l)
                     PROVE  \E d \in wire' : /\ d.bytes = Slice(Offset(i), msg_descr[i].len)
                                             /\ d.dst_addr = msg_descr[i].dst_addr
        BY <1>1, <2>2 DEF Progress, Slice, Offset
      <3>2. CASE i \in 1..sent
        BY <1>5, <3>1, <3>2 DEF Progress
      <3>3. CASE i \in (sent + 1)..(sent + l)
        BY <1>4, <1>7, <1>8, <3>1, <3>3
      <3> QED
        BY <1>4, <3>2, <3>3
    <2> QED
      BY <1>2, <2>1, <2>2
  <1> QED
    BY <1>9, <1>10, <1>11, <1>12, <1>13, <1>14, <1>15, <1>16, <1>17

LEMMA RecvStep ==
  ASSUME DriverInv, NEW k \in 1..buffers, NEW batch \in [1..k -> Receivable], recvmmsg(batch)
  PROVE  DriverInv'
  <1> USE DEF DriverInv
  <1>1. /\ UNCHANGED <<sock, buffers, msg_descr, packet_buffers, sent, wire, pushed, cleared, calls>>
        /\ messages' = batch /\ sock # "closed"
    BY DEF recvmmsg
  <1>2. k \in Nat
    BY DEF DriverTypes
  <1>3. Receivable \subseteq wire
    BY DEF Receivable
  <1>4. batch \in Seq(wire) /\ Len(batch) = k
    BY <1>2, <1>3
  <1>5. \A j \in 1..k : /\ batch[j] \in wire /\ batch[j].bytes[1][2] = 0
                        /\ \/ sock = "bare"
                           \/ filter_udp_port(pushed[batch[j].bytes[1][1]].addr.dst.port)
    BY DEF Receivable
  <1>6. Received'
    <2>1. ASSUME NEW j \in 1..k, sock # "bare"
          PROVE  pushed[batch[j].bytes[1][1]].addr.dst.port \in 10..50
      <3>1. PICK n \in 1..Len(pushed) : n = batch[j].bytes[1][1]
        BY <1>5 DEF OnWire, Fits
      <3>2. pushed[n] \in Packets
        BY DEF DriverTypes
      <3>3. PICK port \in Port : port = pushed[n].addr.dst.port
        BY <3>2, PacketFacts
      <3>4. filter_udp_port(port)
        BY <1>5, <2>1, <3>1, <3>3
      <3> QED
        BY <3>1, <3>3, <3>4, FilterIsRange
    <2> QED
      BY <1>1, <1>4, <1>5, <2>1 DEF Received, Passed
  <1>7. DriverTypes' /\ Whole' /\ Covered' /\ (~cleared => Aligned)' /\ OnWire'
    BY <1>1 DEF DriverTypes, Whole, Covered, Aligned, OnWire
  <1>8. FirstSendIntact' /\ CalledWithPushed' /\ PortsFiltered'
    BY <1>1 DEF FirstSendIntact, CalledWithPushed, PortsFiltered
  <1>9. Progress'
    BY <1>1 DEF Progress, Slice, Offset
  <1> QED
    BY <1>6, <1>7, <1>8, <1>9

LEMMA DispatchStep ==
  ASSUME DriverInv, dispatch
  PROVE  DriverInv'
  <1> USE DEF DriverInv
  <1> DEFINE d == Head(messages)
             p == pushed[d.bytes[1][1]]
             c == [conn |-> conn_map[Mirror(p.addr)], addr |-> Mirror(p.addr),
                   control |-> p.control, id |-> htons(d.id),
                   bytes |-> SubSeq(d.bytes, 1, Min({Len(d.bytes), MTU, p.len}))]
  <1>1. /\ UNCHANGED <<sock, buffers, msg_descr, packet_buffers, sent, wire, pushed, cleared>>
        /\ messages # <<>> /\ messages' = Tail(messages)
    BY DEF dispatch
  <1>2. calls' = calls \/ (WellFormed(d) /\ calls' = calls \cup {c})
    BY Zenon DEF dispatch
  <1>3. messages \in Seq(wire)
    BY DEF Received, Passed
  <1>4. 1 \in 1..Len(messages) /\ d = messages[1] /\ d \in wire
    BY <1>1, <1>3
  <1>5. /\ Tail(messages) \in Seq(wire)
        /\ \A j \in 1..Len(Tail(messages)) : /\ j + 1 \in 1..Len(messages)
                                             /\ Tail(messages)[j] = messages[j + 1]
    BY <1>1, <1>3
  <1>6. PICK n \in 1..Len(pushed) : n = d.bytes[1][1] /\ p = pushed[n] /\ p \in Packets
    <2>1. \A n \in 1..Len(pushed) : pushed[n] \in Packets
      BY DEF DriverTypes
    <2> QED
      BY <1>4, <2>1 DEF OnWire, Fits
  <1> HIDE DEF d
  <1>7. /\ d.bytes \in Seq(Bytewise) /\ p.id \in {htons(d.id), Zero} /\ d.bytes[1][2] = 0
        /\ \A k \in 1..p.len : k <= Len(d.bytes) => d.bytes[k] = <<n, k - 1>>
    <2>1. d.bytes[1][2] = 0
      BY <1>4 DEF Received, Passed
    <2>2. Fits(d, pushed)
      BY <1>4 DEF OnWire
    <2> QED
      BY <1>6, <2>1, <2>2 DEF Fits
  <1>8. sock # "bare" => p.addr.dst.port \in 10..50
    BY <1>4 DEF Received, Passed
  <1> HIDE DEF p
  <1>9. ASSUME WellFormed(d) PROVE c.bytes = Bytes(n, p.len)
    <2>1. PICK len \in Nat, got \in Nat : len = p.len /\ got = Len(d.bytes)
      <3>1. p.len \in Nat
        BY <1>6, PacketFacts
      <3>2. Len(d.bytes) \in Nat
        BY <1>7
      <3> QED
        BY <3>1, <3>2
    <2>2. MTU \in Nat
      BY DriverAssumption
    <2>3. len = Min({got, MTU})
      BY <1>6, <1>9, <2>1 DEF WellFormed
    <2>4. len <= got /\ len <= MTU
      BY <2>1, <2>2, <2>3, MinOfTwo
    <2>5. Min({got, MTU, len}) = len
      <3>1. PICK x : x = Min({got, MTU, len})
        OBVIOUS
      <3>2. got \in Int /\ MTU \in Int /\ len \in Int
        BY <2>2
      <3>3. Min({got, MTU, len}) \in {got, MTU, len} /\ Min({got, MTU, len}) <= len
        BY <3>2, MinOfThree
      <3> QED
        BY <2>2, <2>4, <3>1, <3>3
    <2>6. PICK t : t = SubSeq(d.bytes, 1, len)
      OBVIOUS
    <2>7. t \in Seq(Bytewise) /\ Len(t) = len /\ \A k \in 1..len : t[k] = d.bytes[k]
      <3>1. PICK s \in Seq(Bytewise) : s = d.bytes /\ 0 + len <= Len(s)
        BY <1>7, <2>1, <2>4
      <3>2. t = SubSeq(s, 0 + 1, 0 + len) /\ 0 \in Nat
        BY <2>6, <3>1
      <3>3. t \in Seq(Bytewise) /\ Len(t) = len /\ \A k \in 1..len : t[k] = s[0 + k]
        BY <3>1, <3>2, SliceParts
      <3> QED
        BY <3>1, <3>3
    <2>8. \A k \in 1..len : t[k] = <<n, k - 1>>
      BY <1>7, <2>1, <2>4, <2>7
    <2>9. n \in Nat
      BY DEF DriverTypes
    <2>10. t = Bytes(n, len)
      BY <2>7, <2>8, <2>9, BytesEqual
    <2> QED
      BY <2>1, <2>5, <2>6, <2>10
  <1>10. c.addr = Mirror(p.addr) /\ c.control = p.control /\ c.id = htons(d.id)
    OBVIOUS
  <1>11. c.addr.src.port = p.addr.dst.port
    BY DEF Mirror
  <1> HIDE DEF c
  <1>12. CalledWithPushed'
    <2>1. CASE calls' = calls
      BY <1>1, <2>1 DEF CalledWithPushed
    <2>2. CASE WellFormed(d) /\ calls' = calls \cup {c}
      <3>1. c.bytes = Bytes(n, p.len)
        BY <1>9, <2>2
      <3>2. pushed[n] = p /\ n \in 1..Len(pushed)
        BY <1>6
      <3> QED
        BY <1>1, <1>7, <1>10, <2>2, <3>1, <3>2 DEF CalledWithPushed
    <2> QED
      BY <1>2, <2>1, <2>2
  <1>13. PortsFiltered'
    BY <1>1, <1>2, <1>8, <1>11 DEF PortsFiltered
  <1>14. Received'
    <2>1. sock # "closed"
      BY <1>1, Zenon DEF Received
    <2>2. UNCHANGED <<sock, wire, pushed>> /\ messages' = Tail(messages)
      BY <1>1, Zenon
    <2>3. \A j \in 1..Len(messages) : Passed(messages[j])
      BY Zenon DEF Received
    <2>4. \A j \in 1..Len(Tail(messages)) : Passed(Tail(messages)[j])
      BY <1>5, <2>3, Zenon
    <2>5. \A x : Passed(x)' <=> Passed(x)
      BY <2>2, Zenon DEF Passed
    <2> QED
      BY <1>5, <2>1, <2>2, <2>4, <2>5, Zenon DEF Received
  <1>15. DriverTypes' /\ Whole' /\ Covered' /\ (~cleared => Aligned)' /\ OnWire'
    BY <1>1 DEF DriverTypes, Whole, Covered, Aligned, OnWire
  <1>16. FirstSendIntact' /\ Progress'
    BY <1>1 DEF FirstSendIntact, Progress, Slice, Offset
  <1> QED
    BY <1>12, <1>13, <1>14, <1>15, <1>16

------------------------------------------------------------------------------
(* The theorems.                                                           *)

\* The inductive invariant of the driver: the queue's bytes are whole packets that
\* its descriptors never overrun, datagrams and calls consist of pushed packets.
THEOREM DriverInvariance == Spec => []DriverInv
  <1>1. Init => DriverInv
    <2>1. SUFFICES ASSUME Init PROVE DriverInv
      OBVIOUS
    <2>2. /\ sock = "closed" /\ msg_descr = <<>> /\ packet_buffers = <<>> /\ sent = -1
          /\ buffers = 0 /\ messages = <<>> /\ wire = {} /\ pushed = <<>> /\ cleared = FALSE
          /\ calls = {}
      BY <2>1 DEF Init
    <2>3. /\ Len(msg_descr) = 0 /\ Len(packet_buffers) = 0 /\ Len(pushed) = 0 /\ Len(messages) = 0
      BY <2>2
    <2>4. DriverTypes
      <3>1. /\ msg_descr \in Seq(Descrs) /\ packet_buffers \in Seq(Bytewise)
            /\ pushed \in Seq(Packets)
        BY <2>2, EmptySeq
      <3> QED
        BY <2>2, <3>1 DEF DriverTypes
    <2>5. Advanced(msg_descr, 0) = 0
      BY AdvancedStep, 0 \in Nat
    <2>6. Whole /\ Covered /\ Aligned /\ OnWire
      BY <2>2, <2>3, <2>5 DEF Whole, Covered, Aligned, OnWire
    <2>7. messages \in Seq(wire)
      BY <2>2
    <2>8. Received /\ Progress
      BY <2>2, <2>3, <2>7 DEF Received, Passed, Progress
    <2>9. FirstSendIntact /\ CalledWithPushed /\ PortsFiltered
      BY <2>2 DEF FirstSendIntact, CalledWithPushed, PortsFiltered
    <2> QED
      BY <2>4, <2>6, <2>8, <2>9 DEF DriverInv
  <1>2. DriverInv /\ [Next]_vars => DriverInv'
    <2>1. SUFFICES ASSUME DriverInv, [Next]_vars PROVE DriverInv'
      OBVIOUS
    <2>2. buffers \in Nat
      BY <2>1 DEF DriverInv, DriverTypes
    <2>3. ASSUME NEW s \in {"bare", "filtered", "ready"}, init_socket(s) PROVE DriverInv'
      BY <2>1, <2>2, <2>3, QuietStep DEF init_socket
    <2>4. ASSUME NEW n \in 0..MaxBuffers, resize_buffers(n) PROVE DriverInv'
      <3>1. n \in Nat
        OBVIOUS
      <3> QED
        BY <2>1, <2>4, <3>1, QuietStep DEF resize_buffers
    <2>5. ASSUME NEW a \in Addrs, detach(a) \/ \E c \in Conns : attach(a, c) PROVE DriverInv'
      BY <2>1, <2>2, <2>5, QuietStep DEF attach, detach
    <2>6. ASSUME NEW p \in Packets, send_packet(p) PROVE DriverInv'
      BY <2>1, <2>6, PushStep
    <2>7. CASE send_all \/ sendmmsg_failed
      BY <2>1, <2>2, <2>7, QuietStep DEF send_all, sendmmsg_failed
    <2>8. ASSUME NEW l, NEW id, sendmmsg(l, id) PROVE DriverInv'
      BY <2>1, <2>8, SendStep
    <2>9. ASSUME NEW k \in 1..buffers, NEW batch \in [1..k -> Receivable], recvmmsg(batch)
          PROVE  DriverInv'
      BY <2>1, <2>9, RecvStep
    <2>10. CASE dispatch
      BY <2>1, <2>10, DispatchStep
    <2>11. CASE UNCHANGED vars
      BY <2>1, <2>2, <2>11, QuietStep DEF vars
    <2> QED
      BY <2>1, <2>3, <2>4, <2>5, <2>6, <2>7, <2>8, <2>9, <2>10, <2>11 DEF Next
  <1> QED
    BY <1>1, <1>2, PTL DEF Spec

\* send() never points sendmmsg() beyond the bytes of the queue (udp4.h:72-82).
THEOREM SendStaysInBounds == Spec => []SendInBounds
  <1>1. DriverInv => SendInBounds
    <2>1. SUFFICES ASSUME DriverInv PROVE SendInBounds
      OBVIOUS
    <2>2. PICK m \in Nat : m = Len(msg_descr) /\ (m + 1) - 1 = m
      BY <2>1 DEF DriverInv, DriverTypes
    <2>3. Advanced(msg_descr, m) <= Len(packet_buffers)
      BY <2>1, <2>2 DEF DriverInv, Covered
    <2> QED
      BY <2>2, <2>3 DEF SendInBounds, Offset
  <1> QED
    BY <1>1, DriverInvariance, PTL

\* Until the first clear() the network sees only pushed packets, whole and to their
\* own destinations, however often a failed send() is repeated (udp4.h:66-99).
THEOREM FirstSendsArePackets == Spec => []FirstSendIntact
  <1>1. DriverInv => FirstSendIntact
    BY DEF DriverInv
  <1> QED
    BY <1>1, DriverInvariance, PTL

\* A connection is called with nothing but a whole packet that was pushed to it
\* (udp4.h:290-325), although the queue sends stale bytes after its first clear().
THEOREM CallsAreIntact == Spec => []CalledWithPushed
  <1>1. DriverInv => CalledWithPushed
    BY DEF DriverInv
  <1> QED
    BY <1>1, DriverInvariance, PTL

\* Behind the filter of ports 10 to 50 no other port reaches a connection, for any
\* port of 16 bits (udp4.h:164-173).
THEOREM FilterHolds == Spec => []PortsFiltered
  <1>1. DriverInv => PortsFiltered
    BY DEF DriverInv
  <1> QED
    BY <1>1, DriverInvariance, PTL

\* Whatever share of the batch each sendmmsg() takes, the queue is cleared only when
\* the network has had a datagram for each of its descriptors (udp4.h:84-98).
THEOREM ClearedAfterSent == Spec => SentBeforeCleared
  <1> DEFINE Sent == \A i \in 1..Len(msg_descr) : \E d \in wire' :
                       /\ d.bytes = Slice(Offset(i), msg_descr[i].len)
                       /\ d.dst_addr = msg_descr[i].dst_addr
             Clearing == msg_descr # <<>> /\ msg_descr' = <<>> /\ sock = "ready"
  <1>1. DriverInv /\ [Next]_vars =>
          [(msg_descr # <<>> /\ msg_descr' = <<>> /\ sock = "ready") =>
             \A i \in 1..Len(msg_descr) : \E d \in wire' :
               d.bytes = Slice(Offset(i), msg_descr[i].len) /\ d.dst_addr = msg_descr[i].dst_addr]_vars
    <2>1. SUFFICES ASSUME DriverInv, Next, Clearing PROVE Sent
      BY DEF vars
    <2>2. PICK l \in 0..MaxPushed, id \in Ids \ {Zero} : sendmmsg(l, id)
      <3>1. msg_descr' # msg_descr
        BY <2>1
      <3>2. ASSUME NEW p \in Packets, send_packet(p) PROVE FALSE
        <4>1. msg_descr' # <<>>
          <5>1. msg_descr \in Seq(Descrs)
            BY <2>1 DEF DriverInv, DriverTypes
          <5>2. PICK e \in Descrs : msg_descr' = Append(msg_descr, e)
            BY <3>2, PacketFacts DEF send_packet
          <5> QED
            BY <5>1, <5>2, AppendProperties
        <4> QED
          BY <2>1, <4>1
      <3> QED
        BY <2>1, <3>1, <3>2 DEF Next, init_socket, resize_buffers, attach, detach, send_all,
             sendmmsg_failed, recvmmsg, dispatch
    <2> DEFINE new(i) == on_wire(Slice(Offset(i), msg_descr[i].len), msg_descr[i].dst_addr, id)
    <2>3. /\ sent # -1 /\ l \in (IF msg_descr = <<>> THEN {0} ELSE 1..Len(msg_descr) - sent)
          /\ wire' = IF sock # "ready" THEN wire
                     ELSE wire \cup {new(i) : i \in sent + 1..sent + l}
          /\ sent + l < Len(msg_descr) => msg_descr' = msg_descr
      BY <2>2, Zenon DEF sendmmsg, Sending, clear
    <2>4. PICK m \in Nat : m = Len(msg_descr) /\ sent \in 0..m
      BY <2>1, <2>3 DEF DriverInv, DriverTypes
    <2>5. l \in 1..(m - sent) /\ sent + l = m
      BY <2>1, <2>3, <2>4
    <2>6. \A i \in 1..sent : \E d \in wire : /\ d.bytes = Slice(Offset(i), msg_descr[i].len)
                                            /\ d.dst_addr = msg_descr[i].dst_addr
      BY <2>1 DEF DriverInv, Progress
    <2>7. \A i \in (sent + 1)..m :
            /\ new(i) \in wire' /\ new(i).bytes = Slice(Offset(i), msg_descr[i].len)
            /\ new(i).dst_addr = msg_descr[i].dst_addr
      BY <2>1, <2>3, <2>5 DEF on_wire
    <2>8. wire \subseteq wire'
      BY <2>3
    <2> QED
      BY <2>4, <2>6, <2>7, <2>8
  <1> QED
    BY <1>1, DriverInvariance, PTL DEF Spec, SentBeforeCleared

==============================================================================
