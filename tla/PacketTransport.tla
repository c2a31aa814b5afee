---------------------------- MODULE PacketTransport ----------------------------
(***************************************************************************)
(* packet_queue.h and udp4_conn.h: a PacketSendQueue, a datagram network   *)
(* and a PacketRecvQueue, joined by UDP4Connection::send_packet() and      *)
(* recv_packet().  Sequence numbers are uint16_t and wrap around at SeqCount *)
(* (65536 in the code).  The loops "for (i = start; i != end; i++)" of the *)
(* queues visit SeqRange(start, end).                                      *)
(*                                                                         *)
(* The source has the two queues and the two socket calls but not yet the  *)
(* loop that drives them.  The client modelled here is the one their       *)
(* interfaces are made for: the writer keeps at most Window packets that   *)
(* the reader has not consumed, and forgets consumed ones; the reader takes*)
(* a range once compute_range_size() finds it complete.                    *)
(***************************************************************************)
EXTENDS Integers, Sequences, SequencesExt, Selection

CONSTANTS
  SeqCount,        \* number of sequence numbers, 2^16 in the code
  mtu,           \* largest packet push_buffer() makes, an even number
  BufferSizes,   \* sizes the client passes to push_buffer(), even numbers
  ControlSizes,  \* sizes of the packets the client pushes itself, odd numbers
  Window,        \* the writer's limit on unconsumed packets
  MaxUsed        \* bound: sequence numbers used, and read, in a behaviour

ASSUME TransportAssumption ==
  /\ SeqCount \in Nat \ {0, 1} /\ Window \in 1..(SeqCount - 1) /\ MaxUsed \in Nat
  /\ mtu \in Nat \ {0} /\ mtu % 2 = 0
  /\ \A n \in BufferSizes : n \in Nat \ {0} /\ n % 2 = 0
  /\ \A n \in ControlSizes : n \in Nat /\ n % 2 = 1

VARIABLES
  s_packets,   \* PacketSendQueue::packets
  s_end,       \* PacketSendQueue::end_seq
  net,         \* datagrams sent and possibly still under way
  r_packets,   \* PacketRecvQueue::packets
  r_start,     \* PacketRecvQueue::start_seq
  delivered,   \* the packets copy_data() has copied out, in order
  pushed,      \* history: the packets pushed, in order
  used,        \* history: how many sequence numbers the writer has used
  consumed,    \* history: how many the reader has moved past
  forgotten,   \* history: how many the writer has cleared
  disturbed    \* history: was a packet renumbered, or stored after its number
               \* had been consumed?

sender == <<s_packets, s_end, pushed, used, forgotten>>
receiver == <<r_packets, r_start, delivered, consumed>>
vars == <<sender, net, receiver, disturbed>>

Seqs == 0..(SeqCount - 1)

\* PacketDescr: its size, and which push made it in place of its bytes.
Packets == [size : Nat, body : Nat]
Empty == [size |-> 0, body |-> 0]          \* after std::move: data is NULL
is_data(packet) == packet.size % 2 = 0
Data == {p \in Packets : is_data(p)}

\* The numbers the loops visit, in order.
SeqRange(start, end) ==
  [k \in 1..((end - start) % SeqCount) |-> (start + k - 1) % SeqCount]

\* std::map::emplace() of each entry of new: one that exists stays as it is.
emplace(map, new) ==
  [i \in DOMAIN map \cup DOMAIN new |-> IF i \in DOMAIN map THEN map[i] ELSE new[i]]

\* clear_range() of either queue.
clear_range(map, start, end) ==
  [i \in DOMAIN map \ ToSet(SeqRange(start, end)) |-> map[i]]

Init ==
  /\ s_packets = <<>> /\ s_end = 0
  /\ net = {}
  /\ r_packets = <<>> /\ r_start = 1
  /\ delivered = <<>> /\ pushed = <<>>
  /\ used = 0 /\ consumed = 0 /\ forgotten = 0 /\ disturbed = FALSE

------------------------------------------------------------------------------
(* PacketSendQueue                                                         *)

\* push_packet() for each size in turn: packets.emplace(++end_seq, size, data).
\* They are fewer than SeqCount, so no two have the same number.
push_packets(sizes) ==
  LET n == Len(sizes)
      packet(k) == [size |-> sizes[k], body |-> Len(pushed) + k]
      seq(k) == (s_end + k) % SeqCount
  IN  /\ used + n <= MaxUsed
      /\ used + n - forgotten <= Window
      /\ s_packets' = emplace(s_packets, [i \in {seq(k) : k \in 1..n} |->
                                            packet(CHOOSE k \in 1..n : seq(k) = i)])
      /\ s_end' = seq(n)
      /\ pushed' = pushed \o [k \in 1..n |-> packet(k)]
      /\ used' = used + n
      /\ UNCHANGED <<forgotten, net, receiver, disturbed>>

push_packet(size) == push_packets(<<size>>)

\* push_buffer(): as many packets of mtu bytes as fit, then the rest.
push_buffer(size) ==
  LET n == (size + mtu - 1) \div mtu
      rest == size - (n - 1) * mtu
  IN  push_packets([k \in 1..n |-> IF k < n THEN mtu ELSE rest])

\* move_packet_up(): the entry at seq is moved from, not erased.
move_packet_up(seq) ==
  LET new_seq == (s_end + 1) % SeqCount
      old == [s_packets EXCEPT ![seq] = IF new_seq \in DOMAIN s_packets THEN @ ELSE Empty]
  IN  /\ seq \in DOMAIN s_packets
      /\ used < MaxUsed /\ used - forgotten < Window
      /\ s_packets' = emplace(old, [i \in {new_seq} |-> s_packets[seq]])
      /\ s_end' = new_seq
      /\ used' = used + 1
      /\ disturbed' = TRUE
      /\ UNCHANGED <<pushed, forgotten, net, receiver>>

\* A writer that forgets one packet too many.
MutForgetOneMore ==
  /\ forgotten < consumed
  /\ s_packets' = clear_range(s_packets, (r_start - (consumed - forgotten)) % SeqCount,
                              (r_start + 1) % SeqCount)
  /\ forgotten' = consumed
  /\ UNCHANGED <<s_end, pushed, used, net, receiver, disturbed>>

\* The client forgets what the reader has consumed (the reader's start_seq
\* reaches it by the client's own means; process_control() is empty).
forget_consumed ==
  /\ forgotten < consumed
  /\ s_packets' = clear_range(s_packets, (r_start - (consumed - forgotten)) % SeqCount, r_start)
  /\ forgotten' = consumed
  /\ UNCHANGED <<s_end, pushed, used, net, receiver, disturbed>>

------------------------------------------------------------------------------
(* UDP4Connection and the network, which may lose, duplicate and reorder.  *)

\* Which of the numbers used so far seq stands for in the send queue.
number(seq) == used - ((s_end - seq) % SeqCount)

\* A datagram is the 16-bit id followed by the packet's bytes.
send_packet(seq) ==
  /\ seq \in DOMAIN s_packets
  /\ net' = net \cup {[id |-> seq, packet |-> s_packets[seq], number |-> number(seq)]}
  /\ UNCHANGED <<sender, receiver, disturbed>>

\* A receiver that counts the id's two bytes as payload.
MutRecvWithHeader(datagram) ==
  /\ datagram \in net
  /\ disturbed' = (disturbed \/ datagram.number <= consumed)
  /\ r_packets' = emplace(r_packets, [i \in {datagram.id} |->
                                          [datagram.packet EXCEPT !.size = @ + 2]])
  /\ UNCHANGED <<sender, net, r_start, delivered, consumed>>

\* recvfrom() and PacketRecvQueue::push_packet(), which takes any number.
recv_packet(datagram) ==
  /\ datagram \in net
  /\ disturbed' = (disturbed \/ datagram.number <= consumed)
  /\ r_packets' = emplace(r_packets, [i \in {datagram.id} |-> datagram.packet])
  /\ UNCHANGED <<sender, net, r_start, delivered, consumed>>

------------------------------------------------------------------------------
(* PacketRecvQueue.  resolve_seq() returns its argument: nothing in the    *)
(* source ever adds to seq_mapping.                                        *)

find_missing_packets(start, end) ==
  {i \in ToSet(SeqRange(start, end)) : i \notin DOMAIN r_packets}

\* compute_range_size(): -1 if a packet of the range is missing.
compute_range_size(start, end) ==
  IF find_missing_packets(start, end) # {} THEN -1
  ELSE FoldLeft(LAMBDA sum, i : sum + IF is_data(r_packets[i]) THEN r_packets[i].size ELSE 0,
                0, SeqRange(start, end))

\* copy_data(): the data packets of the range, in order; one of no bytes
\* copies nothing.
copy_data(start, end) ==
  LET range == SeqRange(start, end)
      packets == [k \in DOMAIN range |-> r_packets[range[k]]]
  IN  Among(packets, {p \in Data : p.size > 0})

\* A reader that copies without checking that nothing is missing.
MutReadUnchecked(end) ==
  LET range == SelectSeq(SeqRange(r_start, end), LAMBDA i : i \in DOMAIN r_packets)
      packets == [k \in DOMAIN range |-> r_packets[range[k]]]
  IN  /\ end # r_start
      /\ delivered' = delivered \o Among(packets, Data)
      /\ r_packets' = clear_range(r_packets, r_start, end)
      /\ r_start' = end
      /\ consumed' = consumed + Len(SeqRange(r_start, end))
      /\ UNCHANGED <<sender, net, disturbed>>

\* compute_range_size() to see that the range is there and to allocate,
\* copy_data(), move_seq().
read(end) ==
  /\ end # r_start
  /\ consumed + Len(SeqRange(r_start, end)) <= MaxUsed
  /\ compute_range_size(r_start, end) >= 0
  /\ delivered' = delivered \o copy_data(r_start, end)
  /\ r_packets' = clear_range(r_packets, r_start, end)
  /\ r_start' = end
  /\ consumed' = consumed + Len(SeqRange(r_start, end))
  /\ UNCHANGED <<sender, net, disturbed>>

------------------------------------------------------------------------------
Next ==
  \/ \E n \in ControlSizes : push_packet(n)
  \/ \E n \in BufferSizes : push_buffer(n)
  \/ \E seq \in DOMAIN s_packets : move_packet_up(seq)
  \/ forget_consumed
  \/ \E seq \in DOMAIN s_packets : send_packet(seq)
  \/ \E datagram \in net : recv_packet(datagram)
  \/ \E end \in Seqs : read(end)

Spec == Init /\ [][Next]_vars

------------------------------------------------------------------------------
\* In-order, exactly-once delivery: what copy_data() has handed out is a prefix
\* of the data packets pushed, control packets skipped, however datagrams were
\* lost, repeated and reordered and however often end_seq has wrapped around
\* (packet_queue.h:107-156 and 188-222).  It holds until move_packet_up()
\* renumbers a packet or a datagram outlives its number: nothing maps the new
\* number back and nothing turns the old datagram away.
DeliveredInOrder ==
  ~disturbed => IsPrefix(delivered, Among(pushed, Data))

\* Every number the writer has used and not cleared is still in the send queue, so a packet missing at
\* the reader (find_missing_packets) can be supplied.
MissingCanBeResent ==
  ~disturbed => find_missing_packets(r_start, (s_end + 1) % SeqCount) \subseteq DOMAIN s_packets

\* Integrity: whatever copy_data() hands out was pushed, with the size it was
\* pushed with, even when move_packet_up() renumbers packets and datagrams that
\* were consumed long ago still arrive.
DeliveredWasPushed == ToSet(delivered) \subseteq ToSet(pushed)

\* "seq 0 is omited" (packet_queue.h:52 and 163): no packet has number 0.
SeqZeroOmitted == 0 \notin DOMAIN s_packets

==============================================================================
