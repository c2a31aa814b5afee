------------------------------ MODULE Udp4Driver -------------------------------
(***************************************************************************)
(* udp4.h: a driver that sends and receives UDP over a raw socket, its     *)
(* send queue and its table of connections.  The driver talks to itself    *)
(* over a network that loses, repeats and reorders, as in test.cc; the     *)
(* kernel's raw socket is external.                                        *)
(*                                                                         *)
(* Bytes are counted in units: a packet is one unit of headers and then    *)
(* its data.  Unit i of the n-th packet pushed is <<n, i>>, the headers    *)
(* are <<n, 0>>.  A payload is assumed not to look like the headers of a   *)
(* packet for this driver, so the kernel drops what starts with one.       *)
(***************************************************************************)
EXTENDS Integers, Sequences, SequencesExt, FiniteSetsExt

CONSTANTS
  Packets,      \* what push_data() and push_control() are called with
  Addrs,        \* the addresses connections are attached under
  Conns, NULL,  \* the connections
  MTU,          \* the size of a receive buffer, in units
  Ids,          \* the packet ids, as <<high byte, low byte>>
  MaxPushed,    \* bound on the packets pushed
  MaxBuffers    \* bound on resize_buffers()

Octet == 0..255
Port == {port \in Nat : port < 65536}

\* A packet has at least its headers, and an id of two bytes.
ASSUME DriverAssumption ==
  /\ MTU \in Nat
  /\ \A p \in Packets : /\ p.len \in Nat \ {0} /\ p.addr.dst.port \in Port
                        /\ p.id \in Octet \X Octet

VARIABLES
  sock,            \* how far init_socket() came: "closed", "bare", "filtered", "ready"
  msg_descr,       \* SendPacketQueue: [len, dst_addr] of the packets to send
  packet_buffers,  \* SendPacketQueue: their bytes
  sent,            \* send(): the packets handed over so far, -1 outside send()
  conn_map,        \* conn_map[a]: the connection attached under a, or NULL
  buffers,         \* the number of receive buffers
  messages,        \* recv_all(): what it has received and not yet dispatched
  wire,            \* the datagrams that were ever on the network
  pushed,          \* history: the packets pushed
  cleared,         \* history: some send() has come to its clear()
  calls            \* history: the calls of process_data() and process_control()

vars == <<sock, msg_descr, packet_buffers, sent, conn_map, buffers, messages,
          wire, pushed, cleared, calls>>

Zero == <<0, 0>>

htons(x) == <<x[2], x[1]>>

\* The reverse direction of an address, as recv_all() computes it.
Mirror(a) == [src |-> a.dst, dst |-> a.src]

\* A filter that compares with the end of the range instead of its length.
MutFilter(port) == (port - 10) % 1073741824 <= 50

\* The filter of init_socket(), ports 10 to 50: the BPF program subtracts without
\* sign and compares once.  (It has 32 bits; 30, more than a port's 16, will do.)
filter_udp_port(port) == (port - 10) % 1073741824 <= 50 - 10

\* How far send() has advanced data after n descriptors.
Advanced(descr, n) ==
  LET data[k \in 0..n] == IF k = 0 THEN 0 ELSE data[k - 1] + descr[k].len
  IN  data[n]

\* Where the packet of descriptor i starts in packet_buffers.
Offset(i) == Advanced(msg_descr, i - 1)

\* Bytes first..first+len-1 of packet_buffers.
Slice(first, len) == SubSeq(packet_buffers, first + 1, first + len)

\* A packet's bytes.
Bytes(n, len) == [i \in 1..len |-> <<n, i - 1>>]

Init ==
  /\ sock = "closed"
  /\ msg_descr = <<>> /\ packet_buffers = <<>> /\ sent = -1
  /\ conn_map = [a \in Addrs |-> NULL]
  /\ buffers = 0 /\ messages = <<>> /\ wire = {}
  /\ pushed = <<>> /\ cleared = FALSE /\ calls = {}

Sending == sent # -1

------------------------------------------------------------------------------
(* Set-up and the table of connections.                                    *)

\* init_socket() ends at the first system call that fails.
init_socket(stage) ==
  /\ sock = "closed" /\ sock' = stage
  /\ UNCHANGED <<msg_descr, packet_buffers, sent, conn_map, buffers, messages,
                 wire, pushed, cleared, calls>>

resize_buffers(n) ==
  /\ ~Sending /\ messages = <<>> /\ buffers' = n
  /\ UNCHANGED <<sock, msg_descr, packet_buffers, sent, conn_map, messages,
                 wire, pushed, cleared, calls>>

\* insert() leaves an address that is in the map alone.  A connection may attach
\* and detach while recv_all() calls it.
attach(a, c) ==
  /\ ~Sending
  /\ conn_map[a] = NULL /\ conn_map' = [conn_map EXCEPT ![a] = c]
  /\ UNCHANGED <<sock, msg_descr, packet_buffers, sent, buffers, messages,
                 wire, pushed, cleared, calls>>

detach(a) ==
  /\ ~Sending
  /\ conn_map[a] # NULL /\ conn_map' = [conn_map EXCEPT ![a] = NULL]
  /\ UNCHANGED <<sock, msg_descr, packet_buffers, sent, buffers, messages,
                 wire, pushed, cleared, calls>>

------------------------------------------------------------------------------
(* Sending.                                                                *)

\* push_data() and push_control(): send_packet() puts the headers before the data
\* and queues the whole.
send_packet(p) ==
  /\ ~Sending /\ Len(pushed) < MaxPushed
  /\ pushed' = Append(pushed, p)
  /\ packet_buffers' = packet_buffers \o Bytes(Len(pushed) + 1, p.len)
  /\ msg_descr' = Append(msg_descr, [len |-> p.len, dst_addr |-> p.addr.dst])
  /\ UNCHANGED <<sock, sent, conn_map, buffers, messages, wire, cleared, calls>>

send_all ==
  /\ ~Sending /\ sent' = 0
  /\ UNCHANGED <<sock, msg_descr, packet_buffers, conn_map, buffers, messages,
                 wire, pushed, cleared, calls>>

\* The kernel fills in an id of 0.
on_wire(bytes, dst, id) ==
  [bytes |-> bytes, dst_addr |-> dst,
   id |-> LET own == htons(pushed[bytes[1][1]].id) IN IF own = Zero THEN id ELSE own]

\* A queue that forgets its bytes and keeps its descriptors.
MutClear ==
  packet_buffers' = <<>> /\ cleared' = TRUE /\ UNCHANGED msg_descr

\* clear(): packet_buffers.empty() asks whether the vector is empty
clear ==
  msg_descr' = <<>> /\ cleared' = TRUE /\ UNCHANGED packet_buffers

\* A send() that takes the first sendmmsg() for all of it.
MutSendmmsg(l, id) ==
  /\ Sending /\ sock # "closed"
  /\ l \in (IF msg_descr = <<>> THEN {0} ELSE 1..Len(msg_descr) - sent)
  /\ wire' = IF sock # "ready" THEN wire
             ELSE wire \cup {on_wire(Slice(Offset(i), msg_descr[i].len), msg_descr[i].dst_addr, id) :
                               i \in sent + 1..sent + l}
  /\ sent' = -1 /\ clear
  /\ UNCHANGED <<sock, conn_map, buffers, messages, pushed, calls>>

\* One sendmmsg() of the loop takes l packets; after the last the queue is cleared.
\* A socket without IP_HDRINCL puts headers of its own before the packet, which no
\* receiver of this kind can read.
sendmmsg(l, id) ==
  /\ Sending /\ sock # "closed"
  /\ l \in (IF msg_descr = <<>> THEN {0} ELSE 1..Len(msg_descr) - sent)
  /\ wire' = IF sock # "ready" THEN wire
             ELSE wire \cup {on_wire(Slice(Offset(i), msg_descr[i].len), msg_descr[i].dst_addr, id) :
                               i \in sent + 1..sent + l}
  /\ IF sent + l < Len(msg_descr)
     THEN sent' = sent + l /\ UNCHANGED <<msg_descr, packet_buffers, cleared>>
     ELSE sent' = -1 /\ clear
  /\ UNCHANGED <<sock, conn_map, buffers, messages, pushed, calls>>

\* A failure that drops the descriptors of what was sent and not the bytes.
MutSendmmsgFailed ==
  /\ Sending /\ sent' = -1
  /\ msg_descr' = SubSeq(msg_descr, sent + 1, Len(msg_descr))
  /\ UNCHANGED <<sock, packet_buffers, conn_map, buffers, messages,
                 wire, pushed, cleared, calls>>

\* scall() throws: the queue stays as it is, with the packets already sent.
sendmmsg_failed ==
  /\ Sending /\ sent' = -1
  /\ UNCHANGED <<sock, msg_descr, packet_buffers, conn_map, buffers, messages,
                 wire, pushed, cleared, calls>>

------------------------------------------------------------------------------
(* Receiving.                                                              *)

\* What the kernel hands to a raw socket: packets with headers, whose port the
\* filter lets through once there is one.
Receivable ==
  {d \in wire : /\ d.bytes[1][2] = 0
                /\ sock = "bare" \/ filter_udp_port(pushed[d.bytes[1][1]].addr.dst.port)}

recvmmsg(batch) ==
  /\ ~Sending /\ messages = <<>> /\ sock # "closed"
  /\ batch # <<>> /\ messages' = batch
  /\ UNCHANGED <<sock, msg_descr, packet_buffers, sent, conn_map, buffers,
                 wire, pushed, cleared, calls>>

\* A driver that trusts the length of the datagram.
MutWellFormed(d) == TRUE

\* "Something's wrong ?": the length in the UDP header against what arrived,
\* which the receive buffer has cut at MTU.
WellFormed(d) == pushed[d.bytes[1][1]].len = Min({Len(d.bytes), MTU})

\* One round of recv_all()'s loop.
dispatch ==
  LET d == Head(messages)
      p == pushed[d.bytes[1][1]]
      addr == Mirror(p.addr)
  IN  /\ ~Sending /\ messages # <<>> /\ messages' = Tail(messages)
      /\ calls' = IF WellFormed(d) /\ addr \in Addrs /\ conn_map[addr] # NULL
                  THEN calls \cup {[conn |-> conn_map[addr], addr |-> addr,
                                    control |-> p.control, id |-> htons(d.id),
                                    bytes |-> SubSeq(d.bytes, 1, Min({Len(d.bytes), MTU, p.len}))]}
                  ELSE calls
      /\ UNCHANGED <<sock, msg_descr, packet_buffers, sent, conn_map, buffers,
                     wire, pushed, cleared>>

------------------------------------------------------------------------------
Next ==
  \/ \E s \in {"bare", "filtered", "ready"} : init_socket(s)
  \/ \E n \in 0..MaxBuffers : resize_buffers(n)
  \/ \E a \in Addrs : detach(a) \/ \E c \in Conns : attach(a, c)
  \/ \E p \in Packets : send_packet(p)
  \/ send_all \/ sendmmsg_failed
  \/ \E l \in 0..MaxPushed, id \in Ids \ {Zero} : sendmmsg(l, id)
  \/ \E k \in 1..buffers : \E batch \in [1..k -> Receivable] : recvmmsg(batch)
  \/ dispatch

Spec == Init /\ [][Next]_vars

------------------------------------------------------------------------------
\* send() never points sendmmsg() beyond the bytes of the queue, whatever failed
\* sends and pushes of callbacks came before (udp4.h:72-82).
SendInBounds == Offset(Len(msg_descr) + 1) <= Len(packet_buffers)

\* Until a send() has cleared the queue, every datagram is a pushed packet, to the
\* destination in its own headers, also when a failed send() is repeated.
FirstSendIntact ==
  ~cleared => \A d \in wire : \E n \in 1..Len(pushed) :
                /\ d.bytes = Bytes(n, pushed[n].len)
                /\ d.dst_addr = pushed[n].addr.dst

\* A connection is only called with a packet that was pushed to it, whole, with its
\* id (unless that was 0) and as data or control, also when the queue sends stale or
\* misaligned bytes: the length check of recv_all() (udp4.h:304) stops those.
CalledWithPushed ==
  \A c \in calls : \E n \in 1..Len(pushed) :
    /\ c.bytes = Bytes(n, pushed[n].len) /\ c.addr = Mirror(pushed[n].addr)
    /\ c.control = pushed[n].control
    /\ pushed[n].id \in {c.id, Zero}

\* Once the filter is attached no connection is called for a port outside 10..50,
\* although port numbers below the range wrap around in it (udp4.h:164-173).
PortsFiltered ==
  sock # "bare" => \A c \in calls : c.addr.src.port \in 10..50

\* The queue forgets a packet only after the network has had bytes for it, of its
\* length and to its destination, however sendmmsg() splits the batch (udp4.h:84-98).
SentBeforeCleared ==
  [][(msg_descr # <<>> /\ msg_descr' = <<>> /\ sock = "ready") =>
       \A i \in 1..Len(msg_descr) : \E d \in wire' :
         d.bytes = Slice(Offset(i), msg_descr[i].len) /\ d.dst_addr = msg_descr[i].dst_addr]_vars
==============================================================================
