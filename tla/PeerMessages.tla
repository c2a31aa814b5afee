----------------------------- MODULE PeerMessages ------------------------------
(***************************************************************************)
(* conn/peers.cc, conn/handler.cc and the read and write loops of          *)
(* crypto/ssl.cc: threads call send_data_to_peer(), which writes a header  *)
(* and then the data to the peer's TLS stream; peer_handle_thread() of the *)
(* other side reads headers and calls the handler registered for the type. *)
(*                                                                         *)
(* The stream carries words; a header is two of them, size and type.  What *)
(* a reader makes of a word depends only on its value.                     *)
(***************************************************************************)
EXTENDS Integers, Sequences, SequencesExt

CONSTANTS
  Senders,        \* the threads that send to the peer
  Types,          \* message types, numbers
  Words,          \* values of a word of data
  MaxSize,        \* bound: words of data in a message
  MaxSent,        \* bound: messages sent in a behaviour
  max_data_size   \* the max_data_size of every handler

ASSUME PeerAssumption ==
  /\ Types \subseteq Nat /\ Words \subseteq Nat
  /\ MaxSize \in Nat /\ MaxSent \in Nat /\ max_data_size \in Nat

VARIABLES
  handlers,   \* the types in global_channel_handlers
  connected,  \* is the peer in connected_peers?
  out,        \* out[s]: the words s has still to write, call by call
  stream,     \* the words written and not yet read
  in,         \* the words of the header peer_handle_thread() is reading
  broken,     \* has the TLS connection failed?  It then takes no more writes
  reader,     \* "reading", or the exception that ended peer_handle_thread()
  sent,       \* history: the messages, in the order of the calls
  handled     \* history: the calls of on_data

vars == <<handlers, connected, out, stream, in, broken, reader, sent, handled>>

Messages == [type : Types, data : UNION {[1..n -> Words] : n \in 0..MaxSize}]
HeaderLen == 2

Init ==
  /\ handlers = {} /\ connected = FALSE
  /\ out = [s \in Senders |-> <<>>]
  /\ stream = <<>> /\ in = <<>> /\ broken = FALSE /\ reader = "reading"
  /\ sent = <<>> /\ handled = <<>>

------------------------------------------------------------------------------
\* register_global_handler(): throws if the type is taken.
register_global_handler(type) ==
  /\ type \notin handlers
  /\ handlers' = handlers \cup {type}
  /\ UNCHANGED <<connected, out, stream, in, broken, reader, sent, handled>>

\* The application puts the connection into connected_peers.
connect_peer ==
  /\ ~connected /\ connected' = TRUE
  /\ UNCHANGED <<handlers, out, stream, in, broken, reader, sent, handled>>

\* send_data_to_peer() finds the peer and starts its two SSLWriteAllData(): one
\* for the header and, if there is any, one for the data.
send_data_to_peer(s, m) ==
  /\ connected                       \* otherwise throws "Peer not connected"
  /\ out[s] = <<>> /\ Len(sent) < MaxSent
  /\ out' = [out EXCEPT ![s] =
       <<<<Len(m.data), m.type>>>> \o IF m.data = <<>> THEN <<>> ELSE <<m.data>>]
  /\ sent' = Append(sent, m)
  /\ UNCHANGED <<handlers, connected, stream, in, broken, reader, handled>>

\* A write loop that restarts from the beginning of its buffer.
MutWriteRestarts(s) ==
  /\ out[s] # <<>> /\ ~broken
  /\ \E n \in 1..Len(Head(out[s])) :
       /\ stream' = stream \o SubSeq(Head(out[s]), 1, n)
       /\ out' = [out EXCEPT ![s] =
            IF n = Len(Head(@)) THEN Tail(@)
            ELSE <<SubSeq(Head(@), 1, Len(Head(@)) - n)>> \o Tail(@)]
  /\ UNCHANGED <<handlers, connected, in, broken, reader, sent, handled>>

\* SSLWriteAllData(): one SSL_write() takes some of what is left.
SSLWriteAllData(s) ==
  /\ out[s] # <<>> /\ ~broken
  /\ \E n \in 1..Len(Head(out[s])) :
       /\ stream' = stream \o SubSeq(Head(out[s]), 1, n)
       /\ out' = [out EXCEPT ![s] =
            IF n = Len(Head(@)) THEN Tail(@)
            ELSE <<SubSeq(Head(@), n + 1, Len(Head(@)))>> \o Tail(@)]
  /\ UNCHANGED <<handlers, connected, in, broken, reader, sent, handled>>

\* SSL_write() fails: send_data_to_peer() throws, and what is not written yet,
\* the data or a part of the header, is never written.
ssl_write_failed(s) ==
  /\ out[s] # <<>>
  /\ broken' = TRUE
  /\ out' = [out EXCEPT ![s] = <<>>]
  /\ UNCHANGED <<handlers, connected, stream, in, reader, sent, handled>>

------------------------------------------------------------------------------
\* A read loop that asks for a word too many.
MutReadTooFar ==
  /\ reader = "reading" /\ Len(in) < HeaderLen /\ stream # <<>>
  /\ \E n \in 1..(HeaderLen + 1 - Len(in)) :
       /\ n <= Len(stream)
       /\ in' = in \o SubSeq(stream, 1, n)
       /\ stream' = SubSeq(stream, n + 1, Len(stream))
  /\ UNCHANGED <<handlers, connected, out, broken, reader, sent, handled>>

\* SSLReadAllData(): one SSL_read() returns some of what is there.
SSLReadAllData ==
  /\ reader = "reading" /\ Len(in) < HeaderLen /\ stream # <<>>
  /\ \E n \in 1..(HeaderLen - Len(in)) :
       /\ n <= Len(stream)
       /\ in' = in \o SubSeq(stream, 1, n)
       /\ stream' = SubSeq(stream, n + 1, Len(stream))
  /\ UNCHANGED <<handlers, connected, out, broken, reader, sent, handled>>

\* SSL_read() fails or finds the stream closed, which throws as well.
ssl_read_failed ==
  /\ reader = "reading" /\ Len(in) < HeaderLen
  /\ reader' = "ssl read"
  /\ UNCHANGED <<handlers, connected, out, stream, in, broken, sent, handled>>

\* peer_handle_thread() has a header: it allocates header.size bytes, which
\* nothing fills, and global_handle_data() calls the handler or throws.
global_handle_data ==
  LET size == in[1]
      type == in[2]
  IN  /\ reader = "reading" /\ Len(in) = HeaderLen
      /\ \/ /\ type \in handlers /\ size <= max_data_size
            /\ handled' = Append(handled, [type |-> type, size |-> size])
            /\ in' = <<>>
            /\ UNCHANGED reader
         \/ /\ type \in handlers /\ size > max_data_size
            /\ reader' = "Data size exceeds maximum"
            /\ UNCHANGED <<in, handled>>
         \/ /\ type \notin handlers
            /\ reader' = "No handler for data"
            /\ UNCHANGED <<in, handled>>
         \/ /\ size > 0
            /\ reader' = "Failed to allocate memory for data"
            /\ UNCHANGED <<in, handled>>
      /\ UNCHANGED <<handlers, connected, out, stream, broken, sent>>

------------------------------------------------------------------------------
Next ==
  \/ \E type \in Types : register_global_handler(type)
  \/ connect_peer
  \/ \E s \in Senders : \/ \E m \in Messages : send_data_to_peer(s, m)
                        \/ SSLWriteAllData(s) \/ ssl_write_failed(s)
  \/ SSLReadAllData \/ ssl_read_failed
  \/ global_handle_data

Spec == Init /\ [][Next]_vars

\* The threads keep running, and a connection that has not failed carries words.
FairSpec ==
  /\ Spec
  /\ \A s \in Senders : WF_vars(SSLWriteAllData(s))
  /\ WF_vars(SSLReadAllData) /\ WF_vars(global_handle_data)

------------------------------------------------------------------------------
\* The header of a message.
Header(m) == [type |-> m.type, size |-> Len(m.data)]

\* Framing: whatever sizes SSL_read() and SSL_write() choose, the handler calls
\* follow the messages one sender wrote, one by one, up to and including the
\* first message that has data; only there can the reader lose its place.
InStepUntilData ==
  \A k \in DOMAIN handled :
    (\A i \in 1..(k - 1) : i \in DOMAIN sent => sent[i].data = <<>>)
      => k \in DOMAIN sent /\ handled[k] = Header(sent[k])

\* The message at the reader's turn: empty, of a registered type.
EmptyAndHandled(k) == k \in DOMAIN sent /\ sent[k].data = <<>> /\ sent[k].type \in handlers

\* Delivery: messages without data, of registered types, all reach their
\* handlers (peers.cc:34-49 and 93-106) unless the connection fails or a message
\* the reader does not accept has ended it.
EmptyMessagesArrive ==
  \A k \in 1..MaxSent :
    (\A i \in 1..k : EmptyAndHandled(i)) ~> (Len(handled) >= k \/ reader # "reading" \/ broken)
==============================================================================
