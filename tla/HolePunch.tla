------------------------------- MODULE HolePunch -------------------------------
(***************************************************************************)
(* net/tcpv4.cc: two peers that run tcpv4_hole_punch() against each other, *)
(* with the sockets of net/socket.h.  Each round a peer opens and binds a  *)
(* socket, listens or connects for a while, sleeps until the round is over *)
(* and changes roles.  The main socket is closed by its SocketGuard at the *)
(* end of the round, after the sleep: a listening socket still completes   *)
(* handshakes after accept4() has timed out.                               *)
(*                                                                         *)
(* The kernel and the network are external: a SYN may be lost, a NAT lets  *)
(* packets in only after its host has sent some, a connect() that meets    *)
(* another is a simultaneous open, and a third host may connect.  Time is  *)
(* not modelled; a round may end whenever its wait may time out.           *)
(***************************************************************************)
EXTENDS Integers, Sequences, FiniteSets

CONSTANTS
  Peers,          \* the two peers
  ConnectCounts,  \* the values settings.connect_count may have
  SrcAddrs,       \* the values settings.src_addr may have, 0 for INADDR_ANY
  own_addr,       \* own_addr[p]: the address of p's interface
  NATed,          \* the peers behind a NAT
  Backlog,        \* tcpv4_listen()'s default backlog
  UINT_COUNT      \* number of values of an unsigned int

ASSUME PunchAssumption ==
  /\ IsFiniteSet(Peers) /\ Cardinality(Peers) = 2 /\ NATed \subseteq Peers
  /\ Peers \cap {"both", "stranger", "none"} = {}
  /\ Backlog \in Nat /\ UINT_COUNT \in Nat \ {0}
  /\ ConnectCounts \subseteq 0..(UINT_COUNT - 1)
  /\ SrcAddrs \subseteq Nat /\ own_addr \in [Peers -> Nat \ {0, 1}]

VARIABLES
  src_addr, \* src_addr[p]: settings.src_addr
  phase,    \* phase[p]: where p is in tcpv4_hole_punch()
  tries,    \* tries[p]: connect_tries
  listen,   \* listen[p]: does p listen in this round?
  open,     \* open[p]: p's open sockets
  backlog,  \* backlog[p]: connections p's kernel completed, not yet accepted
  fd,       \* fd[p]: the connection tcpv4_hole_punch() returned, or "none"
  alive,    \* the connections no end of which has been reset
  punched   \* the peers that have sent a SYN to the other

vars == <<src_addr, phase, tries, listen, open, backlog, fd, alive, punched>>

Other(p) == CHOOSE q \in Peers : q # p

\* How a call ends: with a socket, or with a ConnectionError.
Ended == {"returned", "bind_failed", "bad_peer", "gave_up"}

\* A connection is named after the one who opened it.
Both == "both"          \* the simultaneous open
Stranger == "stranger"
Connections == Peers \cup {Both, Stranger}

Init ==
  /\ src_addr \in [Peers -> SrcAddrs]
  /\ phase = [p \in Peers |-> "round"]
  /\ tries \in [Peers -> ConnectCounts]   \* settings.connect_count
  /\ listen \in [Peers -> BOOLEAN]        \* settings.listen_first
  /\ open = [p \in Peers |-> {}]
  /\ backlog = [p \in Peers |-> <<>>]
  /\ fd = [p \in Peers |-> "none"]
  /\ alive = {}
  /\ punched = {}

------------------------------------------------------------------------------
\* The address tcpv4_bind_port() gets: settings.src_addr || INADDR_ANY
bind_addr(p) == IF src_addr[p] # 0 THEN 1 ELSE 0

\* bind() takes the address of an interface, or any.
bind_ok(p) == bind_addr(p) \in {0, own_addr[p]}

\* tcpv4_new_socket(), tcpv4_bind_port(), set_socket_timeout() and then
\* tcpv4_listen() ...
start_listen(p) ==
  /\ phase[p] = "round" /\ bind_ok(p) /\ listen[p]
  /\ phase' = [phase EXCEPT ![p] = "accept"]
  /\ open' = [open EXCEPT ![p] = @ \cup {"main_fd"}]
  /\ UNCHANGED <<tries, listen, backlog, fd, alive, punched>>

\* ... or the start of connect(), which sends the first SYN.
start_connect(p) ==
  /\ phase[p] = "round" /\ bind_ok(p) /\ ~listen[p]
  /\ phase' = [phase EXCEPT ![p] = "connect"]
  /\ open' = [open EXCEPT ![p] = @ \cup {"main_fd"}]
  /\ punched' = punched \cup {p}
  /\ UNCHANGED <<tries, listen, backlog, fd, alive>>

\* The exception of tcpv4_bind_port(); its guard closes the socket.
bind_fails(p) ==
  /\ phase[p] = "round" /\ ~bind_ok(p)
  /\ phase' = [phase EXCEPT ![p] = "bind_failed"]
  /\ UNCHANGED <<tries, listen, open, backlog, fd, alive, punched>>

\* p's kernel answers SYNs: it has a listening socket with room in its queue.
Listening(p) ==
  listen[p] /\ phase[p] \in {"accept", "sleep"} /\ Len(backlog[p]) <= Backlog

\* p's NAT, if it has one, lets the other peer's packets in.
Reachable(p) == p \in NATed => p \in punched

\* connect() succeeds and tcpv4_hole_punch() returns main_fd.
connected(p) ==
  LET q == Other(p) IN
  /\ phase[p] = "connect"
  /\ Listening(q) /\ Reachable(q)
  /\ backlog' = [backlog EXCEPT ![q] = Append(@, p)]
  /\ alive' = alive \cup {p}
  /\ fd' = [fd EXCEPT ![p] = p]
  /\ phase' = [phase EXCEPT ![p] = "returned"]
  /\ UNCHANGED <<tries, listen, open, punched>>

\* Both are in connect() and their SYNs cross: both calls return main_fd.
simultaneous_open ==
  /\ \A p \in Peers : phase[p] = "connect" /\ Reachable(p)
  /\ alive' = alive \cup {Both}
  /\ fd' = [p \in Peers |-> Both]
  /\ phase' = [p \in Peers |-> "returned"]
  /\ UNCHANGED <<tries, listen, open, backlog, punched>>

\* connect() fails: refused, unreachable or out of retries.
connect_failed(p) ==
  /\ phase[p] = "connect"
  /\ phase' = [phase EXCEPT ![p] = "sleep"]
  /\ UNCHANGED <<tries, listen, open, backlog, fd, alive, punched>>

\* A third host connects to p's listening socket.
stranger_connects(p) ==
  /\ Listening(p) /\ p \notin NATed /\ Stranger \notin alive
  /\ backlog' = [backlog EXCEPT ![p] = Append(@, Stranger)]
  /\ alive' = alive \cup {Stranger}
  /\ UNCHANGED <<phase, tries, listen, open, fd, punched>>

\* accept4() found nothing within the socket's timeout.
accept_timeout(p) ==
  /\ phase[p] = "accept" /\ backlog[p] = <<>>
  /\ phase' = [phase EXCEPT ![p] = "sleep"]
  /\ UNCHANGED <<tries, listen, open, backlog, fd, alive, punched>>

\* The connections p's kernel resets when it closes a socket with this queue.
Reset(queue) == {queue[i] : i \in DOMAIN queue}

\* A round that ends without closing its socket.
MutLeaveOpen(sockets) == sockets

\* ~SocketGuard() closes main_fd.
close_main(sockets) == sockets \ {"main_fd"}

\* A new_fd that its own guard closes when the function returns.
MutQueueKept(queue) == queue

\* What is left in the queue of main_fd once accept4() has taken its head.
accepted(queue) == Tail(queue)

\* accept4() reads an addr_len that tcpv4_accept_unsafe() never sets.  A large
\* value gives the peer's address, a small one leaves res.addr (partly)
\* unwritten, a negative one makes the call fail and drop the connection.
accept_ok(p) ==
  /\ phase[p] = "accept" /\ backlog[p] # <<>>
  /\ Head(backlog[p]) # Stranger
  /\ phase' = [phase EXCEPT ![p] = "returned"]
  /\ fd' = [fd EXCEPT ![p] = Head(backlog[p])]
  /\ open' = [open EXCEPT ![p] = close_main(@) \cup {"new_fd"}]
  /\ alive' = alive \ Reset(accepted(backlog[p]))
  /\ backlog' = [backlog EXCEPT ![p] = <<>>]
  /\ UNCHANGED <<tries, listen, punched>>

\* "Incorrent peer ip": new_fd has no guard.
accept_bad_peer(p) ==
  /\ phase[p] = "accept" /\ backlog[p] # <<>>
  /\ phase' = [phase EXCEPT ![p] = "bad_peer"]
  /\ open' = [open EXCEPT ![p] = close_main(@) \cup {"new_fd"}]
  /\ alive' = alive \ Reset(accepted(backlog[p]))
  /\ backlog' = [backlog EXCEPT ![p] = <<>>]
  /\ UNCHANGED <<tries, listen, fd, punched>>

accept_fails(p) ==
  /\ phase[p] = "accept" /\ backlog[p] # <<>>
  /\ phase' = [phase EXCEPT ![p] = "sleep"]
  /\ alive' = alive \ {Head(backlog[p])}
  /\ backlog' = [backlog EXCEPT ![p] = accepted(@)]
  /\ UNCHANGED <<tries, listen, open, fd, punched>>

\* A loop that does not count.
MutTriesSame(n) == n

\* --connect_tries
next_tries(n) == (n - 1) % UINT_COUNT

\* sleep_sec() returns; the roles change; ~SocketGuard closes main_fd, which
\* resets what is still in its queue; while (--connect_tries).
end_round(p) ==
  /\ phase[p] = "sleep"
  /\ open' = [open EXCEPT ![p] = close_main(@)]
  /\ alive' = alive \ Reset(backlog[p])
  /\ backlog' = [backlog EXCEPT ![p] = <<>>]
  /\ listen' = [listen EXCEPT ![p] = ~@]
  /\ tries' = [tries EXCEPT ![p] = next_tries(@)]
  /\ phase' = [phase EXCEPT ![p] = IF next_tries(tries[p]) = 0 THEN "gave_up" ELSE "round"]
  /\ UNCHANGED <<fd, punched>>

Step(p) ==
  \/ start_listen(p) \/ start_connect(p) \/ bind_fails(p)
  \/ connected(p) \/ connect_failed(p)
  \/ accept_timeout(p) \/ accept_ok(p) \/ accept_bad_peer(p) \/ accept_fails(p)
  \/ end_round(p)

Next ==
  /\ \/ \E p \in Peers : Step(p) \/ stranger_connects(p)
     \/ simultaneous_open
  /\ UNCHANGED src_addr

Spec == Init /\ [][Next]_vars

\* connect(), accept4() and sleep all return; nobody has to connect to us.
FairSpec == Spec /\ \A p \in Peers : WF_vars(Step(p) /\ UNCHANGED src_addr)

------------------------------------------------------------------------------
\* Agreement: if both calls return a socket, the sockets are the two ends of
\* one connection that neither side has reset, although a listening socket goes
\* on completing handshakes between its accept4() timing out and the end of its
\* round (tcpv4.cc:86-107).
SameConnection ==
  (\A p \in Peers : phase[p] = "returned")
    => \E c \in alive : \A p \in Peers : fd[p] = c

\* Every socket a call opened is closed again when it ends with an exception,
\* but for the accepted one of the "Incorrent peer" exceptions
\* (tcpv4.cc:90-95), and a call that returns keeps one socket open.
SocketsClosed ==
  \A p \in Peers :
    /\ phase[p] = "returned" => Cardinality(open[p]) = 1
    /\ phase[p] \in {"bind_failed", "gave_up", "round"} => open[p] = {}
    /\ "main_fd" \in open[p] => phase[p] \in {"accept", "connect", "sleep", "returned"}

\* Termination: every call ends, also one with connect_count = 0, which makes
\* UINT_COUNT rounds (tcpv4.cc:112).
CallsEnd == <>(\A p \in Peers : phase[p] \in Ended)
==============================================================================
