--------------------------- MODULE RendezvousProofs ---------------------------
(***************************************************************************)
(* Proofs about how peers find and reach each other.  HolePunch, for any   *)
(* two peers, any settings, NATs, backlog and counter width: two calls     *)
(* that both return agree on one connection, and no socket is leaked but   *)
(* the one of an "Incorrent peer".  Tracker, for any peers, addresses and  *)
(* forwards: nothing outlives its peer, searches stay within their limits, *)
(* and the search around a registered address finds the closest ones.      *)
(***************************************************************************)
EXTENDS HolePunch, Sequential, FiniteSetTheorems, SequenceTheorems,
        WellFoundedInduction, TLAPS

------------------------------------------------------------------------------
(* The inductive invariant.                                                *)

Types ==
  /\ phase \in [Peers -> {"round", "accept", "connect", "sleep"} \cup Ended]
  /\ tries \in [Peers -> 0..UINT_COUNT - 1]
  /\ listen \in [Peers -> BOOLEAN]
  /\ open \in [Peers -> SUBSET {"main_fd", "new_fd"}]
  /\ backlog \in [Peers -> Seq(Connections)]
  /\ fd \in [Peers -> Connections \cup {"none"}]
  /\ alive \in SUBSET Connections
  /\ punched \in SUBSET Peers

\* Which sockets are open at each point of a call.
OpenByPhase ==
  \A p \in Peers :
    /\ phase[p] \in {"round", "bind_failed", "gave_up"} => open[p] = {}
    /\ phase[p] \in {"accept", "connect", "sleep"} => open[p] = {"main_fd"}
    /\ phase[p] = "bad_peer" => open[p] = {"new_fd"}
    /\ phase[p] = "returned" => open[p] \in {{"main_fd"}, {"new_fd"}}

\* Only a listening socket has a queue.  The other peer is at most once in it, and
\* then its connect() has returned this connection, which nobody has reset.
QueuedAt(p) ==
  /\ backlog[p] # <<>> => phase[p] \in {"accept", "sleep"}
  /\ \A i \in DOMAIN backlog[p] :
       /\ backlog[p][i] \in {Other(p), Stranger}
       /\ backlog[p][i] = Other(p) => fd[Other(p)] = Other(p) /\ Other(p) \in alive
  /\ \A i, j \in DOMAIN backlog[p] :
       backlog[p][i] = Other(p) /\ backlog[p][j] = Other(p) => i = j

Queued == \A p \in Peers : QueuedAt(p)

\* What a call that has returned says about the other: a simultaneous open has
\* both ends, an accepted connection was connected to, and of two connect() only
\* one meets a listening socket.
AgreedAt(p) ==
  /\ fd[p] # "none" <=> phase[p] = "returned"
  /\ fd[p] \in {"none", p, Other(p), Both}
  /\ fd[p] = Both => fd[Other(p)] = Both /\ Both \in alive
  /\ fd[p] = Other(p) => fd[Other(p)] = Other(p) /\ Other(p) \in alive
  /\ fd[p] = p => fd[Other(p)] # Other(p)

Agreed == \A p \in Peers : AgreedAt(p)

PunchInv == Types /\ OpenByPhase /\ Queued /\ Agreed

------------------------------------------------------------------------------
(* The two peers, and queues.                                              *)

LEMMA TwoPeers ==
  ASSUME NEW p \in Peers
  PROVE  /\ Other(p) \in Peers /\ Other(p) # p
         /\ Other(Other(p)) = p
         /\ \A q \in Peers : q = p \/ q = Other(p)
  <1>1. IsFiniteSet(Peers \ {p}) /\ Cardinality(Peers \ {p}) = 1
    BY PunchAssumption, FS_RemoveElement
  <1>2. PICK q : Peers \ {p} = {q}
    BY <1>1, FS_Singleton
  <1>3. Peers = {p, q} /\ p # q
    BY <1>2
  <1>4. Other(p) = q /\ Other(q) = p
    BY <1>3 DEF Other
  <1> QED
    BY <1>3, <1>4

LEMMA Names ==
  ASSUME NEW p \in Peers
  PROVE  /\ p # Both /\ p # Stranger /\ p # "none"
         /\ Both # Stranger /\ Both # "none" /\ Stranger # "none"
  BY PunchAssumption DEF Both, Stranger

\* accept4() takes the head of a queue; if that is the other peer, it is not in
\* what is left.
LEMMA QueueHead ==
  ASSUME Types, Queued, NEW p \in Peers, backlog[p] # <<>>
  PROVE  /\ Head(backlog[p]) = backlog[p][1] /\ 1 \in DOMAIN backlog[p]
         /\ Head(backlog[p]) \in Reset(backlog[p])
         /\ Reset(accepted(backlog[p])) \subseteq Reset(backlog[p])
         /\ Head(backlog[p]) = Other(p) => Other(p) \notin Reset(accepted(backlog[p]))
         /\ \A i \in DOMAIN accepted(backlog[p]) :
              /\ i \in Int /\ i + 1 \in DOMAIN backlog[p]
              /\ accepted(backlog[p])[i] = backlog[p][i + 1]
  <1> DEFINE queue == backlog[p]
  <1>1. queue \in Seq(Connections)
    BY DEF Types
  <1>2. Head(queue) = queue[1] /\ 1 \in DOMAIN queue
    BY <1>1
  <1>3. \A i \in DOMAIN Tail(queue) :
          i \in Int /\ i # 0 /\ i + 1 \in DOMAIN queue /\ Tail(queue)[i] = queue[i + 1]
    BY <1>1
  <1>4. \A i, j \in DOMAIN queue : queue[i] = Other(p) /\ queue[j] = Other(p) => i = j
    BY DEF Queued, QueuedAt
  <1> QED
    BY <1>2, <1>3, <1>4 DEF accepted, Reset

\* A peer is never in its own queue, and neither is a simultaneous open.
LEMMA NotQueued ==
  ASSUME Queued, NEW p \in Peers
  PROVE  p \notin Reset(backlog[p]) /\ Both \notin Reset(backlog[p])
  BY TwoPeers, Names DEF Queued, QueuedAt, Reset

------------------------------------------------------------------------------
(* PunchInv is inductive.                                                  *)

LEMMA InitPunchInv == Init => PunchInv
  <1> SUFFICES ASSUME Init PROVE PunchInv
    OBVIOUS
  <1>1. Types
    <2>1. tries \in [Peers -> 0..UINT_COUNT - 1]
      BY PunchAssumption DEF Init
    <2>2. backlog \in [Peers -> Seq(Connections)]
      BY DEF Init
    <2> QED
      BY <2>1, <2>2 DEF Init, Types
  <1>2. OpenByPhase /\ Queued
    BY DEF Init, OpenByPhase, Queued, QueuedAt
  <1>3. Agreed
    BY TwoPeers, Names DEF Init, Agreed, AgreedAt
  <1> QED
    BY <1>1, <1>2, <1>3 DEF PunchInv

LEMMA NextTypes == Types /\ Next => Types'
  <1> SUFFICES ASSUME Types, Next PROVE Types'
    OBVIOUS
  <1> USE DEF Types, Ended
  <1>1. ASSUME NEW p \in Peers, start_listen(p) PROVE Types'
    BY <1>1 DEF start_listen
  <1>2. ASSUME NEW p \in Peers, start_connect(p) PROVE Types'
    BY <1>2 DEF start_connect
  <1>3. ASSUME NEW p \in Peers, bind_fails(p) PROVE Types'
    BY <1>3 DEF bind_fails
  <1>4. ASSUME NEW p \in Peers, connected(p) PROVE Types'
    BY <1>4, TwoPeers DEF connected, Connections
  <1>5. ASSUME NEW p \in Peers, connect_failed(p) PROVE Types'
    BY <1>5 DEF connect_failed
  <1>6. ASSUME NEW p \in Peers, stranger_connects(p) PROVE Types'
    BY <1>6 DEF stranger_connects, Connections
  <1>7. ASSUME NEW p \in Peers, accept_timeout(p) PROVE Types'
    BY <1>7 DEF accept_timeout
  <1>8. ASSUME NEW p \in Peers, accept_ok(p) PROVE Types'
    <2>1. Head(backlog[p]) \in Connections
      BY <1>8 DEF accept_ok
    <2> QED
      BY <1>8, <2>1 DEF accept_ok, close_main
  <1>9. ASSUME NEW p \in Peers, accept_bad_peer(p) PROVE Types'
    BY <1>9 DEF accept_bad_peer, close_main
  <1>10. ASSUME NEW p \in Peers, accept_fails(p) PROVE Types'
    <2>1. accepted(backlog[p]) \in Seq(Connections)
      BY <1>10 DEF accept_fails, accepted
    <2> QED
      BY <1>10, <2>1 DEF accept_fails
  <1>11. ASSUME NEW p \in Peers, end_round(p) PROVE Types'
    <2>1. next_tries(tries[p]) \in 0..UINT_COUNT - 1
      BY PunchAssumption DEF next_tries
    <2> QED
      BY <1>11, <2>1 DEF end_round, close_main
  <1>12. ASSUME simultaneous_open PROVE Types'
    BY <1>12 DEF simultaneous_open, Connections
  <1> QED
    BY <1>1, <1>2, <1>3, <1>4, <1>5, <1>6, <1>7, <1>8, <1>9, <1>10, <1>11, <1>12
    DEF Next, Step

LEMMA NextOpenByPhase == Types /\ OpenByPhase /\ Next => OpenByPhase'
  <1> SUFFICES ASSUME Types, OpenByPhase, Next PROVE OpenByPhase'
    OBVIOUS
  <1> USE DEF Types, OpenByPhase, Ended
  <1>1. ASSUME NEW p \in Peers, start_listen(p) PROVE OpenByPhase'
    BY <1>1 DEF start_listen
  <1>2. ASSUME NEW p \in Peers, start_connect(p) PROVE OpenByPhase'
    BY <1>2 DEF start_connect
  <1>3. ASSUME NEW p \in Peers, bind_fails(p) PROVE OpenByPhase'
    BY <1>3 DEF bind_fails
  <1>4. ASSUME NEW p \in Peers, connected(p) PROVE OpenByPhase'
    BY <1>4 DEF connected
  <1>5. ASSUME NEW p \in Peers, connect_failed(p) PROVE OpenByPhase'
    BY <1>5 DEF connect_failed
  <1>6. ASSUME NEW p \in Peers, stranger_connects(p) PROVE OpenByPhase'
    BY <1>6 DEF stranger_connects
  <1>7. ASSUME NEW p \in Peers, accept_timeout(p) PROVE OpenByPhase'
    BY <1>7 DEF accept_timeout
  <1>8. ASSUME NEW p \in Peers, accept_ok(p) PROVE OpenByPhase'
    BY <1>8 DEF accept_ok, close_main
  <1>9. ASSUME NEW p \in Peers, accept_bad_peer(p) PROVE OpenByPhase'
    BY <1>9 DEF accept_bad_peer, close_main
  <1>10. ASSUME NEW p \in Peers, accept_fails(p) PROVE OpenByPhase'
    BY <1>10 DEF accept_fails
  <1>11. ASSUME NEW p \in Peers, end_round(p) PROVE OpenByPhase'
    BY <1>11 DEF end_round, close_main
  <1>12. ASSUME simultaneous_open PROVE OpenByPhase'
    BY <1>12 DEF simultaneous_open
  <1> QED
    BY <1>1, <1>2, <1>3, <1>4, <1>5, <1>6, <1>7, <1>8, <1>9, <1>10, <1>11, <1>12
    DEF Next, Step

LEMMA NextQueued == Types /\ Queued /\ Agreed /\ Next => Queued'
  <1> SUFFICES ASSUME Types, Queued, Agreed, Next PROVE Queued'
    OBVIOUS
  <1> USE DEF Types
  <1>1. ASSUME NEW p \in Peers, start_listen(p) PROVE Queued'
    BY <1>1 DEF start_listen, Queued, QueuedAt
  <1>2. ASSUME NEW p \in Peers, start_connect(p) PROVE Queued'
    BY <1>2 DEF start_connect, Queued, QueuedAt
  <1>3. ASSUME NEW p \in Peers, bind_fails(p) PROVE Queued'
    BY <1>3 DEF bind_fails, Queued, QueuedAt
  <1>4. ASSUME NEW p \in Peers, connected(p) PROVE Queued'
    <2> DEFINE q == Other(p)
    <2>1. q \in Peers /\ q # p /\ Other(q) = p /\ \A r \in Peers : r = p \/ r = q
      BY TwoPeers
    <2>2. \A i \in DOMAIN backlog[q] : backlog[q][i] # p
      BY <1>4, <2>1, Names DEF connected, Queued, QueuedAt, Agreed, AgreedAt
    <2>3. QueuedAt(q)'
      BY <1>4, <2>1, <2>2, Names DEF connected, Listening, Queued, QueuedAt
    <2>4. backlog[p] = <<>>
      BY <1>4 DEF connected, Queued, QueuedAt
    <2>5. QueuedAt(p)'
      BY <1>4, <2>1, <2>4 DEF connected, QueuedAt
    <2> QED
      BY <2>1, <2>3, <2>5 DEF Queued
  <1>5. ASSUME NEW p \in Peers, connect_failed(p) PROVE Queued'
    BY <1>5 DEF connect_failed, Queued, QueuedAt
  <1>6. ASSUME NEW p \in Peers, stranger_connects(p) PROVE Queued'
    BY <1>6, TwoPeers, Names DEF stranger_connects, Listening, Queued, QueuedAt
  <1>7. ASSUME NEW p \in Peers, accept_timeout(p) PROVE Queued'
    BY <1>7 DEF accept_timeout, Queued, QueuedAt
  <1>8. ASSUME NEW p \in Peers,
               accept_ok(p) \/ accept_bad_peer(p) \/ accept_fails(p) \/ end_round(p)
        PROVE  Queued'
    <2> DEFINE q == Other(p)
    <2>1. q \in Peers /\ q # p /\ Other(q) = p /\ \A r \in Peers : r = p \/ r = q
      BY TwoPeers
    <2>2. p \in alive => p \in alive'
      BY <1>8, QueueHead, NotQueued DEF accept_ok, accept_bad_peer, accept_fails, end_round
    <2>3. fd[p] = p => fd'[p] = p
      BY <1>8, Names DEF accept_ok, accept_bad_peer, accept_fails, end_round, Agreed, AgreedAt
    <2>4. QueuedAt(q)'
      BY <1>8, <2>1, <2>2, <2>3
         DEF accept_ok, accept_bad_peer, accept_fails, end_round, Queued, QueuedAt
    <2>5. QueuedAt(p)'
      <3>1. CASE accept_fails(p)
        <4>1. /\ backlog[p] # <<>> /\ phase'[p] = "sleep" /\ UNCHANGED fd
              /\ backlog'[p] = accepted(backlog[p]) /\ alive' = alive \ {Head(backlog[p])}
          BY <3>1 DEF accept_fails
        <4> QED
          BY <4>1, <2>1, QueueHead DEF Reset, Queued, QueuedAt
      <3>2. CASE ~accept_fails(p)
        <4>1. backlog'[p] = <<>>
          BY <1>8, <3>2 DEF accept_ok, accept_bad_peer, end_round
        <4> QED
          BY <4>1 DEF QueuedAt
      <3> QED
        BY <3>1, <3>2
    <2> QED
      BY <2>1, <2>4, <2>5 DEF Queued
  <1>9. ASSUME simultaneous_open PROVE Queued'
    <2>1. \A p \in Peers : backlog[p] = <<>>
      BY <1>9 DEF simultaneous_open, Queued, QueuedAt
    <2> QED
      BY <1>9, <2>1 DEF simultaneous_open, Queued, QueuedAt
  <1> QED
    BY <1>1, <1>2, <1>3, <1>4, <1>5, <1>6, <1>7, <1>8, <1>9 DEF Next, Step

LEMMA NextAgreed == Types /\ Queued /\ Agreed /\ Next => Agreed'
  <1> SUFFICES ASSUME Types, Queued, Agreed, Next PROVE Agreed'
    OBVIOUS
  <1> USE DEF Types, Agreed, AgreedAt
  <1>1. ASSUME NEW p \in Peers, start_listen(p) PROVE Agreed'
    BY <1>1 DEF start_listen
  <1>2. ASSUME NEW p \in Peers, start_connect(p) PROVE Agreed'
    BY <1>2 DEF start_connect
  <1>3. ASSUME NEW p \in Peers, bind_fails(p) PROVE Agreed'
    BY <1>3 DEF bind_fails
  <1>4. ASSUME NEW p \in Peers, connected(p) PROVE Agreed'
    BY <1>4, TwoPeers, Names DEF connected, Listening
  <1>5. ASSUME NEW p \in Peers, connect_failed(p) PROVE Agreed'
    BY <1>5 DEF connect_failed
  <1>6. ASSUME NEW p \in Peers, stranger_connects(p) PROVE Agreed'
    BY <1>6 DEF stranger_connects
  <1>7. ASSUME NEW p \in Peers, accept_timeout(p) PROVE Agreed'
    BY <1>7 DEF accept_timeout
  <1>8. ASSUME NEW p \in Peers, accept_ok(p) PROVE Agreed'
    <2> DEFINE q == Other(p)
    <2>1. q \in Peers /\ q # p /\ Other(q) = p /\ \A r \in Peers : r = p \/ r = q
      BY TwoPeers
    <2>2. Head(backlog[p]) = q /\ fd[q] = q /\ q \in alive
      BY <1>8, QueueHead DEF accept_ok, Queued, QueuedAt
    <2>3. q \in alive'
      BY <1>8, <2>2, QueueHead DEF accept_ok
    <2> QED
      BY <1>8, <2>1, <2>2, <2>3, Names DEF accept_ok
  <1>9. ASSUME NEW p \in Peers, accept_bad_peer(p) \/ accept_fails(p) \/ end_round(p)
        PROVE  Agreed'
    <2> DEFINE q == Other(p)
    <2>1. q \in Peers /\ q # p /\ Other(q) = p /\ \A r \in Peers : r = p \/ r = q
      BY TwoPeers
    <2>2. UNCHANGED fd /\ fd[p] = "none" /\ phase'[p] # "returned" /\ phase'[q] = phase[q]
      BY <1>9, <2>1 DEF accept_bad_peer, accept_fails, end_round
    <2>3. "none" \notin {p, q, Both}
      BY <2>1, Names
    <2>4. AgreedAt(p)' /\ AgreedAt(q)'
      BY <2>1, <2>2, <2>3
    <2> QED
      BY <2>1, <2>4
  <1>10. ASSUME simultaneous_open PROVE Agreed'
    BY <1>10, TwoPeers, Names DEF simultaneous_open
  <1> QED
    BY <1>1, <1>2, <1>3, <1>4, <1>5, <1>6, <1>7, <1>8, <1>9, <1>10 DEF Next, Step

------------------------------------------------------------------------------
\* A call's state stays what tcpv4.cc:75-115 can make of it.
THEOREM PunchInvariance == Spec => []PunchInv
  <1>1. Init => PunchInv
    BY InitPunchInv
  <1>2. PunchInv /\ [Next]_vars => PunchInv'
    <2>1. PunchInv /\ Next => PunchInv'
      BY NextTypes, NextOpenByPhase, NextQueued, NextAgreed DEF PunchInv
    <2>2. PunchInv /\ UNCHANGED vars => PunchInv'
      <3> SUFFICES ASSUME PunchInv, UNCHANGED vars PROVE PunchInv'
        OBVIOUS
      <3>1. Types'
        BY DEF PunchInv, Types, vars
      <3>2. OpenByPhase'
        BY DEF PunchInv, OpenByPhase, vars
      <3>3. Queued'
        BY DEF PunchInv, Queued, QueuedAt, vars
      <3>4. Agreed'
        BY DEF PunchInv, Agreed, AgreedAt, vars
      <3> QED
        BY <3>1, <3>2, <3>3, <3>4 DEF PunchInv
    <2> QED
      BY <2>1, <2>2
  <1> QED
    BY <1>1, <1>2, PTL DEF Spec

\* Agreement (tcpv4.cc:86-107), for any two peers, settings and NATs: if both calls
\* return, they return the two ends of one connection that nobody has reset.
THEOREM Agreement == Spec => []SameConnection
  <1>1. PunchInv => SameConnection
    <2> SUFFICES ASSUME PunchInv, \A p \in Peers : phase[p] = "returned"
                 PROVE  \E c \in alive : \A p \in Peers : fd[p] = c
      BY DEF SameConnection
    <2>1. PICK p \in Peers : TRUE
      BY PunchAssumption, FS_EmptySet
    <2> DEFINE q == Other(p)
    <2>2. q \in Peers /\ q # p /\ Other(q) = p /\ \A r \in Peers : r = p \/ r = q
      BY TwoPeers
    <2>3. AgreedAt(p) /\ AgreedAt(q)
      BY <2>2 DEF PunchInv, Agreed
    <2> QED
      BY <2>2, <2>3, Names DEF AgreedAt
  <1> QED
    BY <1>1, PunchInvariance, PTL

\* Sockets (tcpv4.cc:79-114 and socket.h:7-52), for any two peers and settings: a
\* call that ends with an exception leaves none open but an accepted one of an
\* "Incorrent peer", and one that returns leaves one.
THEOREM NoSocketLeak == Spec => []SocketsClosed
  <1>1. PunchInv => SocketsClosed
    <2> SUFFICES ASSUME PunchInv, NEW p \in Peers
                 PROVE  /\ phase[p] = "returned" => Cardinality(open[p]) = 1
                        /\ phase[p] \in {"bind_failed", "gave_up", "round"} => open[p] = {}
                        /\ "main_fd" \in open[p] =>
                             phase[p] \in {"accept", "connect", "sleep", "returned"}
      BY DEF SocketsClosed
    <2>1. phase[p] = "returned" => Cardinality(open[p]) = 1
      BY FS_Singleton DEF PunchInv, OpenByPhase
    <2> QED
      BY <2>1 DEF PunchInv, Types, OpenByPhase, Ended
  <1> QED
    BY <1>1, PunchInvariance, PTL

------------------------------------------------------------------------------
(* Tracker: remainders of address numbers.                                 *)

\* The quotient and the remainder.
LEMMA Division ==
  ASSUME NEW a \in Int, NEW m \in Nat \ {0}
  PROVE  /\ a % m \in 0..(m - 1) /\ a \div m \in Int
         /\ a = (m * (a \div m)) + (a % m)
  OBVIOUS

\* The remainder is unique.
LEMMA Remainder ==
  ASSUME NEW m \in Nat \ {0}, NEW q \in Int, NEW r \in 0..(m - 1),
         NEW a \in Int, a = (m * q) + r
  PROVE  a % m = r
  <1>1. PICK p \in Int, z \in 0..(m - 1) : z = a % m /\ a = (m * p) + z
    <2>1. /\ a % m \in 0..(m - 1) /\ a \div m \in Int
          /\ a = (m * (a \div m)) + (a % m)
      BY Division, Zenon
    <2> QED
      BY <2>1, Zenon
  <1>2. PICK x \in Int, y \in Int : x = m * p /\ y = m * q
    OBVIOUS
  <1>3. x + z = y + r
    BY <1>1, <1>2
  <1>4. ASSUME p >= q + 1 PROVE FALSE
    <2>1. m * (p - q) >= m
      BY <1>4
    <2>2. x - y >= m
      BY <2>1, <1>2
    <2> QED
      BY <2>2, <1>3
  <1>5. ASSUME q >= p + 1 PROVE FALSE
    <2>1. m * (q - p) >= m
      BY <1>5
    <2>2. y - x >= m
      BY <2>1, <1>2
    <2> QED
      BY <2>2, <1>3
  <1>6. p = q
    BY <1>4, <1>5
  <1> QED
    BY <1>1, <1>2, <1>3, <1>6

------------------------------------------------------------------------------
(* Tracker.                                                                *)

\* However registrations, removals and flushes follow each other, for any peers,
\* addresses and forwards, no index entry and no forward outlives its peer
\* (tracker.cc:16-29).
THEOREM TrackerNoStaleEntries == T!Spec => []NoStaleEntries
  <1>1. T!Init => T!NoStaleEntries
    BY DEF T!Init, T!NoStaleEntries
  <1>2. T!NoStaleEntries /\ [T!Next]_T!vars => T!NoStaleEntries'
    <2> SUFFICES ASSUME T!NoStaleEntries, [T!Next]_T!vars PROVE T!NoStaleEntries'
      OBVIOUS
    <2> USE DEF T!NoStaleEntries
    <2>1. ASSUME NEW id \in TrackedPeers, NEW ip \in T!Addresses, T!register_peer(id, ip)
          PROVE  T!NoStaleEntries'
      BY <2>1 DEF T!register_peer
    <2>2. ASSUME NEW id \in TrackedPeers, NEW f \in Forwards, T!register_forward(id, f)
          PROVE  T!NoStaleEntries'
      BY <2>2 DEF T!register_forward
    <2>3. ASSUME NEW id \in TrackedPeers, T!remove_peer(id) PROVE T!NoStaleEntries'
      BY <2>3 DEF T!remove_peer
    <2>4. ASSUME T!flush_removed_peers PROVE T!NoStaleEntries'
      BY <2>4 DEF T!flush_removed_peers
    <2>5. ASSUME UNCHANGED T!registry PROVE T!NoStaleEntries'
      BY <2>5 DEF T!registry
    <2>6. \/ \E id \in TrackedPeers :
               \/ \E ip \in T!Addresses : T!register_peer(id, ip)
               \/ \E f \in Forwards : T!register_forward(id, f)
               \/ T!remove_peer(id)
          \/ T!flush_removed_peers
          \/ UNCHANGED T!registry
      BY DEF T!Next, T!Registering, T!Searching, T!closest_step, T!below_step, T!above_step,
             T!forwards_step, T!return, T!find_ipv4_closest_peers, T!find_peers,
             T!find_forwards, T!vars, T!registry
    <2> QED
      BY <2>1, <2>2, <2>3, <2>4, <2>5, <2>6
  <1> QED
    BY <1>1, <1>2, PTL DEF T!Spec, NoStaleEntries

\* The instance's Cardinality is the one the library's theorems are about.
LEMMA SameCardinality == \A X : T!Cardinality(X) = Cardinality(X)
  BY Zenon DEF Cardinality, T!Cardinality, IsFiniteSet, T!IsFiniteSet

AtLeastOne(limit) == IF limit = 0 THEN 1 ELSE limit

\* A loop that tests its limit after each match exceeds it by one at most.
LEMMA TakenOfBound ==
  ASSUME NEW n \in Nat, NEW has \in Nat, NEW limit \in Int
  PROVE  /\ T!TakenOf(n, has, limit) \in Nat
         /\ limit >= 0 => \/ has + T!TakenOf(n, has, limit) <= AtLeastOne(limit)
                          \/ T!TakenOf(n, has, limit) <= 1
  BY DEF T!TakenOf, AtLeastOne

\* The shapes of a search, and how much each may hold so far.
Closest(found) ==
  \E ip, prev, next, entries, X : \E limit \in Int :
    /\ found = [call |-> "closest", ip |-> ip, limit |-> limit, result |-> entries,
                it_prev |-> prev, it_next |-> next]
    /\ entries \in Seq(X) /\ (limit >= 0 => Len(entries) <= limit)

PeersFound(found) ==
  \E peers : \E limit \in Int :
    /\ found = [call |-> "peers", limit |-> limit, result |-> peers]
    /\ limit >= 0 => Cardinality(peers) <= AtLeastOne(limit)

\* Each peer that has been looked at may have added one beyond the limit.
ForwardsFound(found) ==
  \E forwards, matches : \E limit \in Int, asked, remaining \in SUBSET TrackedPeers :
    /\ found = [call |-> "forwards", limit |-> limit, result |-> forwards,
                asked |-> asked, left |-> remaining, matches |-> matches]
    /\ IsFiniteSet(forwards) /\ remaining \subseteq asked
    /\ limit >= 0 =>
         Cardinality(forwards) + 1 <=
           AtLeastOne(limit) + (Cardinality(asked) - Cardinality(remaining))

SearchInv ==
  /\ IsFiniteSet(conn_forward_info) /\ tracker_peer_info \subseteq TrackedPeers
  /\ \/ search = [call |-> "none"] \/ search = [call |-> "crashed"]
     \/ Closest(search) \/ PeersFound(search) \/ ForwardsFound(search)

\* One entry more, as a search for the closest takes it.
LEMMA ClosestGrows ==
  ASSUME NEW found, Closest(found), NEW next,
         NEW a, NEW it,
         found.limit < 0 \/ Len(found.result) < found.limit,
         NEW res, res = found.result \/ res = Append(found.result, a),
         \/ next = [found EXCEPT !.it_prev = it, !.result = res]
         \/ next = [found EXCEPT !.it_next = it, !.result = res]
         \/ next = [found EXCEPT !.it_prev = it] /\ res = found.result
  PROVE  Closest(next)
  <1>1. PICK ip, prev, nxt, entries, X : \E limit \in Int :
          /\ found = [call |-> "closest", ip |-> ip, limit |-> limit, result |-> entries,
                      it_prev |-> prev, it_next |-> nxt]
          /\ entries \in Seq(X) /\ (limit >= 0 => Len(entries) <= limit)
    BY DEF Closest
  <1>2. PICK limit \in Int :
          /\ found = [call |-> "closest", ip |-> ip, limit |-> limit, result |-> entries,
                      it_prev |-> prev, it_next |-> nxt]
          /\ entries \in Seq(X) /\ (limit >= 0 => Len(entries) <= limit)
    BY <1>1
  <1>3. found.limit = limit /\ found.result = entries
    BY <1>2
  <1>4. PICK U : U = X \cup {a}
    OBVIOUS
  <1>5. entries \in Seq(U) /\ a \in U /\ Len(entries) \in Nat
    BY <1>2, <1>4
  <1>6. res \in Seq(U) /\ (limit >= 0 => Len(res) <= limit)
    <2>1. CASE res = entries
      BY <1>2, <1>5, <2>1
    <2>2. CASE res = Append(entries, a)
      <3>1. res \in Seq(U) /\ Len(res) = Len(entries) + 1
        BY <1>5, <2>2
      <3>2. limit < 0 \/ Len(entries) < limit
        BY <1>3
      <3> QED
        BY <1>5, <3>1, <3>2
    <2> QED
      BY <1>3, <2>1, <2>2
  <1>7. \/ next = [call |-> "closest", ip |-> ip, limit |-> limit, result |-> res,
                   it_prev |-> it, it_next |-> nxt]
        \/ next = [call |-> "closest", ip |-> ip, limit |-> limit, result |-> res,
                   it_prev |-> prev, it_next |-> it]
    BY <1>2
  <1> QED
    BY <1>6, <1>7 DEF Closest

\* For finitely many peers, any forwards and any limits: how far the answer of a
\* search exceeds its limit, at every step of its loops (tracker.cc:31-109).
THEOREM TrackerAnswersBounded ==
  ASSUME IsFiniteSet(TrackedPeers), Limits \subseteq Int
  PROVE  T!Spec => []AnswersBounded
  <1>1. T!Init => SearchInv
    BY FS_EmptySet DEF T!Init, T!NoSearch, SearchInv
  <1>2. SearchInv /\ [T!Next]_T!vars => SearchInv'
    <2>1. SUFFICES ASSUME SearchInv, [T!Next]_T!vars PROVE SearchInv'
      OBVIOUS
    <2>2. ASSUME T!Registering PROVE SearchInv'
      <3>1. search' = search
        BY <2>2 DEF T!Registering, T!register_peer, T!register_forward, T!remove_peer,
             T!flush_removed_peers
      <3>2. tracker_peer_info' \subseteq TrackedPeers
        BY <2>1, <2>2 DEF T!Registering, T!register_peer, T!register_forward, T!remove_peer,
             T!flush_removed_peers, SearchInv
      <3>3. \/ \E e : conn_forward_info' = conn_forward_info \cup {e}
            \/ conn_forward_info' \subseteq conn_forward_info
        BY <2>2 DEF T!Registering, T!register_peer, T!register_forward, T!remove_peer,
             T!flush_removed_peers
      <3>4. IsFiniteSet(conn_forward_info')
        BY <2>1, <3>3, FS_AddElement, FS_Subset DEF SearchInv
      <3> QED
        BY <2>1, <3>1, <3>2, <3>4 DEF SearchInv
    <2>3. ASSUME T!closest_step \/ T!below_step \/ T!above_step PROVE SearchInv'
      <3>1. UNCHANGED T!registry /\ search.call = "closest" /\ T!WantsMore
        BY <2>3 DEF T!closest_step, T!below_step, T!above_step
      <3>2. Closest(search) /\ (search.limit < 0 \/ Len(search.result) < search.limit)
        BY <2>1, <3>1 DEF SearchInv, PeersFound, ForwardsFound, T!WantsMore
      <3>3. \/ T!take_prev \/ T!take_next \/ search' = [search EXCEPT !.it_prev = @ - 1]
            \/ search' = [call |-> "crashed"]
        BY <2>3, Zenon DEF T!closest_step, T!below_step, T!above_step
      <3>4. CASE T!take_prev
        <4>1. PICK a, res, it, next :
                /\ res = search.result \/ res = Append(search.result, a) 
                /\ next = search' /\ next = [search EXCEPT !.it_prev = it, !.result = res]
          BY <3>4 DEF T!take_prev, T!Found
        <4>2. Closest(next)
          BY <3>2, <4>1, ClosestGrows
        <4> QED
          BY <2>1, <3>1, <4>1, <4>2 DEF SearchInv, T!registry
      <3>5. CASE T!take_next
        <4>1. PICK a, res, it, next :
                /\ res = search.result \/ res = Append(search.result, a)
                /\ next = search' /\ next = [search EXCEPT !.it_next = it, !.result = res]
          BY <3>5 DEF T!take_next, T!Found
        <4>2. Closest(next)
          BY <3>2, <4>1, ClosestGrows
        <4> QED
          BY <2>1, <3>1, <4>1, <4>2 DEF SearchInv, T!registry
      <3>6. CASE search' = [search EXCEPT !.it_prev = @ - 1]
        <4>1. PICK res, it, next :
                /\ res = search.result
                /\ next = search' /\ next = [search EXCEPT !.it_prev = it]
          BY <3>6
        <4>2. Closest(next)
          BY <3>2, <4>1, ClosestGrows
        <4> QED
          BY <2>1, <3>1, <4>1, <4>2 DEF SearchInv, T!registry
      <3>7. CASE search' = [call |-> "crashed"]
        BY <2>1, <3>1, <3>7 DEF SearchInv, T!registry
      <3> QED
        BY <3>3, <3>4, <3>5, <3>6, <3>7
    <2>4. ASSUME NEW id \in TrackedPeers, search.call = "forwards", T!forwards_step(id) PROVE SearchInv'
      <3> DEFINE mine == {c \in conn_forward_info : c[1] = id /\ c[2] \in search.matches}
      <3>1. ForwardsFound(search)
        BY <2>1, <2>4 DEF SearchInv, Closest, PeersFound
      <3>2. PICK forwards, matches : \E limit \in Int, asked, remaining \in SUBSET TrackedPeers :
                /\ search = [call |-> "forwards", limit |-> limit, result |-> forwards,
                             asked |-> asked, left |-> remaining, matches |-> matches]
                /\ IsFiniteSet(forwards) /\ remaining \subseteq asked
                /\ limit >= 0 =>
                     Cardinality(forwards) + 1 <=
                       AtLeastOne(limit) + (Cardinality(asked) - Cardinality(remaining))
        BY <3>1 DEF ForwardsFound
      <3>3. PICK limit \in Int, asked, remaining \in SUBSET TrackedPeers :
              /\ search = [call |-> "forwards", limit |-> limit, result |-> forwards,
                           asked |-> asked, left |-> remaining, matches |-> matches]
              /\ IsFiniteSet(forwards) /\ remaining \subseteq asked
              /\ limit >= 0 =>
                   Cardinality(forwards) + 1 <=
                     AtLeastOne(limit) + (Cardinality(asked) - Cardinality(remaining))
        BY <3>2
      <3>4. /\ search.left = remaining /\ search.result = forwards /\ search.limit = limit
        BY <3>3
      <3>5. PICK found \in SUBSET mine :
              /\ T!Cardinality(found) =
                   T!TakenOf(T!Cardinality(mine), T!Cardinality(search.result), search.limit)
              /\ search' = [search EXCEPT !.left = @ \ {id}, !.result = @ \cup found]
        BY <2>4 DEF T!forwards_step
      <3>6. id \in remaining /\ UNCHANGED T!registry
        BY <2>4, <3>4 DEF T!forwards_step
      <3>7. IsFiniteSet(mine) /\ IsFiniteSet(found)
        BY <2>1, FS_Subset DEF SearchInv
      <3> HIDE DEF mine
      <3>8. Cardinality(found) = T!TakenOf(Cardinality(mine), Cardinality(forwards), limit)
        BY <3>4, <3>5, SameCardinality
      <3>9. PICK n \in Nat, has \in Nat, taken \in Nat :
              /\ n = Cardinality(mine) /\ has = Cardinality(forwards) /\ taken = Cardinality(found)
              /\ taken = T!TakenOf(n, has, limit)
        BY <3>3, <3>7, <3>8, FS_CardinalityType
      <3>10. IsFiniteSet(forwards \cup found) /\ Cardinality(forwards \cup found) <= has + taken
             /\ Cardinality(forwards \cup found) \in Nat
        <4>1. IsFiniteSet(forwards \cup found) /\ IsFiniteSet(forwards \cap found)
          BY <3>3, <3>7, FS_Union, FS_Intersection
        <4>2. /\ Cardinality(forwards \cup found) =
                   Cardinality(forwards) + Cardinality(found) - Cardinality(forwards \cap found)
          BY <3>3, <3>7, FS_Union
        <4>3. Cardinality(forwards \cap found) \in Nat /\ Cardinality(forwards \cup found) \in Nat
          BY <4>1, FS_CardinalityType
        <4> QED
          BY <3>9, <4>1, <4>2, <4>3
      <3>11. PICK x \in Nat, y \in Nat : /\ x = Cardinality(asked) /\ y = Cardinality(remaining)
                                         /\ y <= x /\ Cardinality(remaining \ {id}) = y - 1
        <4>1. IsFiniteSet(asked) /\ IsFiniteSet(remaining)
          BY FS_Subset
        <4>2. Cardinality(remaining) <= Cardinality(asked)
          BY <3>3, <4>1, FS_Subset
        <4>3. Cardinality(remaining \ {id}) = Cardinality(remaining) - 1
          BY <3>6, <4>1, FS_RemoveElement
        <4> QED
          BY <4>1, <4>2, <4>3, FS_CardinalityType
      <3>12. limit >= 0 => Cardinality(forwards \cup found) + 1 <=
                             AtLeastOne(limit) + (x - (y - 1))
        <4>1. SUFFICES ASSUME limit >= 0
                       PROVE  Cardinality(forwards \cup found) + 1 <=
                                AtLeastOne(limit) + (x - (y - 1))
          OBVIOUS
        <4>2. has + taken <= AtLeastOne(limit) \/ taken <= 1
          BY <3>9, <4>1, TakenOfBound
        <4>3. has + 1 <= AtLeastOne(limit) + (x - y)
          BY <3>3, <3>9, <3>11, <4>1
        <4>4. AtLeastOne(limit) \in Nat
          BY <4>1 DEF AtLeastOne
        <4> QED
          BY <3>10, <3>11, <4>2, <4>3, <4>4
      <3>13. search' = [call |-> "forwards", limit |-> limit, result |-> forwards \cup found,
                        asked |-> asked, left |-> remaining \ {id}, matches |-> matches]
        BY <3>3, <3>5
      <3>14. remaining \ {id} \in SUBSET TrackedPeers /\ remaining \ {id} \subseteq asked
        BY <3>3
      <3>15. PICK next, both, rest :
               next = search' /\ both = forwards \cup found /\ rest = remaining \ {id}
        OBVIOUS
      <3>16. ForwardsFound(next)
        BY <3>10, <3>11, <3>12, <3>13, <3>14, <3>15 DEF ForwardsFound
      <3> QED
        BY <2>1, <3>6, <3>15, <3>16 DEF SearchInv, T!registry
    <2>5. ASSUME T!return PROVE SearchInv'
      BY <2>1, <2>5 DEF T!return, T!registry, T!NoSearch, SearchInv
    <2>6. ASSUME NEW limit \in Limits, NEW ip \in T!Addresses,
                 T!find_ipv4_closest_peers(ip, limit)
          PROVE  SearchInv'
      <3>1. PICK next, prev, after :
              /\ next = search' /\ UNCHANGED T!registry
              /\ next = [call |-> "closest", ip |-> ip, limit |-> limit, result |-> <<>>,
                         it_prev |-> prev, it_next |-> after]
        BY <2>6 DEF T!find_ipv4_closest_peers
      <3>2. limit \in Int /\ <<>> \in Seq({}) /\ Len(<<>>) = 0
        OBVIOUS
      <3>3. Closest(next)
        BY <3>1, <3>2 DEF Closest
      <3> QED
        BY <2>1, <3>1, <3>3 DEF SearchInv, T!registry
    <2>7. ASSUME NEW limit \in Limits, NEW matches, T!find_peers(matches, limit)
          PROVE  SearchInv'
      <3>1. PICK found \in SUBSET (tracker_peer_info \cap matches) :
              /\ T!Cardinality(found) =
                   T!TakenOf(T!Cardinality(tracker_peer_info \cap matches), 0, limit)
              /\ search' = [call |-> "peers", limit |-> limit, result |-> found]
        BY <2>7 DEF T!find_peers
      <3>2. IsFiniteSet(tracker_peer_info \cap matches)
        BY <2>1, FS_Subset DEF SearchInv
      <3>3. PICK n \in Nat : n = Cardinality(tracker_peer_info \cap matches)
        BY <3>2, FS_CardinalityType
      <3>4. Cardinality(found) = T!TakenOf(n, 0, limit) /\ limit \in Int
        BY <3>1, <3>3, SameCardinality
      <3>5. PICK taken \in Nat : /\ taken = Cardinality(found)
                                 /\ limit >= 0 => 0 + taken <= AtLeastOne(limit) \/ taken <= 1
        BY <3>4, TakenOfBound, 0 \in Nat
      <3>6. limit >= 0 => Cardinality(found) <= AtLeastOne(limit)
        BY <3>4, <3>5 DEF AtLeastOne
      <3>7. PICK next : next = search'
        OBVIOUS
      <3>8. PeersFound(next)
        BY <3>1, <3>4, <3>6, <3>7 DEF PeersFound
      <3> QED
        BY <2>1, <2>7, <3>7, <3>8 DEF SearchInv, T!registry, T!find_peers
    <2>8. ASSUME NEW limit \in Limits, NEW ids \in SUBSET TrackedPeers, NEW matches,
                 T!find_forwards(ids, matches, limit)
          PROVE  SearchInv'
      <3>1. PICK next :
              /\ next = search' /\ UNCHANGED T!registry
              /\ next = [call |-> "forwards", limit |-> limit, result |-> {},
                         asked |-> ids, left |-> ids, matches |-> matches]
        BY <2>8 DEF T!find_forwards
      <3>2. /\ limit \in Int /\ IsFiniteSet({}) /\ Cardinality({}) = 0
            /\ Cardinality(ids) \in Nat
        BY FS_EmptySet, FS_Subset, FS_CardinalityType
      <3>3. limit >= 0 => Cardinality({}) + 1 <=
                            AtLeastOne(limit) + (Cardinality(ids) - Cardinality(ids))
        BY <3>2 DEF AtLeastOne
      <3>4. ForwardsFound(next)
        BY <3>1, <3>2, <3>3 DEF ForwardsFound
      <3> QED
        BY <2>1, <3>1, <3>4 DEF SearchInv, T!registry
    <2>9. CASE UNCHANGED T!vars
      BY <2>1, <2>9 DEF T!vars, SearchInv
    <2> QED
      BY <2>1, <2>2, <2>3, <2>4, <2>5, <2>6, <2>7, <2>8, <2>9 DEF T!Next, T!Searching
  <1>3. SearchInv => T!AnswersBounded
    <2>1. SUFFICES ASSUME SearchInv PROVE T!AnswersBounded
      OBVIOUS
    <2>2. CASE search = [call |-> "none"] \/ search = [call |-> "crashed"]
      BY <2>2 DEF T!AnswersBounded
    <2>3. CASE Closest(search)
      BY <2>3 DEF T!AnswersBounded, Closest
    <2>4. CASE PeersFound(search)
      BY <2>4, SameCardinality DEF T!AnswersBounded, PeersFound, AtLeastOne
    <2>5. CASE ForwardsFound(search)
      <3>1. PICK forwards, matches : \E limit \in Int, asked, remaining \in SUBSET TrackedPeers :
                /\ search = [call |-> "forwards", limit |-> limit, result |-> forwards,
                             asked |-> asked, left |-> remaining, matches |-> matches]
                /\ IsFiniteSet(forwards) /\ remaining \subseteq asked
                /\ limit >= 0 =>
                     Cardinality(forwards) + 1 <=
                       AtLeastOne(limit) + (Cardinality(asked) - Cardinality(remaining))
        BY <2>5 DEF ForwardsFound
      <3>2. PICK limit \in Int, asked, remaining \in SUBSET TrackedPeers :
              /\ search = [call |-> "forwards", limit |-> limit, result |-> forwards,
                           asked |-> asked, left |-> remaining, matches |-> matches]
              /\ IsFiniteSet(forwards) /\ remaining \subseteq asked
              /\ limit >= 0 =>
                   Cardinality(forwards) + 1 <=
                     AtLeastOne(limit) + (Cardinality(asked) - Cardinality(remaining))
        BY <3>1
      <3>3. PICK x \in Nat, y \in Nat, z \in Nat :
              x = Cardinality(asked) /\ y = Cardinality(remaining) /\ z = Cardinality(forwards)
        BY <3>2, FS_Subset, FS_CardinalityType
      <3>4. limit >= 0 => z <= AtLeastOne(limit) + x - 1
        BY <3>2, <3>3 DEF AtLeastOne
      <3>5. /\ search.call = "forwards" /\ search.limit = limit
            /\ T!Cardinality(search.result) = z /\ T!Cardinality(search.asked) = x
        BY <3>2, <3>3, SameCardinality
      <3> QED
        BY <3>4, <3>5 DEF T!AnswersBounded, AtLeastOne
    <2> QED
      BY <2>1, <2>2, <2>3, <2>4, <2>5 DEF SearchInv
  <1> QED
    BY <1>1, <1>2, <1>3, PTL DEF T!Spec, AnswersBounded

\* The position of an address among those of d: an iterator.
Pos(d, a) == 1 + Cardinality({b \in d : b < a})

\* Positions are those from begin() on, in the order of the addresses.
LEMMA PosType ==
  ASSUME NEW d \in SUBSET Int, IsFiniteSet(d), NEW a \in d
  PROVE  Pos(d, a) \in Nat /\ 1 <= Pos(d, a) /\ Pos(d, a) <= Cardinality(d)
  <1>1. PICK below : below = {b \in d : b < a}
    OBVIOUS
  <1>2. below \in SUBSET d /\ a \notin below
    BY <1>1
  <1>3. /\ Cardinality(d) \in Nat /\ Cardinality(below) \in Nat
        /\ Cardinality(below) <= Cardinality(d) /\ Cardinality(below) # Cardinality(d)
    BY <1>2, FS_Subset, FS_CardinalityType
  <1> QED
    BY <1>1, <1>3 DEF Pos

\* A greater address has a greater position.
LEMMA PosOrder ==
  ASSUME NEW d \in SUBSET Int, IsFiniteSet(d), NEW a \in d, NEW b \in d, a < b
  PROVE  Pos(d, a) < Pos(d, b)
  <1>1. PICK x, y : x = {c \in d : c < a} /\ y = {c \in d : c < b}
    OBVIOUS
  <1>2. x \in SUBSET y /\ y \in SUBSET d /\ a \in y /\ a \notin x
    <2>1. \A c \in d : c \in Int /\ (c < a => c < b)
      OBVIOUS
    <2>2. a \in Int /\ ~(a < a)
      OBVIOUS
    <2> QED
      BY <1>1, <2>1, <2>2
  <1>3. IsFiniteSet(y)
    BY <1>2, FS_Subset
  <1>4. /\ Cardinality(x) \in Nat /\ Cardinality(y) \in Nat
        /\ Cardinality(x) <= Cardinality(y) /\ Cardinality(x) # Cardinality(y)
    BY <1>2, <1>3, FS_Subset, FS_CardinalityType
  <1> QED
    BY <1>1, <1>4 DEF Pos

\* Positions order the addresses, and only one address has a position.
LEMMA PosReflects ==
  ASSUME NEW d \in SUBSET Int, IsFiniteSet(d), NEW a \in d, NEW b \in d
  PROVE  /\ Pos(d, a) < Pos(d, b) => a < b
         /\ Pos(d, a) = Pos(d, b) => a = b
  <1>1. a \in Int /\ b \in Int /\ Pos(d, a) \in Nat /\ Pos(d, b) \in Nat
    BY PosType
  <1>2. a < b => Pos(d, a) < Pos(d, b)
    BY PosOrder
  <1>3. b < a => Pos(d, b) < Pos(d, a)
    BY PosOrder
  <1> QED
    BY <1>1, <1>2, <1>3

\* Every position up to the last has an address.
LEMMA PosOnto ==
  ASSUME NEW d \in SUBSET Int, IsFiniteSet(d), NEW k \in 1..Cardinality(d)
  PROVE  \E a \in d : Pos(d, a) = k
  <1>1. PICK n \in Nat : n = Cardinality(d)
    BY FS_CardinalityType
  <1>2. PICK f : f = [a \in d |-> Pos(d, a)]
    OBVIOUS
  <1>3. f \in [d -> 1..n]
    BY <1>1, <1>2, PosType
  <1>4. \A a, b \in d : f[a] = f[b] => a = b
    BY <1>2, PosReflects
  <1>5. f \in Injection(d, 1..n)
    BY <1>3, <1>4 DEF Injection, IsInjective
  <1>6. IsFiniteSet(1..n) /\ Cardinality(1..n) = n
    BY FS_Interval
  <1>7. f \in Surjection(d, 1..n)
    BY <1>1, <1>5, <1>6, FS_Injection
  <1>8. \E a \in d : f[a] = k
    BY <1>1, <1>7 DEF Surjection
  <1> QED
    BY <1>2, <1>8

\* An iterator's address.
LEMMA KeyAt ==
  ASSUME NEW d \in SUBSET Int, IsFiniteSet(d), d = DOMAIN IPv4_peer_idx,
         NEW k \in 1..Cardinality(d)
  PROVE  T!key(k) \in d /\ Pos(d, T!key(k)) = k
  <1>1. PICK a \in d : Pos(d, a) = k
    BY PosOnto
  <1>2. \A b \in d : Cardinality({c \in d : c < b}) \in Nat
    <2> TAKE b \in d
    <2>1. {c \in d : c < b} \in SUBSET d
      OBVIOUS
    <2> QED
      BY <2>1, FS_Subset, FS_CardinalityType
  <1>3. \A b \in d : T!Cardinality({c \in d : c < b}) = k - 1 <=> Pos(d, b) = k
    BY <1>2, SameCardinality DEF Pos
  <1>4. \E b \in d : T!Cardinality({c \in d : c < b}) = k - 1
    BY <1>1, <1>3
  <1>5. T!key(k) \in d /\ T!Cardinality({c \in d : c < T!key(k)}) = k - 1
    BY <1>4, Zenon DEF T!key
  <1> QED
    BY <1>3, <1>5

\* What is not looked at yet: the loops stop before the first position.
Unseen(d, prev, next) ==
  {a \in d : (Pos(d, a) <= prev /\ Pos(d, a) # 1) \/ Pos(d, a) >= next}

Dist(ip, a) == IF a < ip THEN ip - a ELSE a - ip

\* A search around an address of the index has found, nearest first, what lies
\* between its two iterators, and nothing nearer is left.
Walked(d, ip, r, prev, next) ==
  /\ ip \in d /\ prev \in Nat \ {0} /\ next \in Nat
  /\ prev <= Pos(d, ip) /\ Pos(d, ip) < next /\ next <= Cardinality(d) + 1
  /\ r \in Seq(d)
  /\ \A i \in DOMAIN r : prev < Pos(d, r[i]) /\ Pos(d, r[i]) < next
  /\ \A a \in d : prev < Pos(d, a) /\ Pos(d, a) < next => \E i \in DOMAIN r : r[i] = a
  /\ \A i, j \in DOMAIN r : i < j => r[i] # r[j] /\ Dist(ip, r[i]) <= Dist(ip, r[j])
  /\ \A i \in DOMAIN r, a \in Unseen(d, prev, next) : Dist(ip, r[i]) <= Dist(ip, a)

\* One more address, the nearest that is left.
LEMMA WalkOn ==
  ASSUME NEW d \in SUBSET Int, IsFiniteSet(d), NEW ip, NEW r, NEW prev, NEW next,
         Walked(d, ip, r, prev, next),
         NEW k \in Unseen(d, prev, next), NEW p \in Nat \ {0}, NEW q \in Nat,
         \/ Pos(d, k) = prev /\ p = prev - 1 /\ q = next
         \/ Pos(d, k) = next /\ p = prev /\ q = next + 1,
         \A a \in Unseen(d, p, q) : Dist(ip, k) <= Dist(ip, a)
  PROVE  Walked(d, ip, Append(r, k), p, q)
  <1>1. k \in d /\ \A a \in d : Pos(d, a) \in Nat /\ 1 <= Pos(d, a) /\ Pos(d, a) <= Cardinality(d)
    BY PosType DEF Unseen
  <1>2. PICK s \in Seq(d), n \in Nat :
          s = r /\ n = Len(s) /\ DOMAIN s = 1..n
    BY DEF Walked
  <1>3. PICK u : u = Append(s, k)
    OBVIOUS
  <1>4. /\ u \in Seq(d) /\ Len(u) = n + 1 /\ u[n + 1] = k /\ \A i \in 1..n : u[i] = s[i]
    BY <1>1, <1>2, <1>3
  <1>5. DOMAIN u = 1..(n + 1)
    BY <1>4
  <1>6. \A i \in DOMAIN u : i \in 1..n \/ i = n + 1
    BY <1>5
  <1>7. /\ ip \in d /\ prev \in Nat \ {0} /\ next \in Nat /\ Cardinality(d) \in Nat
        /\ prev <= Pos(d, ip) /\ Pos(d, ip) < next /\ next <= Cardinality(d) + 1
        /\ Pos(d, ip) \in Nat
    BY <1>1, FS_CardinalityType DEF Walked
  <1>8. p <= prev /\ next <= q /\ q <= Cardinality(d) + 1
    BY <1>1, <1>7
  <1>9. p < Pos(d, k) /\ Pos(d, k) < q
    BY <1>7
  <1>10. \A i \in 1..n : s[i] \in d /\ prev < Pos(d, s[i]) /\ Pos(d, s[i]) < next
    BY <1>2 DEF Walked
  <1>11. \A i \in DOMAIN u : p < Pos(d, u[i]) /\ Pos(d, u[i]) < q
    <2> TAKE i \in DOMAIN u
    <2>1. CASE i \in 1..n
      <3>1. u[i] \in d /\ prev < Pos(d, u[i]) /\ Pos(d, u[i]) < next
        BY <1>4, <1>10, <2>1
      <3>2. Pos(d, u[i]) \in Nat
        BY <1>1, <3>1
      <3> QED
        BY <1>7, <1>8, <3>1, <3>2
    <2>2. CASE i = n + 1
      BY <1>4, <1>9, <2>2
    <2> QED
      BY <1>6, <2>1, <2>2
  <1>12. ASSUME NEW a \in d, p < Pos(d, a), Pos(d, a) < q PROVE \E i \in DOMAIN u : u[i] = a
    <2>1. CASE Pos(d, a) = Pos(d, k)
      <3>1. a = k
        BY <1>1, <2>1, PosReflects
      <3> QED
        BY <1>4, <1>5, <3>1
    <2>2. CASE Pos(d, a) # Pos(d, k)
      <3>1. prev < Pos(d, a) /\ Pos(d, a) < next
        BY <1>1, <1>7, <1>12, <2>2
      <3>2. PICK i \in 1..n : s[i] = a
        BY <1>2, <3>1 DEF Walked
      <3> QED
        BY <1>4, <1>5, <3>2
    <2> QED
      BY <2>1, <2>2
  <1>13. ASSUME NEW i \in DOMAIN u, NEW j \in DOMAIN u, i < j
         PROVE  u[i] # u[j] /\ Dist(ip, u[i]) <= Dist(ip, u[j])
    <2>1. i \in 1..n /\ u[i] = s[i]
      BY <1>4, <1>5, <1>13
    <2>2. CASE j \in 1..n
      BY <1>2, <1>4, <1>13, <2>1, <2>2 DEF Walked
    <2>3. CASE j = n + 1
      <3>1. Dist(ip, s[i]) <= Dist(ip, k)
        BY <1>2, <2>1 DEF Walked
      <3>2. s[i] # k
        BY <1>1, <1>7, <1>10, <2>1
      <3> QED
        BY <1>4, <2>1, <2>3, <3>1, <3>2
    <2> QED
      BY <1>6, <2>2, <2>3
  <1>14. ASSUME NEW i \in DOMAIN u, NEW a \in Unseen(d, p, q) PROVE Dist(ip, u[i]) <= Dist(ip, a)
    <2>1. a \in Unseen(d, prev, next)
      BY <1>1, <1>7, <1>8 DEF Unseen
    <2>2. CASE i \in 1..n
      BY <1>2, <1>4, <2>1, <2>2 DEF Walked
    <2>3. CASE i = n + 1
      BY <1>4, <2>3
    <2> QED
      BY <1>6, <2>2, <2>3
  <1>15. p <= Pos(d, ip) /\ Pos(d, ip) < q
    BY <1>7, <1>8
  <1>16. Walked(d, ip, u, p, q)
    BY <1>4, <1>7, <1>8, <1>11, <1>12, <1>13, <1>14, <1>15 DEF Walked
  <1> QED
    BY <1>2, <1>3, <1>16

\* A search as find_ipv4_closest_peers() holds it, over the addresses of d.
Walk(found, d) ==
  \E ip, limit, r, prev, next :
    /\ found = [call |-> "closest", ip |-> ip, limit |-> limit, result |-> r,
                it_prev |-> prev, it_next |-> next]
    /\ ip \in d => Walked(d, ip, r, prev, next)

\* Every search by address is such a walk over the index.  A search for forwards is
\* a record, so its steps leave it one for forwards.
WalkInv ==
  /\ DOMAIN IPv4_peer_idx \subseteq T!Addresses
  /\ search.call = "closest" => Walk(search, DOMAIN IPv4_peer_idx)
  /\ search.call = "forwards" =>
       \E limit, r, asked, remaining, matches :
         search = [call |-> "forwards", limit |-> limit, result |-> r,
                   asked |-> asked, left |-> remaining, matches |-> matches]

\* The index has finitely many addresses.
LEMMA IndexFinite ==
  ASSUME IpCount \in Nat, WalkInv
  PROVE  /\ DOMAIN IPv4_peer_idx \in SUBSET Int /\ IsFiniteSet(DOMAIN IPv4_peer_idx)
         /\ \A a \in DOMAIN IPv4_peer_idx : a \in 0..(IpCount - 1)
  <1>1. IsFiniteSet(0..(IpCount - 1))
    BY FS_Interval
  <1>2. DOMAIN IPv4_peer_idx \in SUBSET (0..(IpCount - 1))
    BY DEF WalkInv, T!Addresses
  <1> QED
    BY <1>1, <1>2, FS_Subset

\* lower_bound() and upper_bound() of an address that is there.
LEMMA WalkStarts ==
  ASSUME NEW d \in SUBSET Int, IsFiniteSet(d), d = DOMAIN IPv4_peer_idx, NEW ip \in d
  PROVE  Walked(d, ip, <<>>, T!lower_bound(ip), T!upper_bound(ip))
  <1>1. PICK x, y : x = {a \in d : a < ip} /\ y = {a \in d : a <= ip}
    OBVIOUS
  <1>2. x \in SUBSET d /\ y = x \cup {ip} /\ ip \notin x
    BY <1>1
  <1>3. IsFiniteSet(x) /\ Cardinality(x) \in Nat
    BY <1>2, FS_Subset, FS_CardinalityType
  <1>4. Cardinality(y) = Cardinality(x) + 1
    BY <1>2, <1>3, FS_AddElement
  <1>5. T!lower_bound(ip) = 1 + Cardinality(x) /\ T!upper_bound(ip) = 1 + Cardinality(y)
    BY <1>1, SameCardinality, Zenon DEF T!lower_bound, T!upper_bound
  <1>6. PICK n \in Nat : n = Pos(d, ip) /\ 1 <= n /\ n <= Cardinality(d)
    BY PosType
  <1>7. T!lower_bound(ip) = n /\ T!upper_bound(ip) = n + 1
    BY <1>1, <1>3, <1>4, <1>5, <1>6 DEF Pos
  <1>8. \A a \in d : ~(n < Pos(d, a) /\ Pos(d, a) < n + 1)
    BY PosType
  <1>9. <<>> \in Seq(d) /\ DOMAIN <<>> = {} /\ Cardinality(d) \in Nat
    BY FS_CardinalityType
  <1> QED
    BY <1>6, <1>7, <1>8, <1>9 DEF Walked

\* The step down: the address before has not been nearer than the rest.
LEMMA StepDown ==
  ASSUME NEW d \in SUBSET Int, IsFiniteSet(d), NEW ip, NEW r, NEW prev, NEW next,
         Walked(d, ip, r, prev, next), prev # 1, NEW k \in d, Pos(d, k) = prev,
         \A a \in d : Pos(d, a) >= next => Dist(ip, k) <= Dist(ip, a)
  PROVE  Walked(d, ip, Append(r, k), prev - 1, next)
  <1>1. /\ prev \in Nat \ {0} /\ next \in Nat /\ ip \in d /\ prev <= Pos(d, ip)
        /\ ip \in Int /\ k \in Int /\ prev - 1 \in Nat \ {0}
    BY DEF Walked
  <1>2. \A a \in d : a \in Int /\ Pos(d, a) \in Nat
    BY PosType
  <1>3. k <= ip
    <2>1. Pos(d, k) < Pos(d, ip) \/ Pos(d, k) = Pos(d, ip)
      BY <1>1, <1>2
    <2>2. k < ip \/ k = ip
      BY <1>1, <2>1, PosReflects
    <2> QED
      BY <1>1, <2>2
  <1>4. ASSUME NEW a \in Unseen(d, prev - 1, next) PROVE Dist(ip, k) <= Dist(ip, a)
    <2>1. CASE Pos(d, a) >= next
      BY <2>1 DEF Unseen
    <2>2. CASE Pos(d, a) <= prev - 1
      <3>1. a \in d /\ a \in Int /\ Pos(d, a) < Pos(d, k)
        BY <1>1, <1>2, <2>2 DEF Unseen
      <3>2. a < k
        BY <3>1, PosReflects
      <3> QED
        BY <1>1, <1>3, <3>1, <3>2 DEF Dist
    <2> QED
      BY <2>1, <2>2 DEF Unseen
  <1>5. k \in Unseen(d, prev, next)
    BY <1>1 DEF Unseen
  <1>6. PICK p \in Nat \ {0} : p = prev - 1
    BY <1>1
  <1>7. Walked(d, ip, Append(r, k), p, next)
    BY <1>1, <1>4, <1>5, <1>6, WalkOn
  <1> QED
    BY <1>6, <1>7

\* The step up.
LEMMA StepUp ==
  ASSUME NEW d \in SUBSET Int, IsFiniteSet(d), NEW ip, NEW r, NEW prev, NEW next,
         Walked(d, ip, r, prev, next), NEW k \in d, Pos(d, k) = next,
         \A a \in d : Pos(d, a) <= prev /\ Pos(d, a) # 1 => Dist(ip, k) <= Dist(ip, a)
  PROVE  Walked(d, ip, Append(r, k), prev, next + 1)
  <1>1. /\ prev \in Nat \ {0} /\ next \in Nat /\ ip \in d /\ Pos(d, ip) < next
        /\ ip \in Int /\ k \in Int /\ next + 1 \in Nat
    BY DEF Walked
  <1>2. \A a \in d : a \in Int /\ Pos(d, a) \in Nat
    BY PosType
  <1>3. ip < k
    BY <1>1, PosReflects
  <1>4. ASSUME NEW a \in Unseen(d, prev, next + 1) PROVE Dist(ip, k) <= Dist(ip, a)
    <2>1. CASE Pos(d, a) <= prev /\ Pos(d, a) # 1
      BY <2>1 DEF Unseen
    <2>2. CASE Pos(d, a) >= next + 1
      <3>1. a \in d /\ a \in Int /\ Pos(d, k) < Pos(d, a)
        BY <1>1, <1>2, <2>2 DEF Unseen
      <3>2. k < a
        BY <3>1, PosReflects
      <3> QED
        BY <1>1, <1>3, <3>1, <3>2 DEF Dist
    <2> QED
      BY <2>1, <2>2 DEF Unseen
  <1>5. k \in Unseen(d, prev, next)
    BY <1>1 DEF Unseen
  <1>6. PICK q \in Nat : q = next + 1
    BY <1>1
  <1>7. Walked(d, ip, Append(r, k), prev, q)
    BY <1>1, <1>4, <1>5, <1>6, WalkOn
  <1> QED
    BY <1>6, <1>7

\* A turn of one of the three loops.
LEMMA WalkSteps ==
  ASSUME IpCount \in Nat, WalkInv, T!NoStaleEntries,
         T!closest_step \/ T!below_step \/ T!above_step
  PROVE  WalkInv'
  <1>1. PICK d : d = DOMAIN IPv4_peer_idx
    OBVIOUS
  <1>2. /\ d \in SUBSET Int /\ IsFiniteSet(d) /\ Cardinality(d) \in Nat
        /\ \A a \in d : a \in 0..(IpCount - 1)
    BY <1>1, IndexFinite, FS_CardinalityType
  <1>3. search.call = "closest" /\ UNCHANGED T!registry
    BY DEF T!closest_step, T!below_step, T!above_step
  <1>4. IPv4_peer_idx' = IPv4_peer_idx /\ DOMAIN IPv4_peer_idx' = d
    BY <1>1, <1>3 DEF T!registry
  <1>5. PICK ip, limit, r, prev, next :
          /\ search = [call |-> "closest", ip |-> ip, limit |-> limit, result |-> r,
                       it_prev |-> prev, it_next |-> next]
          /\ ip \in d => Walked(d, ip, r, prev, next)
    BY <1>1, <1>3, Zenon DEF WalkInv, Walk
  <1>6. /\ search.ip = ip /\ search.limit = limit /\ search.result = r
        /\ search.it_prev = prev /\ search.it_next = next
    BY <1>5
  <1>7. PICK after : after = search'
    OBVIOUS
  <1>8. \/ \E s, p, q :
             after = [call |-> "closest", ip |-> ip, limit |-> limit, result |-> s,
                      it_prev |-> p, it_next |-> q]
        \/ after = [call |-> "crashed"]
    <2>1. \/ T!take_prev \/ T!take_next \/ search' = [search EXCEPT !.it_prev = @ - 1]
          \/ search' = [call |-> "crashed"]
      BY Zenon DEF T!closest_step, T!below_step, T!above_step
    <2> QED
      BY <1>5, <1>7, <2>1 DEF T!take_prev, T!take_next
  <1>9. SUFFICES after.call = "closest" => Walk(after, d)
    <2>1. after.call # "forwards"
      BY <1>8
    <2> QED
      BY <1>1, <1>4, <1>7, <2>1 DEF WalkInv, T!Addresses
  <1>10. CASE ip \notin d
    BY <1>8, <1>10 DEF Walk
  <1>11. CASE ip \in d
    <2>1. Walked(d, ip, r, prev, next)
      BY <1>5, <1>11
    <2>2. /\ prev \in Nat \ {0} /\ next \in Nat /\ prev <= Cardinality(d)
          /\ next <= Cardinality(d) + 1 /\ ip \in 0..(IpCount - 1)
          /\ prev <= Pos(d, ip) /\ Pos(d, ip) < next /\ Pos(d, ip) \in Nat
      BY <1>2, <1>11, <2>1, PosType DEF Walked
    <2>3. T!begin = 1 /\ T!end = Cardinality(d) + 1
      BY <1>1, SameCardinality DEF T!begin, T!end
    <2>4. \A a \in d : /\ a \in Int /\ Pos(d, a) \in Nat
                        /\ 1 <= Pos(d, a) /\ Pos(d, a) <= Cardinality(d)
      BY <1>2, PosType
    <2>5. PICK k : k = T!key(prev)
      OBVIOUS
    <2>6. k \in d /\ k \in Int /\ k \in 0..(IpCount - 1) /\ Pos(d, k) = prev
      BY <1>1, <1>2, <2>2, <2>5, KeyAt, prev \in 1..Cardinality(d)
    <2>7. PICK m : m = T!key(next)
      OBVIOUS
    <2>8. ASSUME next # Cardinality(d) + 1 PROVE m \in d /\ m \in Int /\ Pos(d, m) = next
      BY <1>1, <1>2, <2>2, <2>7, <2>8, KeyAt, next \in 1..Cardinality(d)
    <2>9. T!Found(prev) = Append(r, k)
      BY <1>1, <1>6, <2>5, <2>6 DEF T!Found, T!NoStaleEntries
    <2>10. ASSUME next # Cardinality(d) + 1 PROVE T!Found(next) = Append(r, m)
      BY <1>1, <1>6, <2>7, <2>8, <2>10 DEF T!Found, T!NoStaleEntries
    <2>11. k <= ip
      <3>1. Pos(d, k) < Pos(d, ip) \/ Pos(d, k) = Pos(d, ip)
        BY <2>2, <2>6
      <3>2. k < ip \/ k = ip
        BY <1>2, <1>11, <2>6, <3>1, PosReflects
      <3> QED
        BY <2>2, <2>6, <3>2
    <2>12. ASSUME next # Cardinality(d) + 1 PROVE ip < m
      <3>1. m \in d /\ Pos(d, ip) < Pos(d, m)
        BY <2>2, <2>8, <2>12
      <3> QED
        BY <1>2, <1>11, <3>1, PosReflects
    <2>13. ASSUME T!take_prev
           PROVE  after = [call |-> "closest", ip |-> ip, limit |-> limit, result |-> Append(r, k),
                           it_prev |-> prev - 1, it_next |-> next]
      BY <1>5, <1>6, <1>7, <2>9, <2>13 DEF T!take_prev
    <2>14. ASSUME T!take_next, next # Cardinality(d) + 1
           PROVE  after = [call |-> "closest", ip |-> ip, limit |-> limit, result |-> Append(r, m),
                           it_prev |-> prev, it_next |-> next + 1]
      BY <1>5, <1>6, <1>7, <2>10, <2>14 DEF T!take_next
    <2>15. ASSUME T!take_prev, prev # 1,
                  next # Cardinality(d) + 1 => ip - k <= m - ip
           PROVE  Walk(after, d)
      <3>1. ASSUME NEW a \in d, Pos(d, a) >= next PROVE Dist(ip, k) <= Dist(ip, a)
        <4>1. next # Cardinality(d) + 1 /\ a \in Int
          BY <1>2, <2>2, <2>4, <3>1
        <4>2. m <= a
          <5>1. m \in d /\ m \in Int /\ (Pos(d, m) < Pos(d, a) \/ Pos(d, m) = Pos(d, a))
            BY <2>2, <2>4, <2>8, <3>1, <4>1
          <5>2. m < a \/ m = a
            BY <1>2, <5>1, PosReflects
          <5> QED
            BY <4>1, <5>1, <5>2
        <4>3. m \in Int /\ ip < m /\ ip - k <= m - ip
          BY <2>8, <2>12, <2>15, <4>1
        <4>4. ip \in Int /\ k \in Int
          BY <2>2, <2>6
        <4> QED
          BY <2>11, <4>1, <4>2, <4>3, <4>4 DEF Dist
      <3>2. Walked(d, ip, Append(r, k), prev - 1, next)
        BY <1>2, <2>1, <2>6, <2>15, <3>1, StepDown
      <3> QED
        BY <2>13, <2>15, <3>2 DEF Walk
    <2>16. ASSUME T!take_next, next # Cardinality(d) + 1,
                  prev # 1 => m - ip <= ip - k
           PROVE  Walk(after, d)
      <3>1. ASSUME NEW a \in d, Pos(d, a) <= prev, Pos(d, a) # 1 PROVE Dist(ip, m) <= Dist(ip, a)
        <4>1. prev # 1 /\ a \in Int
          BY <1>2, <2>2, <2>4, <3>1
        <4>2. a <= k
          <5>1. Pos(d, a) < Pos(d, k) \/ Pos(d, a) = Pos(d, k)
            BY <2>2, <2>4, <2>6, <3>1
          <5>2. a < k \/ a = k
            BY <1>2, <2>6, <5>1, PosReflects
          <5> QED
            BY <2>6, <4>1, <5>2
        <4>3. m \in Int /\ ip < m /\ m - ip <= ip - k
          BY <2>8, <2>12, <2>16, <4>1
        <4>4. ip \in Int /\ k \in Int
          BY <2>2, <2>6
        <4> QED
          BY <2>11, <4>1, <4>2, <4>3, <4>4 DEF Dist
      <3>2. m \in d /\ Pos(d, m) = next
        BY <2>8, <2>16
      <3>3. Walked(d, ip, Append(r, m), prev, next + 1)
        BY <1>2, <2>1, <3>1, <3>2, StepUp
      <3> QED
        BY <2>14, <2>16, <3>3 DEF Walk
    <2>17. CASE T!closest_step
      <3>1. prev # 1 /\ next # Cardinality(d) + 1
        BY <1>6, <2>3, <2>17 DEF T!closest_step
      <3>2. (ip - k) % IpCount = ip - k
        <4>1. PICK x \in 0..(IpCount - 1), c \in Nat \ {0} :
                x = ip - k /\ c = IpCount /\ x \in 0..(c - 1)
          BY <2>2, <2>6, <2>11
        <4>2. x = (c * 0) + x /\ 0 \in Int /\ x \in Int
          BY <4>1
        <4>3. x % c = x
          <5>1. x \in 0..(c - 1) /\ 0 \in Int /\ x \in Int /\ x = (c * 0) + x
            BY <4>1, <4>2
          <5> QED
            BY <5>1, Remainder, ZenonT(30)
        <4> QED
          BY <4>1, <4>3
      <3>3. m \in Int /\ k \in Int /\ ip \in Int
        BY <2>2, <2>6, <2>8, <3>1
      <3>4. CASE ip - k < m - ip
        <4>1. T!take_prev
          BY <1>6, <2>5, <2>7, <2>17, <3>2, <3>4, Zenon DEF T!closest_step
        <4> QED
          BY <2>15, <3>1, <3>3, <3>4, <4>1
      <3>5. CASE ~(ip - k < m - ip)
        <4>1. T!take_next
          BY <1>6, <2>5, <2>7, <2>17, <3>2, <3>5, Zenon DEF T!closest_step
        <4> QED
          BY <2>16, <3>1, <3>3, <3>5, <4>1
      <3> QED
        BY <3>4, <3>5
    <2>18. CASE T!below_step
      <3>1. prev # 1 /\ next = Cardinality(d) + 1 /\ prev # Cardinality(d) + 1
        BY <1>2, <1>6, <2>2, <2>3, <2>18 DEF T!below_step
      <3>2. T!take_prev
        BY <1>6, <2>3, <2>18, <3>1 DEF T!below_step
      <3> QED
        BY <2>15, <3>1, <3>2
    <2>19. CASE T!above_step
      <3>1. prev = 1 /\ next # Cardinality(d) + 1 /\ T!take_next
        BY <1>6, <2>3, <2>19 DEF T!above_step
      <3> QED
        BY <2>16, <3>1
    <2> QED
      BY <2>17, <2>18, <2>19
  <1> QED
    BY <1>11, <1>10

\* A sequence without repetition has as many elements as its length.
LEMMA DistinctCardinality ==
  ASSUME NEW d, NEW r \in Seq(d), \A i, j \in DOMAIN r : i < j => r[i] # r[j]
  PROVE  Cardinality({r[i] : i \in DOMAIN r}) = Len(r)
  <1>1. PICK x : x = {r[i] : i \in DOMAIN r}
    OBVIOUS
  <1>2. PICK n \in Nat : n = Len(r) /\ DOMAIN r = 1..n
    OBVIOUS
  <1>3. PICK f : f = [i \in 1..n |-> r[i]]
    OBVIOUS
  <1>4. f \in [1..n -> x] /\ \A y \in x : \E i \in 1..n : f[i] = y
    BY <1>1, <1>2, <1>3
  <1>5. \A i, j \in 1..n : f[i] = f[j] => i = j
    <2> SUFFICES ASSUME NEW i \in 1..n, NEW j \in 1..n, f[i] = f[j] PROVE i = j
      OBVIOUS
    <2>1. r[i] = r[j] /\ i \in Int /\ j \in Int
      BY <1>3
    <2> QED
      BY <1>2, <2>1
  <1>6. f \in Injection(1..n, x)
    BY <1>4, <1>5 DEF Injection, IsInjective
  <1>7. f \in Surjection(1..n, x)
    BY <1>4 DEF Surjection
  <1>8. IsFiniteSet(1..n) /\ Cardinality(1..n) = n
    BY FS_Interval
  <1>9. Cardinality(x) = n
    BY <1>6, <1>7, <1>8, FS_Surjection
  <1> QED
    BY <1>1, <1>2, <1>9

\* When the loops have ended, the answer is right.
LEMMA WalkEnds ==
  ASSUME IpCount \in Nat, WalkInv, T!ClosestFound, search.ip \in DOMAIN IPv4_peer_idx
  PROVE  T!NearestOf(DOMAIN IPv4_peer_idx \ {T!key(T!begin)})
  <1>1. PICK d : d = DOMAIN IPv4_peer_idx
    OBVIOUS
  <1>2. d \in SUBSET Int /\ IsFiniteSet(d) /\ Cardinality(d) \in Nat
    BY <1>1, IndexFinite, FS_CardinalityType
  <1>3. search.call = "closest"
    BY DEF T!ClosestFound
  <1>4. PICK ip, limit, r, prev, next :
          /\ search = [call |-> "closest", ip |-> ip, limit |-> limit, result |-> r,
                       it_prev |-> prev, it_next |-> next]
          /\ ip \in d => Walked(d, ip, r, prev, next)
    BY <1>1, <1>3, Zenon DEF WalkInv, Walk
  <1>5. /\ search.ip = ip /\ search.limit = limit /\ search.result = r
        /\ search.it_prev = prev /\ search.it_next = next
    BY <1>4
  <1>6. ip \in d /\ Walked(d, ip, r, prev, next)
    BY <1>1, <1>4, <1>5
  <1>7. T!begin = 1 /\ T!end = Cardinality(d) + 1
    BY <1>1, SameCardinality DEF T!begin, T!end
  <1>8. \A a \in d : Pos(d, a) \in Nat /\ 1 <= Pos(d, a) /\ Pos(d, a) <= Cardinality(d)
    BY <1>2, PosType
  <1>9. PICK first : first = T!key(1)
    OBVIOUS
  <1>10. first \in d /\ Pos(d, first) = 1
    <2>1. 1 \in 1..Cardinality(d)
      BY <1>2, <1>6, <1>8
    <2> QED
      BY <1>1, <1>2, <1>9, <2>1, KeyAt
  <1>11. \A a \in d : Pos(d, a) = 1 <=> a = first
    <2> TAKE a \in d
    <2>1. Pos(d, a) = Pos(d, first) => a = first
      BY <1>2, <1>10, PosReflects
    <2> QED
      BY <1>10, <2>1
  <1>12. PICK found : found = {r[i] : i \in DOMAIN r}
    OBVIOUS
  <1>13. /\ prev \in Nat \ {0} /\ next \in Nat /\ r \in Seq(d)
         /\ \A i \in DOMAIN r : r[i] \in d /\ prev < Pos(d, r[i]) /\ Pos(d, r[i]) < next
    BY <1>6 DEF Walked
  <1>14. found \subseteq d \ {first}
    BY <1>8, <1>10, <1>12, <1>13
  <1>15. Len(r) = Cardinality(found)
    <2>1. \A i, j \in DOMAIN r : i < j => r[i] # r[j]
      BY <1>6 DEF Walked
    <2> QED
      BY <1>12, <1>13, <2>1, DistinctCardinality
  <1>16. ASSUME T!WantsMore PROVE found = d \ {first}
    <2>1. prev = 1 /\ next = Cardinality(d) + 1
      BY <1>5, <1>7, <1>16 DEF T!ClosestFound
    <2>2. ASSUME NEW a \in d \ {first} PROVE a \in found
      <3>1. prev < Pos(d, a) /\ Pos(d, a) < next
        BY <1>2, <1>8, <1>11, <2>1, <2>2
      <3>2. \E i \in DOMAIN r : r[i] = a
        BY <1>6, <3>1 DEF Walked
      <3> QED
        BY <1>12, <3>2
    <2> QED
      BY <1>14, <2>2
  <1>17. \A i, j \in DOMAIN r : i < j => Dist(ip, r[i]) <= Dist(ip, r[j])
    BY <1>6 DEF Walked
  <1>18. ASSUME NEW a \in found, NEW b \in (d \ {first}) \ found PROVE Dist(ip, a) <= Dist(ip, b)
    <2>1. PICK i \in DOMAIN r : a = r[i]
      BY <1>12
    <2>2. Pos(d, b) # 1 /\ ~(prev < Pos(d, b) /\ Pos(d, b) < next)
      <3>1. b \in d /\ b # first /\ \A j \in DOMAIN r : r[j] # b
        BY <1>12
      <3> QED
        BY <1>6, <1>11, <3>1 DEF Walked
    <2>3. b \in Unseen(d, prev, next)
      BY <1>8, <1>13, <2>2 DEF Unseen
    <2> QED
      BY <1>6, <2>1, <2>3 DEF Walked
  <1>19. \A a : T!Distance(a) = Dist(ip, a)
    BY <1>5 DEF T!Distance, Dist
  <1>20. T!ToSet(search.result) = found /\ T!Cardinality(found) = Len(search.result)
    BY <1>5, <1>12, <1>15, SameCardinality, Zenon DEF T!ToSet
  <1>21. d \ {first} = DOMAIN IPv4_peer_idx \ {T!key(T!begin)}
    BY <1>1, <1>7, <1>9
  <1>22. T!NearestOf(d \ {first})
    BY <1>5, <1>14, <1>16, <1>17, <1>18, <1>19, <1>20, Zenon DEF T!NearestOf
  <1> QED
    BY <1>21, <1>22

\* For any addresses, peers and limits: the search around an address of the index
\* returns the nearest of the other entries but the first, nearest first and none
\* twice (tracker.cc:47-87).
THEOREM TrackerExactHitClosest ==
  ASSUME IpCount \in Nat PROVE T!Spec => []ExactHitClosest
  <1>1. T!Init => WalkInv
    BY DEF T!Init, T!NoSearch, WalkInv
  <1>2. WalkInv /\ T!NoStaleEntries /\ [T!Next]_T!vars => WalkInv'
    <2>1. SUFFICES ASSUME WalkInv, T!NoStaleEntries, [T!Next]_T!vars PROVE WalkInv'
      OBVIOUS
    <2>2. ASSUME T!Registering PROVE WalkInv'
      <3>1. search' = search /\ search = [call |-> "none"]
        BY <2>2 DEF T!Registering, T!register_peer, T!register_forward, T!remove_peer,
             T!flush_removed_peers, T!NoSearch
      <3>2. DOMAIN IPv4_peer_idx' \subseteq T!Addresses
        BY <2>1, <2>2 DEF T!Registering, T!register_peer, T!register_forward, T!remove_peer,
             T!flush_removed_peers, WalkInv
      <3> QED
        BY <3>1, <3>2 DEF WalkInv, T!Addresses
    <2>3. CASE T!closest_step \/ T!below_step \/ T!above_step
      BY <2>1, <2>3, WalkSteps
    <2>4. ASSUME NEW id \in TrackedPeers, search.call = "forwards", T!forwards_step(id) PROVE WalkInv'
      <3>1. /\ UNCHANGED T!registry
            /\ \E found : search' = [search EXCEPT !.left = @ \ {id}, !.result = @ \cup found]
        BY <2>4 DEF T!forwards_step
      <3>2. PICK limit, r, asked, remaining, matches :
              search = [call |-> "forwards", limit |-> limit, result |-> r,
                        asked |-> asked, left |-> remaining, matches |-> matches]
        BY <2>1, <2>4 DEF WalkInv
      <3>3. PICK s, rest : search' = [call |-> "forwards", limit |-> limit, result |-> s,
                                      asked |-> asked, left |-> rest, matches |-> matches]
        BY <3>1, <3>2
      <3>4. search'.call = "forwards"
        BY <3>3
      <3>5. DOMAIN IPv4_peer_idx' \subseteq T!Addresses
        BY <2>1, <3>1 DEF WalkInv, T!registry
      <3>6. \E l, x, asks, todo, matching :
              search' = [call |-> "forwards", limit |-> l, result |-> x,
                         asked |-> asks, left |-> todo, matches |-> matching]
        BY <3>3, Zenon
      <3> QED
        BY <3>4, <3>5, <3>6 DEF WalkInv, T!Addresses
    <2>5. CASE T!return
      BY <2>1, <2>5 DEF T!return, T!registry, T!NoSearch, WalkInv, T!Addresses
    <2>6. ASSUME NEW limit \in Limits, NEW ip \in T!Addresses,
                 T!find_ipv4_closest_peers(ip, limit)
          PROVE  WalkInv'
      <3>1. PICK after : /\ after = search' /\ UNCHANGED T!registry
                         /\ after = [call |-> "closest", ip |-> ip, limit |-> limit,
                                     result |-> <<>>, it_prev |-> T!lower_bound(ip),
                                     it_next |-> T!upper_bound(ip)]
        BY <2>6 DEF T!find_ipv4_closest_peers
      <3>2. PICK d : d = DOMAIN IPv4_peer_idx
        OBVIOUS
      <3>3. ip \in d => Walked(d, ip, <<>>, T!lower_bound(ip), T!upper_bound(ip))
        BY <2>1, <3>2, IndexFinite, WalkStarts
      <3>4. Walk(after, d)
        BY <3>1, <3>3 DEF Walk
      <3> QED
        BY <2>1, <3>1, <3>2, <3>4 DEF WalkInv, T!registry, T!Addresses
    <2>7. ASSUME NEW limit \in Limits, NEW matches, T!find_peers(matches, limit)
          PROVE  WalkInv'
      BY <2>1, <2>7 DEF T!find_peers, WalkInv, T!registry, T!Addresses
    <2>8. ASSUME NEW limit \in Limits, NEW ids, NEW matches, T!find_forwards(ids, matches, limit)
          PROVE  WalkInv'
      BY <2>1, <2>8 DEF T!find_forwards, WalkInv, T!registry, T!Addresses
    <2>9. CASE UNCHANGED T!vars
      BY <2>1, <2>9 DEF T!vars, WalkInv, T!Addresses
    <2> QED
      BY <2>1, <2>2, <2>3, <2>4, <2>5, <2>6, <2>7, <2>8, <2>9 DEF T!Next, T!Searching
  <1>3. WalkInv => T!ExactHitClosest
    BY WalkEnds DEF T!ExactHitClosest
  <1>4. T!Spec => []T!NoStaleEntries
    BY TrackerNoStaleEntries, PTL DEF NoStaleEntries
  <1> QED
    BY <1>1, <1>2, <1>3, <1>4, PTL DEF T!Spec, ExactHitClosest

================================================================================
