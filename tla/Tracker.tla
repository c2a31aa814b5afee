-------------------------------- MODULE Tracker --------------------------------
(***************************************************************************)
(* tracker/tracker.cc: the registry of peers, the index of their addresses *)
(* and the forwards they offer, and the searches over them.  The maps are  *)
(* filled by code that is not in the repository; one thread uses them.     *)
(*                                                                         *)
(* An iterator of IPv4_peer_idx is a position in the ordered addresses: 1  *)
(* is begin(), one more than their number is end().                        *)
(***************************************************************************)
EXTENDS Integers, Sequences, FiniteSets, SequencesExt

CONSTANTS
  Peers,     \* peer ids
  IpCount,   \* 2^32 in the code: addresses are 0 .. IpCount - 1
  Forwards,  \* what a peer may forward
  Limits     \* the limits a search is called with; int, so perhaps negative

Addresses == 0..IpCount - 1

VARIABLES
  tracker_peer_info,  \* the ids registered
  removed_peers,      \* the ids to be removed by the next flush
  IPv4_peer_idx,      \* from addresses to ids
  conn_forward_info,  \* pairs of an id and a forward
  search              \* the running search, its call "none" between searches

vars == <<tracker_peer_info, removed_peers, IPv4_peer_idx, conn_forward_info, search>>
registry == <<tracker_peer_info, removed_peers, IPv4_peer_idx, conn_forward_info>>

NoSearch == [call |-> "none"]

Init ==
  /\ tracker_peer_info = {} /\ removed_peers = {}
  /\ IPv4_peer_idx = <<>> /\ conn_forward_info = {}
  /\ search = NoSearch

------------------------------------------------------------------------------
(* The registry.                                                           *)

\* A peer registers, perhaps a second time and from another address.
register_peer(id, ip) ==
  /\ search = NoSearch
  /\ tracker_peer_info' = tracker_peer_info \cup {id}
  /\ IPv4_peer_idx' = [a \in DOMAIN IPv4_peer_idx \cup {ip} |->
                         IF a = ip THEN id ELSE IPv4_peer_idx[a]]
  /\ UNCHANGED <<removed_peers, conn_forward_info, search>>

register_forward(id, f) ==
  /\ search = NoSearch /\ id \in tracker_peer_info
  /\ conn_forward_info' = conn_forward_info \cup {<<id, f>>}
  /\ UNCHANGED <<tracker_peer_info, removed_peers, IPv4_peer_idx, search>>

remove_peer(id) ==
  /\ search = NoSearch
  /\ removed_peers' = removed_peers \cup {id}
  /\ UNCHANGED <<tracker_peer_info, IPv4_peer_idx, conn_forward_info, search>>

\* A flush that rebuilds the index before it erases the peers.
MutFlushIndexFirst ==
  /\ search = NoSearch
  /\ tracker_peer_info' = tracker_peer_info \ removed_peers
  /\ conn_forward_info' = {c \in conn_forward_info : c[1] \notin removed_peers}
  /\ IPv4_peer_idx' = [ip \in {a \in DOMAIN IPv4_peer_idx :
                                 IPv4_peer_idx[a] \in tracker_peer_info}
                         |-> IPv4_peer_idx[ip]]
  /\ removed_peers' = {}
  /\ UNCHANGED search

flush_removed_peers ==
  /\ search = NoSearch
  /\ tracker_peer_info' = tracker_peer_info \ removed_peers
  /\ conn_forward_info' = {c \in conn_forward_info : c[1] \notin removed_peers}
  /\ IPv4_peer_idx' = [ip \in {a \in DOMAIN IPv4_peer_idx :
                                 IPv4_peer_idx[a] \in tracker_peer_info'}
                         |-> IPv4_peer_idx[ip]]
  /\ removed_peers' = {}
  /\ UNCHANGED search

------------------------------------------------------------------------------
(* find_ipv4_closest_peers()                                               *)

\* The address at a position.
key(it) ==
  CHOOSE a \in DOMAIN IPv4_peer_idx :
    Cardinality({b \in DOMAIN IPv4_peer_idx : b < a}) = it - 1
begin == 1
end == Cardinality(DOMAIN IPv4_peer_idx) + 1
lower_bound(ip) == 1 + Cardinality({a \in DOMAIN IPv4_peer_idx : a < ip})
upper_bound(ip) == 1 + Cardinality({a \in DOMAIN IPv4_peer_idx : a <= ip})

find_ipv4_closest_peers(ip, limit) ==
  /\ search = NoSearch
  /\ search' = [call |-> "closest", ip |-> ip, limit |-> limit, result |-> <<>>,
                it_prev |-> lower_bound(ip), it_next |-> upper_bound(ip)]
  /\ UNCHANGED registry

\* result.size() < limit, where a negative limit becomes a huge size_t
WantsMore == search.limit < 0 \/ Len(search.result) < search.limit

\* The entry at a position, if its peer is registered, goes to the result.
Found(it) ==
  IF IPv4_peer_idx[key(it)] \in tracker_peer_info
  THEN Append(search.result, key(it)) ELSE search.result

take_prev ==
  search' = [search EXCEPT !.it_prev = @ - 1, !.result = Found(search.it_prev)]
take_next ==
  search' = [search EXCEPT !.it_next = @ + 1, !.result = Found(search.it_next)]

\* A merge that compares the addresses and not their distances.
MutClosestStep ==
  /\ search.call = "closest" /\ WantsMore
  /\ search.it_prev # begin /\ search.it_next # end
  /\ IF key(search.it_prev) < key(search.it_next) - search.ip
     THEN take_prev ELSE take_next
  /\ UNCHANGED registry

\* One turn of the first loop: the nearer of the two, in arithmetic modulo 2^32.
closest_step ==
  /\ search.call = "closest" /\ WantsMore
  /\ search.it_prev # begin /\ search.it_next # end
  /\ IF (search.ip - key(search.it_prev)) % IpCount < key(search.it_next) - search.ip
     THEN take_prev ELSE take_next
  /\ UNCHANGED registry

\* One turn of the second loop.  If it_prev is end() there is no entry: what is
\* read instead is no registered id, or the program crashes.
below_step ==
  /\ search.call = "closest" /\ WantsMore
  /\ search.it_prev # begin /\ search.it_next = end
  /\ \/ search.it_prev # end /\ take_prev
     \/ search.it_prev = end /\ search' = [search EXCEPT !.it_prev = @ - 1]
     \/ search.it_prev = end /\ search' = [call |-> "crashed"]
  /\ UNCHANGED registry

\* One turn of the third loop.
above_step ==
  /\ search.call = "closest" /\ WantsMore
  /\ search.it_prev = begin /\ search.it_next # end
  /\ take_next
  /\ UNCHANGED registry

\* The three loops have ended.
ClosestFound ==
  /\ search.call = "closest"
  /\ ~WantsMore \/ (search.it_prev = begin /\ search.it_next = end)

------------------------------------------------------------------------------
(* find_peers() and find_forwards(); matches stands for the descriptions   *)
(* that contain the string searched for, and a map may be walked in any    *)
(* order.                                                                  *)

\* How many of n matches a loop takes that stops when size() >= limit, a test
\* it makes only after it has added one: size is what there is already.
TakenOf(n, size, limit) ==
  LET room == IF limit < 0 \/ limit - size > n THEN n
              ELSE IF limit - size < 1 THEN 1 ELSE limit - size
  IN  IF n = 0 THEN 0 ELSE room

find_peers(matches, limit) ==
  /\ search = NoSearch
  /\ \E found \in SUBSET (tracker_peer_info \cap matches) :
       /\ Cardinality(found) =
            TakenOf(Cardinality(tracker_peer_info \cap matches), 0, limit)
       /\ search' = [call |-> "peers", limit |-> limit, result |-> found]
  /\ UNCHANGED registry

find_forwards(ids, matches, limit) ==
  /\ search = NoSearch
  /\ search' = [call |-> "forwards", limit |-> limit, result |-> {},
                asked |-> ids, left |-> ids, matches |-> matches]
  /\ UNCHANGED registry

\* An inner loop without its break.
MutForwardsNoBreak(id) ==
  /\ search.call = "forwards" /\ id \in search.left
  /\ search' = [search EXCEPT !.left = @ \ {id},
       !.result = @ \cup {c \in conn_forward_info : c[1] = id /\ c[2] \in search.matches}]
  /\ UNCHANGED registry

\* The forwards of one peer; the break leaves only the inner loop.
forwards_step(id) ==
  LET mine == {c \in conn_forward_info : c[1] = id /\ c[2] \in search.matches}
  IN  /\ search.call = "forwards" /\ id \in search.left
      /\ \E found \in SUBSET mine :
           /\ Cardinality(found) =
                TakenOf(Cardinality(mine), Cardinality(search.result), search.limit)
           /\ search' = [search EXCEPT !.left = @ \ {id}, !.result = @ \cup found]
      /\ UNCHANGED registry

\* A search returns.
return ==
  /\ \/ ClosestFound
     \/ search.call = "peers"
     \/ search.call = "forwards" /\ search.left = {}
  /\ search' = NoSearch
  /\ UNCHANGED registry

------------------------------------------------------------------------------
Registering ==
  \/ \E id \in Peers : \/ \E ip \in Addresses : register_peer(id, ip)
                       \/ \E f \in Forwards : register_forward(id, f)
                       \/ remove_peer(id)
  \/ flush_removed_peers

Searching ==
  \/ closest_step \/ below_step \/ above_step
  \/ \E id \in Peers : search.call = "forwards" /\ forwards_step(id)
  \/ return

Next ==
  \/ Registering \/ Searching
  \/ \E limit \in Limits :
       \/ \E ip \in Addresses : find_ipv4_closest_peers(ip, limit)
       \/ \E matches \in (SUBSET Peers) \ {{}} : find_peers(matches, limit)
       \/ \E ids \in (SUBSET Peers) \ {{}}, matches \in (SUBSET Forwards) \ {{}} :
            find_forwards(ids, matches, limit)

Spec == Init /\ [][Next]_vars

------------------------------------------------------------------------------
\* However registrations, removals and flushes follow each other, an index
\* entry or a forward never outlives its peer (tracker.cc:16-29).
NoStaleEntries ==
  /\ \A ip \in DOMAIN IPv4_peer_idx : IPv4_peer_idx[ip] \in tracker_peer_info
  /\ \A c \in conn_forward_info : c[1] \in tracker_peer_info

\* How far a search may exceed its limit: not at all by address, by one for a
\* limit of 0 by description, and by one for each further peer in
\* find_forwards(), whose break leaves the inner loop only (tracker.cc:38, 99).
AnswersBounded ==
  LET atLeastOne == IF search.limit = 0 THEN 1 ELSE search.limit
  IN  /\ search.call = "closest" /\ search.limit >= 0 => Len(search.result) <= search.limit
      /\ search.call = "peers" /\ search.limit >= 0 => Cardinality(search.result) <= atLeastOne
      /\ search.call = "forwards" /\ search.limit >= 0 =>
           Cardinality(search.result) <= atLeastOne + Cardinality(search.asked) - 1

Distance(a) == IF a < search.ip THEN search.ip - a ELSE a - search.ip

\* The answer is the nearest of the given addresses, nearest first, as many as
\* were asked for.
NearestOf(addresses) ==
  LET found == ToSet(search.result)
  IN  /\ found \subseteq addresses
      /\ Len(search.result) = Cardinality(found)
      /\ WantsMore => found = addresses
      /\ \A i, j \in DOMAIN search.result :
           i < j => Distance(search.result[i]) <= Distance(search.result[j])
      /\ \A a \in found, b \in addresses \ found : Distance(a) <= Distance(b)

\* If the address asked for is itself in the index, the search returns the
\* nearest peers, nearest first and none twice, of all entries but the one with
\* the smallest address, which the loops never look at (tracker.cc:47-87).
ExactHitClosest ==
  ClosestFound /\ search.ip \in DOMAIN IPv4_peer_idx =>
    NearestOf(DOMAIN IPv4_peer_idx \ {key(begin)})

\* "find peers by closest IPv4 addresses" (tracker.cc:46), for every address.
ClosestFirst == ClosestFound => NearestOf(DOMAIN IPv4_peer_idx)
================================================================================
