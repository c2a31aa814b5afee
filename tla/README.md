# Verification of udp-stuff

TLA+ models of the networking code in this repository: the lock objects of
`utils/lock`, its reference counts, the packet queues, the raw-socket UDP
driver and its checksum, TCP hole punching, the peer message loop and its
certificate check, the tracker, the message descriptions with the code generated
from them and the bit streams it uses, block encryption and the configuration
parser.
Each model is a module that follows one source file, action by action; TLC
checks it on a small instance. For the locks, the reference counts, the packet
queues, the driver, hole punching, peer messages, the tracker, the checksum, the
certificate check, the numbers and the order of descriptions, the bit streams
and block encryption TLAPS proves the safety properties for every value of the
constants: any number of threads, packets, peers or sequence numbers, items of
any number of bits, messages of any length, any descriptions.

Run `tlc -config MC_X.cfg MC_X` for a run and `tlapm XProofs.tla` for the
proofs (a quarter of an hour for SequentialProofs, minutes for the others). `PROJECT.json` lists the runs, the source lines behind every
definition, the mutants each property is known to detect, the hazards found in
the code and the theorems.

## 1. The system

| component | state | operations | talks to |
|---|---|---|---|
| futex lock, `utils/lock/simple.h`, `ops.h` | futex word, waiter count | lock_c, unlock_c, wait, notify, notifyAll | kernel futex, any thread |
| spinning lock, `utils/lock/brute.h` | the same and a count of spinners | the same | the same |
| pthread lock, `utils/lock/pthread.h` | mutex, condition variable | the same | libpthread |
| scoped locks, `utils/lock/scope.h` | a reference to a lock | lock, unlock at scope end | the locks |
| reference counts, `utils/lock/refs.h` | ref_count of an object, pointer of a Ref | create, copy, move, assign, clear | any thread |
| packet queues, `packet_queue.h` | packets by 16-bit number at sender and receiver | push, renumber, clear, find missing, copy out | UDP connection |
| UDP connection, `udp4_conn.h` | socket, peer address | send_packet, recv_packet | packet queues, network |
| UDP driver, `udp4.h`, `net_drv.h`, `socket_filter.h`, `chained_buffer.h` | send queue, receive buffers, connections by address | init, attach, detach, push, send_all, recv_all | raw socket, connections (callbacks) |
| hole punching, `net/tcpv4.cc`, `net/socket.h` | sockets of a round, tries left, role | rounds of bind, listen or connect, sleep | the other peer, NAT, any third host |
| peer messages, `conn/peers.cc`, `conn/handler.cc`, `crypto/ssl.cc` | connected peers, handlers, one TLS stream per peer | register, send, reader thread | TLS, handlers (callbacks) |
| configuration, `config.h` | flat vector of options | parse, get, dump | driver addresses, keys |
| tracker, `tracker/tracker.cc` | peers, removed peers, index by address, forwards | find, closest, flush | peer messages |
| bit streams, `proto/bit_reader.h`, `bit_writer.h` | position in a bit buffer | read, write, patch | generated code |
| message descriptions, `proto/descr.py`, `render_all.py` | structures, unions, enums | number, check, order, render | generated code |
| generated code, `proto/render_cc.py` | a message being written or parsed | parse, write | bit streams, another version of itself |
| block encryption, `crypto/block.h` | key, running sum | encrypt, decrypt | the processor's AES |
| peer authentication, `crypto/auth.cc`, hasher of `crypto/sgn.cc` | pointer to the expected id | install, remove, verify | OpenSSL's handshake |
| packet buffer and sequence, `packet_buffer.h`, `packet_sequence.h` | ring of packets, buffer cut into packets | resize, iterate, locate | nobody |

What is hard here: the locks run on two memory words without a kernel mutex
behind them, with one futex queue for two kinds of sleepers; counts are changed
by threads that are in the middle of something else; sequence numbers wrap
around; datagrams are lost, repeated and late; system calls take part of a
batch and then fail; two peers run the same loop against each other without a
clock in common; a TLS stream has to be cut into messages by a reader that
never sees the writer's calls; messages are parsed by another version of the
code than wrote them; and much index arithmetic meets its limits at the ends of
items, blocks, maps and ranges.

Correctness, component by component:

- a lock excludes, counts its sleepers exactly, wakes somebody whenever the
  lock is free and wanted, and behaves as a monitor for its callers;
- a reference count equals the number of references at every instant, so that
  an object is deleted once, when nobody can use it, and then certainly;
- packets come out once, in order and unchanged, and a packet the reader lacks
  is still at the writer;
- the driver sends what was pushed, to where it was pushed, and calls a
  connection only with whole packets meant for it;
- two successful hole punches hold the two ends of one connection, no socket
  leaks, and every call ends;
- a handler is called for the messages that were sent, in order;
- a parsed configuration answers as its text says;
- the tracker answers from what is registered, nearest first and within the
  limit;
- what generated code writes, another version reads back as far as it knows the
  fields; definitions come before their uses; numbers fit their fields; a bit
  stream returns the bits that were put into it;
- decryption undoes encryption, a receiver finds the checksum right, and a
  verified peer is the one expected.

## 2. The modules

Two modules are abstract specifications that others implement: `Monitor`, for
the locks, and `DependencyOrder`, for the order of definitions.

`Monitor` is the abstract lock object: an owner, a set of waiting threads, and
`Lock`, `Unlock`, `Wait`, `Resume`. All three locks are shown to implement it.

**LockObjectSimple** (`simple.h`, `ops.h`). `pc[t]` says which access to shared
memory thread t makes next: `try` (test-and-set), `add`, `futex`, `sleep`,
`sub` (the three lines of futex_wait() and the sleep between), `check` and
`wake` (the two of notify()). `call[t]` is the public method, `start_val[t]` the
value the thread sleeps on. FUTEX_WAIT compares and queues in one step, as the
kernel does; it may return early (`futex_interrupted`). atomic_release() is a
store: it goes to `pending[t]` and reaches memory with `drain(t)`; every atomic
operation and system call of t waits for that. The read of num_futex_waiters in
notify() is an ordinary load. It waits for the store only if `StoreBuffer` is
FALSE. ScopeLock is the client: a thread locks, then unlocks, waits or notifies.

**LockObjectBrute** (`brute.h`) instantiates the former for the parts the two
classes share and adds the spinning path and the unlock_c() that leaves the
wake-up to a spinner.

**LockObjectPthread** (`pthread.h`) has the mutex and the condition variable of
the C library, external: a signal wakes at least one waiter, a waiter may wake
by itself.

**RefObject** (`refs.h`). A Ref is used by one thread at a time and may be
handed to another. Each method is split at its accesses to shared memory:
`dec` (decrement and test), `delete`, `finish` (the pointer is cleared, then
copied or moved), `inc`. The pointer of the constructor's caller, for whom the
count starts at 1, is a Ref like others.

**PacketTransport** (`packet_queue.h`, `udp4_conn.h`) joins a send queue, a
network that is a set of datagrams (any may be received, any number of times,
in any order, or never) and a receive queue. Numbers wrap around at `SeqCount`.
The repository has no loop that drives the queues, so the client is the weakest
one that uses them as their interfaces suggest: at most `Window` packets are
unconsumed, and consumed ones are forgotten. What a loop over a range of numbers
finds is a set (`find_missing_packets`) or a function (`push_packets`), where the
order does not matter, and `Among` of the module **Selection**, the data packets
in order, where it does (`copy_data`). `disturbed` records that a packet
was renumbered by move_packet_up() or that a datagram outlived its number.

**Udp4Driver** (`udp4.h`). A packet is one unit of headers and then its data;
`packet_buffers` is a sequence of units each of which knows its packet, so that
a slice taken at the wrong place shows; `Advanced` is the pointer `data` that
send() moves over it. `sendmmsg(l, id)` is one round of
send()'s loop, `sendmmsg_failed` the exception of scall(), `dispatch` one round
of recv_all()'s loop; between rounds a connection may attach, detach, push and
send. The raw socket is external: it fills in an id of 0, cuts a datagram at the
receive buffer, and applies the port filter. Assumed: data does not look like
headers of a packet for this driver; a packet has at least its headers, ports
have 16 bits and an id two bytes (`DriverAssumption`).

**HolePunch** (`net/tcpv4.cc`, `net/socket.h`). Two peers, one behind a NAT, and
a third host. Connections are named after the one who opened them. A round
begins with `start_listen`, `start_connect` or `bind_fails`; a listener goes on
with `accept_ok`, `accept_bad_peer` (the two "Incorrent peer" exceptions) or
`accept_fails`. Durations are left out: whatever may time out may do so at any
moment.

**PeerMessages** (`conn/peers.cc`, `conn/handler.cc`, `crypto/ssl.cc`). The
stream is a sequence of words, a header two of them; SSL_read and SSL_write
move any number of them at a time and may fail.

**ConfigParser** (`config.h`). Every case of the parser's switches is an
action; `unread` is the character that `data--` puts back. A length takes one
cell of the vector instead of four bytes. find() and dump() walk the vector
step by step. `words` and `opts` are ghosts that keep what the text says
without the layout.

**Tracker** (`tracker/tracker.cc`). The four maps, flush_removed_peers() and the
searches, one loop turn per step. An iterator of the address index is a position
in the ordered addresses, and addresses wrap around at `IpCount`. What fills the
maps is not in the repository and external: peers register from any address,
also again, offer forwards, and are marked for removal. Dereferencing end() is a
choice between a crash and an entry that is no peer.

**ProtoDescr**, **GeneratedCodec** (`descr.py`, `render_cc.py`). GeneratedCodec
models what the rendered parse_ and write_ functions do when they run, for a
writer's and a reader's version of the description. `todo` is the call stack
flattened into what is left to do; a stream holds one item per number and a
length counts items. The reader the functions are given is external: the
repository's read_fragment() does not compile.

**DependencyOrder**, **ProtoOrder** (`render_all.py`). The three walks with
their stacks, one pop per step, and the loop that renders. DependencyOrder says
what the order has to be: a description is emitted once, after all its users.
ProtoOrder is shown to implement it, with `nodes <- Reachable`,
`uses <- Children` and `ordered <- order`. `IsDescription` is what the classes of
`descr.py` let anyone build: which kind of object has which children, and, since
the children come first, no cycles. Sorting the children by name is a choice of a
permutation; two children of one name are one object once the names are checked,
so it does not matter that sorted() is stable.

**FieldNumbers** (`descr.py`, render_union_enum). get_enum_int_mapping(), one
member per step, and the bits of enum and union fields. The powers of two are
those of the module **Powers**, a recursive function that a proof can unfold.

**BitStream** (`bit_writer.h`, `bit_reader.h`). Numbers written, patched and
read with items of `ElemBits` bits. The order in which write_uint_at() evaluates
its arguments is a choice; a patch of an item that is not in the vector yet ends
in `stage = "undefined"`. `expected` is the reference: the plain list of bits.
Shifts and masks are multiplication, division and remainder by `Pow2` of `Powers`.

**BlockCrypt** (`crypto/block.h`). Which ranges encrypt() and decrypt() run
through the cipher and the running sum. Bytes have no values. What happened to one
byte is what `Among` selects of the steps.

**Checksum** (`udp4.h`). The sum, its folding, and the do-while that reads a word
from a piece that has none.

**PeerAuth** (`crypto/auth.cc`, SSLHasher). The handler is called for each
certificate of a chain; the expected id may change in between, and the hasher
uses any digest, because its constructor assigns a local variable in place of
the member `md`.

`MC_LockVariants` puts the two lock variants into one state space and
`MC_Sequential` the nine components that one thread uses by itself; a variable
says which of them runs, and the others keep their initial states. Seven of the
nine are instances in `Sequential`, with constants that the configuration gives
for TLC and the proofs leave open.

## 3. The runs

| run | what it shows | bounds |
|---|---|---|
| lock_simple | MutualExclusion, WaitersCounted, NoLostWakeup, refinement of Monitor, SomeoneGetsIn | 3 threads, no store buffers |
| lock_simple_lost_wakeup | with store buffers SomeoneGetsIn fails | 2 threads |
| lock_variants | spinning lock: NoLostWakeup, refinement of Monitor, SomeoneGetsIn; pthread lock: refinement of Monitor | 3 threads, 2 spins, 1 spinner |
| lock_pthread_notify_all | notifyAll() leaves sleepers | 3 threads |
| transport | DeliveredInOrder, MissingCanBeResent, DeliveredWasPushed | 3 numbers, window 2, 5 numbers used |
| transport_zero | number 0 is used | 4 numbers |
| hole_punch | SameConnection, SocketsClosed, CallsEnd | 2 peers, 0, 2 or 3 tries, unsigned of 4 values |
| peer_messages | InStepUntilData, EmptyMessagesArrive | 1 sender, 3 messages, up to 1 word of data |
| refs | RefCountExact, NoDangling, UnheldDeleted | 2 threads, 3 references, 2 objects |
| udp4 | SendInBounds, FirstSendIntact, CalledWithPushed, PortsFiltered, SentBeforeCleared | 3 packets of 5 kinds, 2 receive buffers, MTU 2 |
| sequential | see the next table | |
| tracker_closest | a search by address misses the nearest peer | 2 peers, 4 addresses, limits -1, 0, 1, 3 |

The run `sequential`:

| component | properties | bounds |
|---|---|---|
| ConfigParser | GetFindsFirst, DumpShowsAll, ReadingEnds | texts of up to 6 characters of 7 classes |
| Tracker | NoStaleEntries, AnswersBounded, ExactHitClosest | 2 peers with 4 addresses, or with 2 forwards each; limits -1, 0, 2 |
| GeneratedCodec | FieldsReadBack | 7 pairs of versions, 2 values, arrays of up to 2 |
| ProtoOrder | DefinedBeforeUse, refinement of DependencyOrder (OrderSpec) | 60 descriptions of 7 objects |
| FieldNumbers | NumbersFit | up to 4 members with numbers 0 to 4 or none, up to 4 variants |
| BitStream | WriterExact, ReaderExact | items of 2 bits, numbers of up to 4, streams of up to 7 |
| BlockCrypt | UndoneInReverse | blocks of 4, every size from 4 to 19 |
| Checksum | ChecksumVerifies | words below 4, up to 4 pieces of up to 3 words and a byte |
| PeerAuth | VerifiedIsExpected | 2 keys, 2 digests, chains of 0 to 5, at most 4 allowed |

Why these bounds are enough to be interesting. With three threads one holds the
lock, one sleeps for it and one is anywhere between unlocking and waking; the
proofs cover more. Five uses of three sequence numbers wrap around with the
window full. Two tries give a peer each role once, three make the roles of the
peers drift apart, and 0 tries wrap the counter. Three messages are one before,
one with and one after data. Two references can be dropped by two threads
while a third copies. Three pushes are two batches, the second of which finds
the bytes of the first. Six characters hold two options, a block with an option
in it (`a{a}`) and a sibling (`a{a}aa`), or a value of three strings.
Four addresses put entries on both sides of the one searched for, and two
forwards of two peers exceed a limit of 2. The pairs of versions have a field
appended by the writer or the reader, in a structure inside a structure, an
array and a union. The descriptions share children, use a structure twice and
have names that collide. A number of 4 bits begins in one item, fills a second
and ends in a third. Sums below 52 with words below 4 fold several times. A
chain may be one certificate too long.

Deadlock checking is on in `udp4`. It is off elsewhere because the system may
stop: a bounded history is used up, a peer's call has ended, a parse has failed,
or all threads wait() with nobody left to notify.

Fairness. Locks and references: weak fairness of the steps inside a method, so a
thread that is running a method goes on, and of `drain`, since a store buffer
empties. Nothing obliges a client to call, the kernel to interrupt a sleep, or a
spinner to win. Hole punching: connect(), accept4() and the sleep all have
timeouts, so each peer's own step happens; nobody is obliged to connect to us.
Peer messages: the writing and the reading thread run and an unbroken connection
carries data; failures are never obliged. Configuration: get() and dump() run;
the other components of `sequential` need none, their properties are about safety.

### What the violated properties say

- **lock_simple_lost_wakeup.** unlock_c() stores 0 and then loads
  num_futex_waiters. If the load executes before the store is visible, a thread
  can count itself and fall asleep on a word that still reads 1, unseen by the
  unlocker. It is not woken until the next unlock, if there is one. A full
  barrier between the two (or an atomic exchange for the release) repairs it:
  that is `StoreBuffer = FALSE`, for which the absence of lost wake-ups is
  proved.
- **lock_pthread_notify_all.** notifyAll() calls pthread_cond_signal().
- **transport_zero.** `++end_seq` reaches 0 after 65535 packets, while the
  comments say that number is omitted.
- **tracker_closest.** find_ipv4_closest_peers() starts `it_prev` at
  lower_bound(), the entry at or above the address, and ends its loops at begin()
  without looking at that entry. The smallest address is never found; for an
  address that is not registered the next one above may be found twice or end()
  read. ExactHitClosest says what is left: around a registered address, all but
  the smallest entry are found, nearest first.

### Seen while modelling

The models follow the code where it does something its author may not have
meant; properties then state what does hold.

- `simple.h:41`: wait() unlocks before it counts itself as a waiter, so a
  notifyAll() in between reaches nobody. The monitor's Wait and Resume allow
  that (a waiter is never promised a wake-up), so refinement holds.
- `packet_queue.h:137`: the receive queue stores any number that arrives; a late
  duplicate is delivered a cycle later. `packet_queue.h:203`: a renumbered
  packet is delivered at its new place, and nothing fills the mapping that would
  undo it. Both set `disturbed`, after which only DeliveredWasPushed is claimed.
- `udp4.h:103`: clear() calls `packet_buffers.empty()`, which changes nothing.
  Every send() after the first starts at the bytes of the first batch. That is
  why FirstSendIntact ends with the first clear(); CalledWithPushed shows that
  the receiver's length check still keeps a connection from seeing a mixture.
- `tcpv4.cc:83`: `settings.src_addr || INADDR_ANY` is 0 or 1, so a configured
  source address cannot be bound (`bind_addr`).
- `tcpv4.cc:70`: accept4() gets an uninitialised address length, so the right
  peer may be refused as an incorrect one; the accepted socket is then left
  open (the exception of SocketsClosed).
- `peers.cc:97`: the reader never reads the data of a message and takes it for
  the next header. Hence InStepUntilData and EmptyMessagesArrive.
- `tracker.cc:18`: a peer that registers again while it waits for its removal is
  flushed with its new registration. `tracker.cc:38`: a limit of 0 finds one peer,
  and `tracker.cc:100` leaves the inner loop only.
- `render_cc.py:269`: generated code passes the number of bits first to
  write_uint(), BitBufferWriter takes it second; each works by itself, and they
  are modelled by themselves. `render_cc.py:221`: a flag is read for a field with
  a default and never written, so FieldsReadBack excludes such fields.
  `render_cc.py:241`: an array of unions refers to `vec_item_type`, which does not
  exist.
- `render_all.py:37`: an enum class is no instance of Enum, so a description with
  an enum raises. `render_all.py:45`: of an array of arrays nothing is found.
  `render_all.py:143`: a union used by two fields of different names is defined
  twice, and a union given as a head not at all.
- `descr.py:60`: an enum whose largest number is a power of two gets one bit too
  few (the exception of NumbersFit).
- `bit_writer.h:61` and `65`: a patch clears the bits below it, or takes them from
  the next item (`damaged`). `bit_writer.h:76`: pick_data() keeps out_v.
  `bit_reader.h:36`: one bit more than asked for is returned, and `45`: of a number
  that straddles items the parts are put together in the wrong order; ReaderExact
  speaks of the lower bits of numbers inside an item. `bit_reader.h:79`: the
  position adds the unread bits in place of subtracting.
- `block.h:172`: decrypt() subtracts the last deciphered block, not the last
  enciphered sum, so the values do not come back beyond the first blocks. The tail
  is written to `in`, so the two functions only work in place, and a message
  shorter than a block makes the sizes wrap around.
- `udp4.h:28`: a UDP payload of one byte or none makes add() read a word behind
  it. A checksum of 0 is sent as 0, which means "none".
- `sgn.cc:153`: SSLHasher looks a digest up and keeps it in a local variable.
- `config.h:294`: a parse() that throws leaves a vector with lengths of 0, on
  which find() would not end. Only the constructor calls it.

## 4. The proofs

Eight modules hold theorems. A theorem is about the same `Spec` that TLC runs, and
rests on nothing but the named assumptions of the module, which TLC evaluates, or
on hypotheses it states itself.

| module | theorems | for every |
|---|---|---|
| LockObjectSimpleProofs | SpecTypeOK, SpecMutualExclusion, SpecWaitersCounted, SpecNoLostWakeup, SpecRefinesMonitor | finite set of threads, both memory models (NoLostWakeup: without store buffers) |
| LockVariantsProofs | PthreadRefinesMonitor, BruteNoLostWakeup, BruteRefinesMonitor | finite set of threads, spin limit and number of spinners; memory models as above |
| RefObjectProofs | SpecTypeOK, SpecRefCountExact, SpecNoDangling | set of threads and objects, finite set of references |
| PacketTransportProofs | InOrderDelivery, ResendPossible, DeliveryIntegrity | count of numbers, window below it, even packet sizes, length of history |
| | CryptUndoneInReverse | block size, and size of the message from one block on |
| RendezvousProofs | Agreement, NoSocketLeak | number of tries, width of unsigned, queue length, address, NAT |
| | TrackerNoStaleEntries, TrackerAnswersBounded, TrackerExactHitClosest | peers, addresses, forwards and limits |
| PeerMessagesProofs | HeadersInStep | messages, sizes and numbers of them, for one sender |
| Udp4DriverProofs | SendStaysInBounds, FirstSendsArePackets, CallsAreIntact, FilterHolds, ClearedAfterSent | packets, addresses, connections, receive buffers, 16-bit ports |
| SequentialProofs | AuthVerifiedIsExpected | keys, digests and chains |
| | ChecksumIsRight | words, pieces and word size |
| | FieldNumbersFit | members and their numbers |
| | BitWriterExact, BitReaderExact | bits of an item, lengths of numbers and streams |
| | ProtoDefinedBeforeUse, ProtoOrderImplements | descriptions, of any number and nesting |

**LockObjectSimpleProofs.** MutualExclusion is not inductive: it says nothing
about a thread whose release store is still in its buffer, and nothing about
which labels belong to which method. `LockInv` adds `OneHolder` (at most one
thread is inside or has a pending store, and then the word is 1), `Phases`
(labels, methods and being inside agree) and `WaitersCounted`, which is
inductive once `Phases` is known; `ReleasedFirst` says where a pending store can
be without store buffers. From these follow the safety properties on both
machines, and:

- `SpecNoLostWakeup`, without store buffers: whoever frees the word is at `check`
  until it has read the count, the count is exact, so either it wakes a sleeper,
  who is then at `sub`, or nobody slept when it looked, and whoever falls asleep
  later compares the word first;
- `SpecRefinesMonitor`, on both machines: every step is a step of the monitor,
  or leaves the owner and the waiting threads alone.

**LockVariantsProofs.** The spinning lock takes `futex_wait` and its neighbours
from the futex lock, so `BruteInv` has the same parts, restated for its own
labels: a spinner that has won the lock is inside while it still has to leave
__brute_lock_wait(), and both counters are exact. unlock_c() returns without a wake-up
when it sees a spinner, so the argument for `BruteNoLostWakeup` has one case
more: a spinner seen has still to leave __brute_lock_wait(), either with the lock or
to compare the word before it sleeps. For the pthread lock it is enough to know
that a thread is in one library call at a time (`OneCall`).

**RefObjectProofs.** RefCountExact speaks of references that are counted, so the
invariant has to say when one is not. `RefInv` adds `OwnRefs` (a method works on
references of its own thread, so two methods never share one), `HeldLive` (what
a counted reference points to is alive) and `InProgress` (a copy that has not
counted itself yet has the copied reference to keep the object alive; a
deletion under way is the only one, of an object nobody is counted for). Each
action changes the holders of at most one object by at most one reference; the
four lemmas `CountKept`, `CountUp`, `CountDown` and `CountMoved` are the four
ways. The decrement that reaches 0 leaves no counted holder, so nobody can copy
or decrement again.

**PacketTransportProofs.** Numbers are taken apart from what they stand for: the
n-th push has the number n % SeqCount. Until something is `disturbed`,
`TransportInv` says that the send queue is exactly the window of pushes not yet
forgotten (`SendWindow`), a datagram carries the push it was made from
(`NetWindow`), the receive queue holds pushes not yet consumed (`RecvWindow`), and
what was copied out is the data among the pushes consumed (`Consumed`). A window
smaller than SeqCount makes n % SeqCount injective on it, which is the one place where
arithmetic decides: two pushes of one window never share a number. `Integrity`,
which needs no window, survives disturbance and gives `DeliveryIntegrity`.

The module has the block encryption too, which is about `Among` as well.
`CryptInv` gives the steps after k rounds by their position: two per block, on
consecutive ranges (`Made`, `Enciphered`, `Deciphered`). A message with a
rest has one range more, the last block_size bytes, which overlaps the last whole
block, so a byte lies in one range or in two. What decrypt() does to a byte is the
mirror of what encrypt() did in each of the cases, also where ranges overlap.

**RendezvousProofs.** For hole punching, SameConnection needs to know what a returned call says about
the other peer, and what a queued connection says about the peer that opened it.
`Agreed`: a simultaneous open has both ends; an accepted connection was connected
to and not reset; two connect() calls cannot both have met a listening socket.
`Queued`: the other peer is at most once in the queue of a listener, and then its
call has returned that connection. `OpenByPhase` fixes the open sockets at each
point of a call. The assumption is that there are two peers, with names that
differ from those of the other connections.

For the tracker, NoStaleEntries is inductive as it stands. AnswersBounded is not,
for the forwards: `SearchInv` has the number of peers already asked in place of
all, each of whom may have added one beyond the limit; it needs a finite set of
peers and integer limits. For ExactHitClosest, `WalkInv`: when the address searched
for is in the index, the answers so far are exactly the entries strictly between
the two iterators, nearest first and each once, and an entry outside is no nearer
than any of them. Behind an exact hit neither unsigned difference wraps around,
which is why the theorem speaks of exact hits. The entry at begin() is never looked
at, because each loop that goes down stops in front of it; the theorem excepts it.

**PeerMessagesProofs.** InStepUntilData compares calls with messages; the words
between them are cut anywhere. The invariant counts words from the first one
ever written: as long as the messages before the m-th are empty, words 2m - 1 and
2m are its header, wherever they are: read (`InRead`), in the stream
(`InStream`), or still to be written (`AtEnd`, `InHeader`, `InData`). After a
failed write the writer is not described any more, since it stops. With two
senders the theorem is false (`peers.cc:47`), which is why it names one.

**Udp4DriverProofs.** `packet_buffers` is never emptied, so the descriptors of a
later batch address the bytes of the first. What survives is `Whole` (from any
unit in the buffer the rest of its packet follows) and `Covered` (the descriptors
are no longer than the bytes), and `SendInBounds` is the second. A slice that
begins with headers therefore goes on with the packet they belong to (`Fits`,
kept by `OnWire`), and the length check of recv_all() makes it that whole packet:
`CallsAreIntact`. Until the first clear() descriptors and packets agree
(`Aligned`), hence `FirstSendsArePackets`. `Received` adds the filter, `Progress`
that what send() counts as sent is on the network, which gives the action property
`ClearedAfterSent`.

**SequentialProofs.** `Sequential` instantiates seven components, and each
theorem is about the specification of one of them; those of the tracker and of the
block encryption are in the two modules above.

- *PeerAuth.* VerifiedIsExpected is inductive as it stands.
- *Checksum.* `SumInv`: folding takes off multiples of Base - 1, so what is left is
  congruent to what was to be added, unless a word was read from a piece that has
  none; the complement then makes the sum a multiple of Base - 1, and a positive
  one. Base is any number above 1.
- *FieldNumbers.* `NumInv`: the numbers given so far increase and stay below the next
  one; the largest is at most 2 to the bits of its field, with equality only for a
  power of two (the exception of NumbersFit).
- *BitStream.* `StreamInv` has two halves. While writing (`WriterHolds`), items are
  below 2^ElemBits, the current one below 2^bits_out, their bits count up to
  the length of `expected`, and every position not `damaged` holds its expected bit.
  write_uint() is `PutInside` or `PutAcross`, the latter item by item: the rest of the
  current item, whole items, what is left over. write_uint_at() is a patch (`PatchedTo`) that
  gives its own bits their values and disturbs no others but those below it in its first
  item; `FirstItem`, `MiddleItem` and `LastItem` are what the loop does to one item. While reading
  (`ReaderIn`), `Place` says that the current item is one of the writer's without the bits
  already read, and `Right` that the last answer fits the items and the position
  behind it; a read that needs more items has used up the bits before them (`Underway`).
  The arithmetic is in a dozen lemmas about `Bit`: which bits a sum
  with a shifted number, a remainder and a quotient have (`BitBelow`, `BitAbove`, `BitMod`, `BitDiv`).
- *ProtoOrder.* `OrderInv` has one conjunct per walk. Validation and counting are
  alike (`Stacked`): what was visited has all its children visited or on the stack,
  so an empty stack leaves nothing reachable out. After the
  validation different objects have different names (`Distinct`), so a dictionary
  by name is one by object. `Counting`: the count of a visited object is its places
  outside the stack, in the heads and in the children of what was visited.
  `Ordering`: the count that is left is its places on the stack and in the children of
  objects not emitted yet. So it is 0 exactly when the last user has been emitted and
  nothing more is on the stack, which gives `UsersFirst` and the refinement;
  since nothing uses itself through others (`IsDescription`, which
  `InputsAreDescriptions` assumes of the inputs), an empty stack leaves no object with
  a count. The rendering goes through the order from its end
  (`Unrendered`), so what a definition mentions was rendered before it.

`Advanced`, `SumOf`, `Among` and `Pow2` are recursive functions. What they compute is
shown by an induction on sets (SetInduction, on the set of indices for which the
claim holds), because the induction theorems with an operator parameter cannot
be used.

Model-checked only:

- the liveness properties SomeoneGetsIn, CallsEnd, EmptyMessagesArrive,
  UnheldDeleted, ReadingEnds: the provers do not handle fairness;
- GetFindsFirst, DumpShowsAll, FieldsReadBack: what a parser makes of any
  text, or of what any writer wrote, is an induction over nested data.

## 5. What is not modelled

- The timed futex_wait() of both futex locks: nothing calls it.
- The movable guards of `scope.h`: nothing instantiates them.
- Contents: bytes of packets and messages, the cipher and its key schedule, what
  a digest computes. Key generation and context set-up are lists of OpenSSL calls
  that keep no state of the repository's own.
- `packet_buffer.h`: no operation adds a packet, so all its states are empty.
  `packet_sequence.h`: included nowhere.
- `compat.py`: called nowhere, and isinstance() with a set raises for every pair
  of fields. `render_py.py`, `render_pyx.py`: text only.
- `enc.h`, `dec.h`: included nowhere, not valid C++.
- read_fragment() of `bit_reader.h`, which does not compile; read_int(),
  read_float() and the other functions that generated code calls are not in the
  repository.
- Two threads in the tracker: the code has no locks yet and says so.
- Durations in hole punching.
- Two threads that send to one peer (`peers.cc:47`) or register handlers while
  the reader looks one up (`handler.cc:14`): the code has no locks there yet and
  says so.
- `buffer.h` (included nowhere, not valid C++), logging, assertions, error
  texts, the programs `test.cc` and `net_test.cc`.

## 6. Plan

Done: every component that keeps state and compiles has a module; proofs of the
safety properties of all components with threads, messages or sockets, and of
seven of those in `sequential`.

Abstract specifications still worth stating: a reliable FIFO channel for the
transport without disturbance, and a lossy one for the driver.
