------------------------------ MODULE Sequential ------------------------------
(***************************************************************************)
(* Components that one thread uses by itself: the tracker, the peer        *)
(* authentication, the checksum of the driver, the block encryption, the   *)
(* numbers of a description, the bit streams and the order of the          *)
(* descriptions.  They share nothing.  Their properties are proved, each   *)
(* for its own specification: the tracker's in RendezvousProofs, the block *)
(* encryption's in PacketTransportProofs, the others' in SequentialProofs. *)
(* MC_Sequential checks them beside the other components of this kind.     *)
(***************************************************************************)
EXTENDS Integers, Sequences

CONSTANTS
  TrackedPeers, IpCount, Forwards, Limits,  \* of Tracker, whose Peers are TrackedPeers
  Keys, Digests, CERT_MAX_DEPTH, MaxChain,  \* of PeerAuth
  Base, ByteBase, MaxWords, MaxPieces,      \* of Checksum
  block_size, MaxSize,                      \* of BlockCrypt
  Numbers, NotInt, MaxMembers,              \* of FieldNumbers
  ElemBits, MaxBits, MaxField,              \* of BitStream
  Inputs                                    \* of ProtoOrder

VARIABLES
  tracker_peer_info, removed_peers, IPv4_peer_idx, conn_forward_info, search,
  verify_peer, peer_id, chain, left, handshake,
  sum, pieces, total, overread, check,
  crypt_call, size, position, encrypted, decrypted,
  members, next_num, mapping, descr,
  stage, out, out_v, bits_out, expected, damaged,
  bit_size, items_read, cur_item, cur_item_bits, reading, last_read,
  progress, input, objs_stack, objs_by_name, entries_count, order, rendered

T == INSTANCE Tracker WITH Peers <- TrackedPeers
A == INSTANCE PeerAuth
S == INSTANCE Checksum
E == INSTANCE BlockCrypt
N == INSTANCE FieldNumbers
B == INSTANCE BitStream
O == INSTANCE ProtoOrder

\* What is rendered was constructed as descriptions are (descr.py:97-134).
ASSUME InputsAreDescriptions == \A i \in Inputs : O!IsDescription(i)

\* No index entry and no forward outlives its peer (tracker.cc:16-29).
NoStaleEntries == T!NoStaleEntries

\* How far a search may exceed its limit (tracker.cc:38, 99).
AnswersBounded == T!AnswersBounded

\* The search around a registered address is right (tracker.cc:47-87).
ExactHitClosest == T!ExactHitClosest

\* A verified handshake is with the expected peer (auth.cc:44-94).
VerifiedIsExpected == A!VerifiedIsExpected

\* A receiver finds the checksum right (udp4.h:24-41).
ChecksumVerifies == S!ChecksumVerifies

\* decrypt() undoes the steps of encrypt() in reverse (block.h:127-197).
UndoneInReverse == E!UndoneInReverse

\* Numbers are distinct and fit the bits of their fields (descr.py:53-145).
NumbersFit == N!NumbersFit

\* The writer's bits are those given to it (bit_writer.h:30-76).
WriterExact == B!WriterExact

\* The reader throws at the end only, and reads what an item holds (bit_reader.h:20-52).
ReaderExact == B!ReaderExact

\* The header defines before it uses, and defines all (render_all.py:60-153).
DefinedBeforeUse == O!DefinedBeforeUse

\* order_descrs() emits a description after all its users (render_all.py:92-112).
OrderSpec == O!OrderSpec
===============================================================================
