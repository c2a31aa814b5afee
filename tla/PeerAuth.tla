------------------------------- MODULE PeerAuth -------------------------------
(***************************************************************************)
(* crypto/auth.cc: the check, during a TLS handshake, that the key of the  *)
(* peer's certificate has the id that is expected of it.  SSL keeps a      *)
(* pointer to the expected id, which its owner may change; OpenSSL calls   *)
(* the handler for every certificate of the chain, the peer's own last.    *)
(***************************************************************************)
EXTENDS Integers, Sequences

CONSTANTS
  Keys,            \* public keys
  Digests,         \* the digests a hasher may happen to use
  CERT_MAX_DEPTH,
  MaxChain         \* the longest chain a peer presents

VARIABLES
  verify_peer,  \* the handler is installed
  peer_id,      \* the id that SSL_get_ex_data() points to, or NoId
  chain,        \* the keys of the peer's chain, its own first
  left,         \* certificates the handler is still to be called for
  handshake     \* "none", "running", "established" or "failed"

vars == <<verify_peer, peer_id, chain, left, handshake>>

NoId == [digest |-> "none", key |-> "none"]

\* peer_id_from_sha512(): SSLHasher's constructor looks sha512 up and keeps it in
\* a local variable, so the digest is whatever md was before.
peer_id_from_sha512(key) == [digest : Digests, key : {key}]
PeerIds == UNION {peer_id_from_sha512(k) : k \in Keys}

Init ==
  /\ verify_peer = FALSE /\ peer_id = NoId
  /\ chain = <<>> /\ left = 0 /\ handshake = "none"

ssl_add_verify_peer_id(id) ==
  /\ handshake = "none"
  /\ peer_id' = id /\ verify_peer' = TRUE
  /\ UNCHANGED <<chain, left, handshake>>

ssl_clear_verify_peer_id ==
  /\ handshake = "none"
  /\ peer_id' = NoId /\ verify_peer' = FALSE
  /\ UNCHANGED <<chain, left, handshake>>

\* The owner of the id changes it.
overwrite_id(id) ==
  /\ handshake \in {"none", "running"} /\ peer_id # NoId
  /\ peer_id' = id
  /\ UNCHANGED <<verify_peer, chain, left, handshake>>

\* SSL_connect() or SSL_accept(), as far as the peer's certificates.
receive_chain(keys) ==
  /\ handshake = "none"
  /\ chain' = keys /\ left' = Len(keys)
  /\ handshake' = IF ~verify_peer THEN "established"
                  ELSE IF keys = <<>> THEN "failed" ELSE "running"
  /\ UNCHANGED <<verify_peer, peer_id>>

\* What the handler returns: it compares the id of the peer's certificate, for
\* whichever certificate it is called, and everything it throws counts as 0.
Accepts(current_peer_id) ==
  /\ Len(chain) >= 1 /\ Len(chain) <= CERT_MAX_DEPTH
  /\ peer_id # NoId
  /\ current_peer_id = peer_id

\* A handler that identifies the peer by the end of its chain.
MutVerifyHandler(preverify_ok) ==
  /\ handshake = "running"
  /\ \E id \in peer_id_from_sha512(chain[Len(chain)]) :
       handshake' = IF ~(preverify_ok /\ Accepts(id)) THEN "failed"
                    ELSE IF left = 1 THEN "established" ELSE "running"
  /\ left' = left - 1
  /\ UNCHANGED <<verify_peer, peer_id, chain>>

ssl_peer_id_verify_handler(preverify_ok) ==
  /\ handshake = "running"
  /\ \E id \in peer_id_from_sha512(chain[1]) :
       handshake' = IF ~(preverify_ok /\ Accepts(id)) THEN "failed"
                    ELSE IF left = 1 THEN "established" ELSE "running"
  /\ left' = left - 1
  /\ UNCHANGED <<verify_peer, peer_id, chain>>

\* The hasher throws: the digest it happens to have is none.
hasher_throws ==
  /\ handshake = "running"
  /\ handshake' = "failed"
  /\ UNCHANGED <<verify_peer, peer_id, chain, left>>

close ==
  /\ handshake \in {"established", "failed"}
  /\ chain' = <<>> /\ left' = 0 /\ handshake' = "none"
  /\ UNCHANGED <<verify_peer, peer_id>>

Next ==
  \/ \E id \in PeerIds : ssl_add_verify_peer_id(id) \/ overwrite_id(id)
  \/ ssl_clear_verify_peer_id
  \/ \E n \in 0..MaxChain : \E keys \in [1..n -> Keys] : receive_chain(keys)
  \/ \E preverify_ok \in BOOLEAN : ssl_peer_id_verify_handler(preverify_ok)
  \/ hasher_throws \/ close

Spec == Init /\ [][Next]_vars

------------------------------------------------------------------------------
\* A handshake that ends well with the handler installed is with the holder of the
\* key whose id is expected at its end, over a chain of 1 to CERT_MAX_DEPTH
\* certificates, even if the id changed while the chain was being verified or the
\* ids were made with different digests (auth.cc:9-37, 44-94).
VerifiedIsExpected ==
  handshake = "established" /\ verify_peer =>
    /\ chain # <<>> /\ Len(chain) <= CERT_MAX_DEPTH
    /\ chain[1] = peer_id.key
================================================================================
