--------------------------- MODULE SequentialProofs ---------------------------
(***************************************************************************)
(* Proofs about components that one thread uses by itself, for every value *)
(* of their constants: the peer authentication, the checksum, the numbers  *)
(* of a description, the bit streams and the order of the descriptions.    *)
(***************************************************************************)
EXTENDS Sequential, Powers, FiniteSetTheorems, SequenceTheorems,
        WellFoundedInduction, TLAPS

------------------------------------------------------------------------------
(* Division and induction.  Recursive functions are followed with sets of  *)
(* natural numbers that hold 0 and are closed under successor.             *)

\* The quotient and the remainder.
LEMMA Division ==
  ASSUME NEW a \in Int, NEW m \in Nat \ {0}
  PROVE  /\ a % m \in 0..(m - 1) /\ a \div m \in Int
         /\ a = (m * (a \div m)) + (a % m)
  OBVIOUS

\* The remainder is unique.
LEMMA Remainder ==
  ASSUME NEW m \in Nat \ {0}, NEW q \in Int, NEW r \in 0..(m - 1),
         NEW a \in Int, a = (m * q) + r
  PROVE  a % m = r
  <1>1. PICK p \in Int, z \in 0..(m - 1) : z = a % m /\ a = (m * p) + z
    <2>1. /\ a % m \in 0..(m - 1) /\ a \div m \in Int
          /\ a = (m * (a \div m)) + (a % m)
      BY Division, Zenon
    <2> QED
      BY <2>1, Zenon
  <1>2. PICK x \in Int, y \in Int : x = m * p /\ y = m * q
    OBVIOUS
  <1>3. x + z = y + r
    BY <1>1, <1>2
  <1>4. ASSUME p >= q + 1 PROVE FALSE
    <2>1. m * (p - q) >= m
      BY <1>4
    <2>2. x - y >= m
      BY <2>1, <1>2
    <2> QED
      BY <2>2, <1>3
  <1>5. ASSUME q >= p + 1 PROVE FALSE
    <2>1. m * (q - p) >= m
      BY <1>5
    <2>2. y - x >= m
      BY <2>1, <1>2
    <2> QED
      BY <2>2, <1>3
  <1>6. p = q
    BY <1>4, <1>5
  <1> QED
    BY <1>1, <1>2, <1>3, <1>6

\* A set of natural numbers with 0 and all successors has them all.
LEMMA SetInduction ==
  ASSUME NEW H \in SUBSET Nat, 0 \in H, \A n \in H : n + 1 \in H
  PROVE  H = Nat
  <1> DEFINE Less == OpToRel(<, Nat)
             Rest == Nat \ H
  <1>1. SUFFICES ASSUME Rest # {} PROVE FALSE
    OBVIOUS
  <1>2. IsWellFoundedOn(Less, Nat)
    BY NatLessThanWellFounded
  <1>3. \A x, y \in Nat : y < x => <<y, x>> \in Less
    BY DEF OpToRel
  <1> HIDE DEF Less
  <1>4. PICK n \in Rest : \A k \in Rest : <<k, n>> \notin Less
    BY <1>1, <1>2, WFMin, Rest \subseteq Nat
  <1>5. n \in Nat /\ n # 0 /\ n - 1 \in Nat /\ n - 1 < n
    OBVIOUS
  <1>6. n - 1 \in H
    BY <1>3, <1>4, <1>5
  <1>7. (n - 1) + 1 \in H /\ (n - 1) + 1 = n
    BY <1>5, <1>6
  <1> QED
    BY <1>7

\* What the recursive function Pow2 satisfies up to n.
Doubles(g, n) == g = [k \in 0..n |-> IF k = 0 THEN 1 ELSE 2 * g[k - 1]]

\* One turn of the recursion.
LEMMA DoublesAt ==
  ASSUME NEW n \in Nat, NEW g, Doubles(g, n)
  PROVE  g[0] = 1 /\ \A k \in 1..n : g[k] = 2 * g[k - 1]
  <1>1. \A k \in 0..n : g[k] = IF k = 0 THEN 1 ELSE 2 * g[k - 1]
    BY Zenon DEF Doubles
  <1>2. 0 \in 0..n /\ \A k \in 1..n : k \in 0..n /\ k # 0
    OBVIOUS
  <1> QED
    BY <1>1, <1>2

\* The recursion has a solution up to any number.
LEMMA DoublesExists ==
  ASSUME NEW n \in Nat PROVE \E g : Doubles(g, n)
  <1> DEFINE H == {k \in Nat : \E g : Doubles(g, k)}
  <1>1. 0 \in H
    <2>1. Doubles([k \in 0..0 |-> 1], 0)
      BY DEF Doubles
    <2> QED
      BY <2>1
  <1>2. ASSUME NEW k \in H PROVE k + 1 \in H
    <2>1. PICK g : Doubles(g, k)
      OBVIOUS
    <2> DEFINE h == [i \in 0..(k + 1) |-> IF i <= k THEN g[i] ELSE 2 * g[k]]
    <2>2. ASSUME NEW i \in 0..(k + 1) PROVE h[i] = IF i = 0 THEN 1 ELSE 2 * h[i - 1]
      <3>1. CASE i = k + 1
        BY <3>1
      <3>2. CASE i = 0
        BY <3>2, <2>1, DoublesAt
      <3>3. CASE i \in 1..k
        <4>1. h[i] = g[i] /\ h[i - 1] = g[i - 1]
          BY <3>3
        <4>2. g[i] = 2 * g[i - 1]
          BY <3>3, <2>1, DoublesAt
        <4> QED
          BY <3>3, <4>1, <4>2
      <3> QED
        BY <3>1, <3>2, <3>3
    <2>3. Doubles(h, k + 1)
      BY <2>2 DEF Doubles
    <2> QED
      BY <2>3
  <1>3. H = Nat
    BY <1>1, <1>2, SetInduction
  <1> QED
    BY <1>3

\* Two solutions agree as far as both go.
LEMMA DoublesAgree ==
  ASSUME NEW n \in Nat, NEW g, Doubles(g, n), NEW h, Doubles(h, n + 1)
  PROVE  g[n] = h[n]
  <1> DEFINE H == {k \in Nat : k <= n => g[k] = h[k]}
  <1>1. 0 \in H
    BY DoublesAt
  <1>2. ASSUME NEW k \in H PROVE k + 1 \in H
    <2>1. CASE k + 1 <= n
      <3>1. k + 1 \in 1..n /\ k + 1 \in 1..(n + 1) /\ (k + 1) - 1 = k /\ g[k] = h[k]
        BY <2>1
      <3>2. g[k + 1] = 2 * g[(k + 1) - 1]
        BY <3>1, DoublesAt
      <3>3. h[k + 1] = 2 * h[(k + 1) - 1]
        BY <3>1, DoublesAt, n + 1 \in Nat
      <3> QED
        BY <3>1, <3>2, <3>3
    <2>2. CASE ~(k + 1 <= n)
      BY <2>2
    <2> QED
      BY <2>1, <2>2
  <1>3. H = Nat
    BY <1>1, <1>2, SetInduction
  <1> QED
    BY <1>3

\* Pow2 doubles with every bit.
LEMMA Pow2Unfold == Pow2[0] = 1 /\ \A k \in Nat : Pow2[k + 1] = 2 * Pow2[k]
  <1> DEFINE G(n) == CHOOSE g : Doubles(g, n)
             f == [n \in Nat |-> G(n)[n]]
             Powers(p) == p = [k \in Nat |-> IF k = 0 THEN 1 ELSE 2 * p[k - 1]]
  <1>1. \A n \in Nat : Doubles(G(n), n)
    BY DoublesExists
  <1> HIDE DEF G
  <1>2. ASSUME NEW k \in Nat PROVE f[k] = IF k = 0 THEN 1 ELSE 2 * f[k - 1]
    <2>1. CASE k = 0
      BY <1>1, <2>1, DoublesAt
    <2>2. CASE k # 0
      <3>1. PICK n \in Nat : k = n + 1 /\ k - 1 = n /\ k \in 1..(n + 1)
        BY <2>2, k - 1 \in Nat
      <3>2. G(n + 1)[n] = G(n)[n]
        BY <1>1, DoublesAgree, n + 1 \in Nat
      <3>3. G(n + 1)[n + 1] = 2 * G(n + 1)[n]
        <4>1. Doubles(G(n + 1), n + 1) /\ n + 1 \in Nat /\ n + 1 \in 1..(n + 1) /\ (n + 1) - 1 = n
          BY <1>1
        <4>2. PICK g, m : g = G(n + 1) /\ m = n + 1
          OBVIOUS
        <4>3. \A i \in 1..m : g[i] = 2 * g[i - 1]
          BY <4>1, <4>2, DoublesAt
        <4> QED
          BY <4>1, <4>2, <4>3
      <3> QED
        BY <2>2, <3>1, <3>2, <3>3
    <2> QED
      BY <2>1, <2>2
  <1>3. Powers(f)
    BY <1>2
  <1>4. Powers(CHOOSE p : Powers(p))
    BY <1>3
  <1>5. Powers(Pow2)
    BY <1>4, Zenon DEF Pow2
  <1>6. PICK p : p = Pow2
    OBVIOUS
  <1>7. p = [k \in Nat |-> IF k = 0 THEN 1 ELSE 2 * p[k - 1]]
    BY <1>5, <1>6
  <1>8. \A k \in Nat : p[k] = IF k = 0 THEN 1 ELSE 2 * p[k - 1]
    BY <1>7, Zenon
  <1>9. p[0] = 1 /\ \A k \in Nat : p[k + 1] = 2 * p[k]
    <2>1. 0 \in Nat /\ \A k \in Nat : k + 1 \in Nat /\ k + 1 # 0 /\ (k + 1) - 1 = k
      OBVIOUS
    <2> QED
      BY <1>8, <2>1
  <1> QED
    BY <1>6, <1>9

\* k bits are enough for k numbers, and for one more.
LEMMA Pow2Grows == \A k \in Nat : Pow2[k] \in Nat /\ Pow2[k] >= k + 1
  <1> DEFINE H == {k \in Nat : Pow2[k] \in Nat /\ Pow2[k] >= k + 1}
  <1>1. 0 \in H
    BY Pow2Unfold
  <1>2. ASSUME NEW k \in H PROVE k + 1 \in H
    <2>1. Pow2[k + 1] = 2 * Pow2[k] /\ Pow2[k] \in Nat /\ Pow2[k] >= k + 1
      BY Pow2Unfold
    <2> QED
      BY <2>1
  <1>3. H = Nat
    BY <1>1, <1>2, SetInduction
  <1> QED
    BY <1>3

\* The instances' powers of two are these.
LEMMA SamePow2 == N!Pow2 = Pow2 /\ B!Pow2 = Pow2
  BY Zenon DEF Pow2, N!Pow2, B!Pow2

------------------------------------------------------------------------------
(* PeerAuth.                                                               *)

\* For any keys, digests and chains: a handshake that is established with the
\* handler installed is with the expected peer (auth.cc:9-37, 44-94).
THEOREM AuthVerifiedIsExpected == A!Spec => []VerifiedIsExpected
  <1>1. A!Init => A!VerifiedIsExpected
    BY DEF A!Init, A!VerifiedIsExpected
  <1>2. A!VerifiedIsExpected /\ [A!Next]_A!vars => A!VerifiedIsExpected'
    <2> SUFFICES ASSUME A!VerifiedIsExpected, [A!Next]_A!vars PROVE A!VerifiedIsExpected'
      OBVIOUS
    <2> USE DEF A!VerifiedIsExpected
    <2>1. ASSUME NEW id, A!ssl_add_verify_peer_id(id) \/ A!overwrite_id(id)
          PROVE  A!VerifiedIsExpected'
      BY <2>1 DEF A!ssl_add_verify_peer_id, A!overwrite_id
    <2>2. ASSUME A!ssl_clear_verify_peer_id \/ A!hasher_throws \/ A!close
          PROVE  A!VerifiedIsExpected'
      BY <2>2 DEF A!ssl_clear_verify_peer_id, A!hasher_throws, A!close
    <2>3. ASSUME NEW keys, A!receive_chain(keys) PROVE A!VerifiedIsExpected'
      BY <2>3 DEF A!receive_chain
    <2>4. ASSUME NEW preverify_ok \in BOOLEAN, A!ssl_peer_id_verify_handler(preverify_ok)
          PROVE  A!VerifiedIsExpected'
      <3>1. PICK id \in A!peer_id_from_sha512(chain[1]) :
              handshake' = IF ~(preverify_ok /\ A!Accepts(id)) THEN "failed"
                           ELSE IF left = 1 THEN "established" ELSE "running"
        BY <2>4 DEF A!ssl_peer_id_verify_handler
      <3>2. CASE A!Accepts(id)
        <4>1. id.key = chain[1]
          BY <3>1 DEF A!peer_id_from_sha512
        <4> QED
          BY <2>4, <3>2, <4>1 DEF A!ssl_peer_id_verify_handler, A!Accepts
      <3>3. CASE ~A!Accepts(id)
        BY <3>1, <3>3
      <3> QED
        BY <3>2, <3>3
    <2>5. CASE UNCHANGED A!vars
      BY <2>5 DEF A!vars
    <2> QED
      BY <2>1, <2>2, <2>3, <2>4, <2>5 DEF A!Next
  <1> QED
    BY <1>1, <1>2, PTL DEF A!Spec, VerifiedIsExpected
------------------------------------------------------------------------------
(* Checksum.                                                               *)

\* What the recursive function inside SumOf(words) satisfies up to n.
Adds(s, words, n) == s = [i \in 0..n |-> IF i = 0 THEN 0 ELSE s[i - 1] + words[i]]

\* One turn of the recursion.
LEMMA AddsAt ==
  ASSUME NEW words, NEW n \in Nat, NEW s, Adds(s, words, n)
  PROVE  s[0] = 0 /\ \A i \in 1..n : s[i] = s[i - 1] + words[i]
  <1>1. \A i \in 0..n : s[i] = IF i = 0 THEN 0 ELSE s[i - 1] + words[i]
    BY Zenon DEF Adds
  <1>2. \A i \in 1..n : i \in 0..n /\ i # 0
    OBVIOUS
  <1>3. 0 \in 0..n
    OBVIOUS
  <1> QED
    BY <1>1, <1>2, <1>3, Zenon

\* The recursion has a solution, by induction on the length.
LEMMA AddsExists ==
  ASSUME NEW words, NEW n \in Nat PROVE \E s : Adds(s, words, n)
  <1> DEFINE H == {k \in Nat : \E s : Adds(s, words, k)}
  <1>1. 0 \in H
    <2>1. Adds([i \in 0..0 |-> 0], words, 0)
      BY DEF Adds
    <2> QED
      BY <2>1
  <1>2. ASSUME NEW k \in H PROVE k + 1 \in H
    <2>1. PICK s : Adds(s, words, k)
      OBVIOUS
    <2> DEFINE next == [i \in 0..(k + 1) |-> IF i <= k THEN s[i] ELSE s[k] + words[k + 1]]
    <2>2. ASSUME NEW i \in 0..(k + 1)
          PROVE  next[i] = IF i = 0 THEN 0 ELSE next[i - 1] + words[i]
      <3>1. CASE i = k + 1
        BY <3>1
      <3>2. CASE i = 0
        <4>1. s[0] = 0 /\ k \in Nat
          BY <2>1, AddsAt
        <4>2. next[0] = s[0]
          BY <4>1
        <4> QED
          BY <3>2, <4>1, <4>2
      <3>3. CASE i \in 1..k
        <4>1. next[i] = s[i] /\ next[i - 1] = s[i - 1]
          BY <3>3
        <4>2. s[i] = s[i - 1] + words[i]
          BY <3>3, <2>1, AddsAt
        <4> QED
          BY <3>3, <4>1, <4>2
      <3> QED
        BY <3>1, <3>2, <3>3
    <2>3. Adds(next, words, k + 1)
      BY <2>2 DEF Adds
    <2> QED
      BY <2>3
  <1>3. H = Nat
    BY <1>1, <1>2, SetInduction
  <1> QED
    BY <1>3

\* A sum of words is a natural number.
LEMMA SumOfType ==
  ASSUME NEW words \in Seq(Nat) PROVE S!SumOf(words) \in Nat
  <1> DEFINE s == CHOOSE s : Adds(s, words, Len(words))
  <1>1. Adds(s, words, Len(words)) /\ Len(words) \in Nat
    BY AddsExists
  <1>2. S!SumOf(words) = s[Len(words)]
    BY Zenon DEF S!SumOf, Adds
  <1> HIDE DEF s
  <1>3. s[0] = 0 /\ \A i \in 1..Len(words) : s[i] = s[i - 1] + words[i]
    BY <1>1, AddsAt
  <1> DEFINE H == {k \in Nat : k <= Len(words) => s[k] \in Nat}
  <1>4. 0 \in H
    BY <1>3
  <1>5. ASSUME NEW k \in H, k + 1 <= Len(words) PROVE s[k + 1] \in Nat
    <2>1. k + 1 \in 1..Len(words) /\ (k + 1) - 1 = k
      BY <1>5
    <2>2. s[k + 1] = s[k] + words[k + 1] /\ s[k] \in Nat
      BY <1>3, <1>5, <2>1
    <2>3. words[k + 1] \in Nat
      BY <2>1
    <2> QED
      BY <2>2, <2>3
  <1>6. H = Nat
    <2>1. \A k \in H : k + 1 \in H
      BY <1>5
    <2> QED
      BY <1>4, <2>1, SetInduction
  <1> QED
    BY <1>1, <1>2, <1>6

\* Folding takes off multiples of Base - 1 and nothing else: what is left and what
\* was to be added are congruent.  The checksum complements what is left.
SumInv ==
  /\ sum \in Nat /\ total \in Nat /\ overread \in BOOLEAN
  /\ ~overread => \E q \in Nat : total = sum + (q * (Base - 1))
  /\ check \in S!Words => check = (Base - 1) - sum /\ sum <= Base - 1

\* For words of any width and pieces of any number and length: unless a piece was
\* shorter than a word, the words and the checksum add up to all bits set in ones'
\* complement (udp4.h:24-41).
THEOREM ChecksumIsRight ==
  ASSUME Base \in Nat \ {0, 1} PROVE S!Spec => []ChecksumVerifies
  <1>1. S!Init => SumInv
    <2>1. SUFFICES ASSUME S!Init PROVE SumInv
      OBVIOUS
    <2>2. 0 \in Nat /\ 0 = 0 + (0 * (Base - 1)) /\ check \notin S!Words
      BY <2>1 DEF S!Init, S!Adding, S!Words
    <2> QED
      BY <2>1, <2>2 DEF S!Init, SumInv
  <1>2. SumInv /\ [S!Next]_S!vars => SumInv'
    <2>1. SUFFICES ASSUME SumInv, [S!Next]_S!vars PROVE SumInv'
      OBVIOUS
    <2>2. -1 \notin S!Words /\ -2 \notin S!Words
      BY DEF S!Words
    <2>3. ASSUME NEW n \in 0..MaxWords, NEW m \in 0..1, NEW words \in [1..n -> S!Words],
                 NEW last \in [1..m -> 0..ByteBase - 1], S!add(words, last)
          PROVE  SumInv'
      <3>1. words \in Seq(Nat) /\ last \in Seq(Nat)
        <4>1. n \in Nat /\ m \in Nat
          OBVIOUS
        <4>2. words \in [1..n -> Nat] /\ last \in [1..m -> Nat]
          BY DEF S!Words
        <4> QED
          BY <4>1, <4>2
      <3>2. PICK x \in Nat, y \in Nat : x = S!SumOf(words) /\ y = S!SumOf(last)
        BY <3>1, SumOfType
      <3>3. total' = (total + x) + y /\ check' = -1
        BY <2>3, <3>2 DEF S!add, S!Adding, SumInv
      <3>4. CASE sum' = (sum + x) + y /\ overread' = overread
        <4>1. ASSUME ~overread PROVE \E q \in Nat : total' = sum' + (q * (Base - 1))
          <5>1. PICK q \in Nat : total = sum + (q * (Base - 1))
            BY <2>1, <4>1 DEF SumInv
          <5>2. PICK z \in Int : z = q * (Base - 1)
            OBVIOUS
          <5>3. total' = sum' + z
            BY <2>1, <3>3, <3>4, <5>1, <5>2 DEF SumInv
          <5> QED
            BY <5>2, <5>3
        <4> QED
          BY <2>1, <2>2, <3>3, <3>4, <4>1 DEF SumInv
      <3>5. ASSUME overread' = TRUE, NEW w \in S!Words, NEW b \in 0..ByteBase - 1,
                   sum' = (sum + w) + (IF last = <<>> THEN 0 ELSE b)
            PROVE  SumInv'
        <4>1. w \in Nat /\ b \in Nat
          BY DEF S!Words
        <4>2. sum' \in Nat
          BY <2>1, <3>5, <4>1 DEF SumInv
        <4> QED
          BY <2>1, <2>2, <3>3, <3>5, <4>2 DEF SumInv
      <3> QED
        BY <2>3, <3>2, <3>4, <3>5 DEF S!add
    <2>4. CASE S!finish
      BY <2>1, <2>2, <2>4 DEF S!finish, S!Folding, SumInv
    <2>5. CASE S!fold
      <3>1. /\ check' = -2 /\ total' = total /\ overread' = overread
            /\ sum' = (sum \div Base) + (sum % Base)
        BY <2>5 DEF S!fold, S!Folding
      <3>2. PICK p \in Int, r \in 0..(Base - 1) :
              p = sum \div Base /\ r = sum % Base /\ sum = (Base * p) + r
        BY <2>1, Division DEF SumInv
      <3>3. p >= 0
        <4>1. ASSUME p <= -1 PROVE FALSE
          <5>1. Base * (p + 1) <= 0
            BY <4>1
          <5>2. PICK z \in Int : z = Base * p
            OBVIOUS
          <5>3. z + Base <= 0
            BY <5>1, <5>2
          <5> QED
            BY <2>1, <3>2, <5>2, <5>3 DEF SumInv
        <4> QED
          BY <4>1
      <3>4. sum' \in Nat
        BY <3>1, <3>2, <3>3
      <3>5. ASSUME ~overread PROVE \E q \in Nat : total' = sum' + (q * (Base - 1))
        <4>1. PICK q \in Nat : total = sum + (q * (Base - 1))
          BY <2>1, <3>5 DEF SumInv
        <4>2. PICK x \in Int, y \in Int, z \in Nat :
                x = q * (Base - 1) /\ y = Base * p /\ z = q + p
          BY <3>3
        <4>3. z * (Base - 1) = (x + y) - p
          BY <4>2
        <4>4. total' = sum' + ((x + y) - p)
          BY <2>1, <3>1, <3>2, <4>1, <4>2 DEF SumInv
        <4> QED
          BY <4>3, <4>4
      <3> QED
        BY <2>1, <2>2, <3>1, <3>4, <3>5 DEF SumInv
    <2>6. CASE S!finish_returns
      BY <2>1, <2>6 DEF S!finish_returns, SumInv
    <2>7. CASE S!next_packet
      <3>1. sum' = 0 /\ total' = 0 /\ overread' = FALSE /\ check' = -1
        BY <2>7 DEF S!next_packet, S!Adding
      <3>2. 0 \in Nat /\ 0 = 0 + (0 * (Base - 1))
        OBVIOUS
      <3> QED
        BY <2>2, <3>1, <3>2 DEF SumInv
    <2>8. CASE UNCHANGED S!vars
      BY <2>1, <2>8 DEF S!vars, SumInv, S!Words
    <2> QED
      BY <2>1, <2>3, <2>4, <2>5, <2>6, <2>7, <2>8 DEF S!Next
  <1>3. SumInv => S!ChecksumVerifies
    <2>1. SUFFICES ASSUME SumInv, check \in S!Words, ~overread
                   PROVE  (total + check) % (Base - 1) = 0 /\ total + check > 0
      BY DEF S!ChecksumVerifies
    <2>2. PICK q \in Nat : total = sum + (q * (Base - 1))
      BY <2>1 DEF SumInv
    <2>3. PICK m \in Nat \ {0}, z \in Nat : m = Base - 1 /\ z = q * m
      OBVIOUS
    <2>4. PICK a \in Int : a = total + check /\ a = z + m
      BY <2>1, <2>2, <2>3 DEF SumInv
    <2>5. a = (m * (q + 1)) + 0
      BY <2>3, <2>4
    <2>6. a % m = 0
      BY <2>5, Remainder, q + 1 \in Int, 0 \in 0..(m - 1)
    <2> QED
      BY <2>3, <2>4, <2>6
  <1> QED
    BY <1>1, <1>2, <1>3, PTL DEF S!Spec, ChecksumVerifies

------------------------------------------------------------------------------
(* FieldNumbers.                                                           *)

\* ceil_log2() is the least number of bits that n numbers fit.
LEMMA CeilLog2 ==
  ASSUME NEW n \in Nat
  PROVE  N!ceil_log2(n) \in Nat /\ Pow2[N!ceil_log2(n)] >= n
  <1> DEFINE Least(k) == Pow2[k] >= n /\ \A j \in 0..k - 1 : Pow2[j] < n
             H == {m \in Nat : (\A j \in 0..m : Pow2[j] < n) \/ (\E k \in 0..m : Least(k))}
  <1>1. 0 \in H
    <2>1. Pow2[0] = 1 /\ 0 \in 0..0 /\ 0..0 = {0} /\ 0..(0 - 1) = {}
      BY Pow2Unfold
    <2> QED
      BY <2>1
  <1>2. ASSUME NEW m \in H PROVE m + 1 \in H
    <2>1. CASE \A j \in 0..m : Pow2[j] < n
      <3>1. CASE Pow2[m + 1] < n
        BY <2>1, <3>1
      <3>2. CASE ~(Pow2[m + 1] < n)
        <4>1. Pow2[m + 1] >= n
          BY <3>2, Pow2Grows, m + 1 \in Nat
        <4>2. \A j \in 0..(m + 1) - 1 : Pow2[j] < n
          BY <2>1
        <4> QED
          BY <4>1, <4>2, m + 1 \in 0..(m + 1)
      <3> QED
        BY <3>1, <3>2
    <2>2. CASE \E k \in 0..m : Least(k)
      BY <2>2, 0..m \subseteq 0..(m + 1)
    <2> QED
      BY <2>1, <2>2
  <1>3. n \in H
    BY <1>1, <1>2, SetInduction
  <1>4. ~(\A j \in 0..n : Pow2[j] < n)
    BY Pow2Grows, n \in 0..n
  <1>5. \E k \in 0..n : Least(k)
    BY <1>3, <1>4
  <1>6. N!ceil_log2(n) \in 0..n /\ Least(N!ceil_log2(n))
    <2>1. N!ceil_log2(n) = CHOOSE k \in 0..n : Least(k)
      BY SamePow2, Zenon DEF N!ceil_log2
    <2> QED
      BY <1>5, <2>1, Zenon
  <1> QED
    BY <1>6

\* The numbers given so far increase, stay below the next one, and are those that
\* the members were given; an enum's largest number, which is not 0, and the number
\* of a union's variants have their bits.
NumInv ==
  /\ next_num \in Nat /\ mapping \in Seq(Nat) /\ members \in Seq(Numbers \cup {NotInt})
  /\ Len(mapping) <= Len(members)
  /\ descr.field = "none" => mapping = <<>>
  /\ \A i \in DOMAIN mapping : mapping[i] < next_num
  /\ \A i, j \in DOMAIN mapping : i < j => mapping[i] < mapping[j]
  /\ \A i \in DOMAIN mapping : members[i] # NotInt => mapping[i] = members[i]
  /\ descr.field = "enum" =>
       /\ descr.bits \in Nat /\ descr.max \in Nat \ {0} /\ descr.max <= Pow2[descr.bits]
       /\ \A i \in DOMAIN mapping : mapping[i] <= descr.max
  /\ descr.field = "union" =>
       /\ descr.bits \in Nat /\ descr.structs \in Nat /\ descr.allow_empty \in BOOLEAN
       /\ descr.structs + (IF descr.allow_empty THEN 1 ELSE 0) <= Pow2[descr.bits]

\* A member gets its number.
LEMMA MappingGrows ==
  ASSUME Numbers \subseteq Int, NumInv, N!get_enum_int_mapping PROVE NumInv'
  <1>1. PICK number : /\ number = IF N!value = NotInt THEN next_num ELSE N!value
                      /\ number >= next_num
                      /\ mapping' = Append(mapping, number) /\ next_num' = number + 1
    BY Zenon DEF N!get_enum_int_mapping
  <1>2. /\ descr.field = "numbering" /\ Len(mapping) < Len(members)
        /\ members' = members /\ descr' = descr
    BY DEF N!get_enum_int_mapping
  <1>3. PICK n \in Nat : n = Len(mapping) /\ n + 1 \in 1..Len(members)
    BY <1>2 DEF NumInv
  <1>4. N!value = members[n + 1] /\ members[n + 1] \in Numbers \cup {NotInt}
    BY <1>3 DEF N!value, NumInv
  <1>5. number \in Nat
    <2>1. CASE N!value = NotInt
      BY <1>1, <2>1 DEF NumInv
    <2>2. CASE N!value # NotInt
      <3>1. number \in Int /\ number >= next_num /\ next_num \in Nat
        BY <1>1, <1>4, <2>2 DEF NumInv
      <3> QED
        BY <3>1
    <2> QED
      BY <2>1, <2>2
  <1>6. PICK u \in Seq(Nat) : /\ u = mapping' /\ Len(u) = n + 1 /\ u[n + 1] = number
                              /\ DOMAIN u = 1..(n + 1)
                              /\ \A i \in 1..n : u[i] = mapping[i]
    <2>1. PICK s \in Seq(Nat) : s = mapping
      BY DEF NumInv
    <2>2. PICK u : u = Append(s, number)
      OBVIOUS
    <2>3. /\ u \in Seq(Nat) /\ Len(u) = Len(s) + 1 /\ u[Len(s) + 1] = number
          /\ \A i \in 1..Len(s) : u[i] = s[i]
      BY <1>5, <2>2
    <2>4. DOMAIN u = 1..Len(u)
      BY <2>3
    <2> QED
      BY <1>1, <1>3, <2>1, <2>2, <2>3, <2>4
  <1>7. DOMAIN mapping = 1..n
    BY <1>3 DEF NumInv
  <1>8. \A i \in 1..n : mapping[i] < next_num /\ mapping[i] \in Nat
    <2>1. mapping \in Seq(Nat) /\ \A i \in DOMAIN mapping : mapping[i] < next_num
      BY DEF NumInv
    <2> QED
      BY <1>3, <1>7, <2>1
  <1>9. next_num \in Nat /\ number >= next_num
    BY <1>1 DEF NumInv
  <1>10. \A i \in DOMAIN u : i \in 1..n \/ i = n + 1
    BY <1>6
  <1>11. \A i \in DOMAIN u : u[i] < number + 1
    BY <1>5, <1>6, <1>8, <1>9, <1>10
  <1>12. ASSUME NEW i \in DOMAIN u, NEW j \in DOMAIN u, i < j PROVE u[i] < u[j]
    <2>1. i \in 1..n
      BY <1>6, <1>12
    <2>2. CASE j \in 1..n
      BY <1>6, <1>7, <1>12, <2>1, <2>2 DEF NumInv
    <2>3. CASE j = n + 1
      BY <1>5, <1>6, <1>8, <1>9, <2>1, <2>3
    <2> QED
      BY <1>10, <2>2, <2>3
  <1>13. ASSUME NEW i \in DOMAIN u, members[i] # NotInt PROVE u[i] = members[i]
    <2>1. CASE i \in 1..n
      BY <1>6, <1>7, <1>13, <2>1 DEF NumInv
    <2>2. CASE i = n + 1
      BY <1>1, <1>4, <1>6, <1>13, <2>2
    <2> QED
      BY <1>10, <2>1, <2>2
  <1>14. members' \in Seq(Numbers \cup {NotInt}) /\ Len(u) <= Len(members) /\ number + 1 \in Nat
    BY <1>2, <1>3, <1>5, <1>6 DEF NumInv
  <1>15. next_num' = number + 1 /\ mapping' = u /\ members' = members /\ descr'.field = "numbering"
    BY <1>1, <1>2, <1>6
  <1> QED
    BY <1>11, <1>12, <1>13, <1>14, <1>15 DEF NumInv

\* The bits of an enum are counted.
LEMMA EnumBits ==
  ASSUME NumInv, N!enum_bits PROVE NumInv'
  <1>1. /\ mapping # <<>> /\ mapping # <<0>>
        /\ members' = members /\ next_num' = next_num /\ mapping' = mapping
    BY DEF N!enum_bits
  <1>2. PICK i \in DOMAIN mapping :
          /\ \A j \in DOMAIN mapping : mapping[j] <= mapping[i]
          /\ descr' = [field |-> "enum", bits |-> N!ceil_log2(mapping[i]), max |-> mapping[i]]
    BY DEF N!enum_bits
  <1>3. PICK max : max = mapping[i]
    OBVIOUS
  <1>4. max \in Nat
    BY <1>3 DEF NumInv
  <1>5. max # 0
    <2>1. SUFFICES ASSUME max = 0 PROVE FALSE
      OBVIOUS
    <2>2. \A j \in DOMAIN mapping : mapping[j] = 0
      BY <1>2, <1>3, <2>1 DEF NumInv
    <2>3. \A j, k \in DOMAIN mapping : ~(j < k)
      <3>1. \A j, k \in DOMAIN mapping : j < k => mapping[j] < mapping[k]
        BY DEF NumInv
      <3> QED
        BY <2>2, <3>1
    <2>4. PICK s \in Seq(Nat) : s = mapping
      BY DEF NumInv
    <2>5. Len(s) = 1
      <3>1. DOMAIN s = 1..Len(s) /\ Len(s) \in Nat
        OBVIOUS
      <3>2. Len(s) # 0
        BY <1>1, <2>4
      <3>3. ASSUME Len(s) > 1 PROVE FALSE
        BY <2>3, <2>4, <3>1, <3>3, 1 \in 1..Len(s), 2 \in 1..Len(s)
      <3> QED
        BY <3>1, <3>2, <3>3
    <2>6. s[1] = 0
      BY <2>2, <2>4, <2>5
    <2>7. s = <<0>>
      BY <2>5, <2>6
    <2> QED
      BY <1>1, <2>4, <2>7
  <1>6. PICK k \in Nat : k = N!ceil_log2(max) /\ Pow2[k] >= max
    BY <1>4, CeilLog2
  <1>7. Pow2[k] \in Nat
    BY Pow2Grows
  <1>8. /\ descr'.field = "enum" /\ descr'.bits = k /\ descr'.max = max
    BY <1>2, <1>3, <1>6
  <1>9. \A j \in DOMAIN mapping : mapping[j] <= max
    BY <1>2, <1>3
  <1>10. max <= Pow2[k]
    BY <1>4, <1>6, <1>7
  <1> QED
    BY <1>1, <1>4, <1>5, <1>8, <1>9, <1>10 DEF NumInv

\* The bits of a union are counted.
LEMMA UnionBits ==
  ASSUME NumInv, NEW n \in Nat, NEW allow_empty \in BOOLEAN, N!UnionField(n, allow_empty)
  PROVE  NumInv'
  <1>1. PICK nvariants \in Nat : nvariants = n + (IF allow_empty THEN 1 ELSE 0)
    OBVIOUS
  <1>2. /\ members' = members /\ next_num' = next_num /\ mapping' = mapping
        /\ descr' = IF nvariants = 0 THEN [field |-> "raised"]
                    ELSE [field |-> "union", bits |-> N!ceil_log2(nvariants),
                          structs |-> n, allow_empty |-> allow_empty]
    BY <1>1, Zenon DEF N!UnionField
  <1>3. CASE nvariants = 0
    <2>1. descr'.field = "raised"
      BY <1>2, <1>3
    <2> QED
      BY <1>2, <2>1 DEF NumInv
  <1>4. CASE nvariants # 0
    <2>1. PICK k \in Nat : k = N!ceil_log2(nvariants) /\ Pow2[k] >= nvariants
      BY CeilLog2
    <2>2. /\ descr'.field = "union" /\ descr'.bits = k /\ descr'.structs = n
          /\ descr'.allow_empty = allow_empty
      BY <1>2, <1>4, <2>1
    <2>3. n + (IF allow_empty THEN 1 ELSE 0) <= Pow2[k]
      <3>1. Pow2[k] \in Nat
        BY Pow2Grows
      <3>2. nvariants <= Pow2[k]
        BY <2>1, <3>1
      <3> QED
        BY <1>1, <3>2, Zenon
    <2> QED
      BY <1>2, <2>2, <2>3 DEF NumInv
  <1> QED
    BY <1>3, <1>4

\* For enums and unions of any length and any values: no two members share a number,
\* a given number is kept, and every number fits the bits of its field, but for an
\* enum's largest when that is a power of two (descr.py:53-145).
THEOREM FieldNumbersFit ==
  ASSUME Numbers \subseteq Int, MaxMembers \in Nat PROVE N!Spec => []NumbersFit
  <1>1. N!Init => NumInv
    <2>1. SUFFICES ASSUME N!Init PROVE NumInv
      OBVIOUS
    <2>2. /\ members = <<>> /\ next_num = 0 /\ mapping = <<>> /\ descr.field = "none"
      BY <2>1 DEF N!Init, N!NoField
    <2>3. /\ <<>> \in Seq(Nat) /\ <<>> \in Seq(Numbers \cup {NotInt})
          /\ Len(<<>>) = 0 /\ DOMAIN <<>> = {}
      OBVIOUS
    <2> QED
      BY <2>2, <2>3 DEF NumInv
  <1>2. NumInv /\ [N!Next]_N!vars => NumInv'
    <2>1. SUFFICES ASSUME NumInv, [N!Next]_N!vars PROVE NumInv'
      OBVIOUS
    <2>2. ASSUME NEW n \in 0..MaxMembers, NEW values \in [1..n -> Numbers \cup {NotInt}],
                 N!EnumField(values)
          PROVE  NumInv'
      <3>1. members' = values /\ next_num' = 0 /\ mapping' = <<>> /\ descr'.field = "numbering"
        BY <2>2 DEF N!EnumField
      <3>2. values \in Seq(Numbers \cup {NotInt}) /\ Len(values) \in Nat
        BY <2>2
      <3>3. <<>> \in Seq(Nat) /\ Len(<<>>) = 0 /\ DOMAIN <<>> = {}
        OBVIOUS
      <3> QED
        BY <3>1, <3>2, <3>3 DEF NumInv
    <2>3. CASE N!get_enum_int_mapping
      BY <2>1, <2>3, MappingGrows
    <2>4. CASE N!enum_raises
      <3>1. /\ members' = members /\ next_num' = next_num /\ mapping' = mapping
            /\ descr'.field = "raised"
        BY <2>4 DEF N!enum_raises
      <3> QED
        BY <2>1, <3>1 DEF NumInv
    <2>5. CASE N!enum_bits
      BY <2>1, <2>5, EnumBits
    <2>6. ASSUME NEW n \in 0..MaxMembers, NEW allow_empty \in BOOLEAN,
                 N!UnionField(n, allow_empty)
          PROVE  NumInv'
      BY <2>1, <2>6, UnionBits, n \in Nat
    <2>7. CASE N!next_field
      <3>1. members' = <<>> /\ next_num' = 0 /\ mapping' = <<>> /\ descr'.field = "none"
        BY <2>7 DEF N!next_field, N!NoField
      <3>2. /\ <<>> \in Seq(Nat) /\ <<>> \in Seq(Numbers \cup {NotInt})
            /\ Len(<<>>) = 0 /\ DOMAIN <<>> = {}
        OBVIOUS
      <3> QED
        BY <3>1, <3>2 DEF NumInv
    <2>8. CASE UNCHANGED N!vars
      BY <2>1, <2>8 DEF N!vars, NumInv
    <2> QED
      BY <2>1, <2>2, <2>3, <2>4, <2>5, <2>6, <2>7, <2>8 DEF N!Next
  <1>3. NumInv => N!NumbersFit
    <2>1. SUFFICES ASSUME NumInv PROVE N!NumbersFit
      OBVIOUS
    <2>2. ASSUME descr.field = "enum", NEW i \in DOMAIN mapping
          PROVE  \/ mapping[i] < Pow2[descr.bits]
                 \/ mapping[i] = descr.max /\ descr.max = Pow2[descr.bits]
      <3>1. PICK p \in Nat, max \in Nat, x \in Nat :
              p = Pow2[descr.bits] /\ max = descr.max /\ x = mapping[i] /\ x <= max /\ max <= p
        <4>1. Pow2[descr.bits] \in Nat
          BY <2>1, <2>2, Pow2Grows DEF NumInv
        <4> QED
          BY <2>1, <2>2, <4>1 DEF NumInv
      <3> QED
        BY <3>1
    <2>3. ASSUME descr.field = "union", NEW number \in N!render_union_enum(descr)
          PROVE  number < Pow2[descr.bits]
      <3>1. PICK p \in Nat, n \in Nat, b \in BOOLEAN :
              /\ p = Pow2[descr.bits] /\ n = descr.structs /\ b = descr.allow_empty
              /\ n + (IF b THEN 1 ELSE 0) <= p
        <4>1. Pow2[descr.bits] \in Nat
          BY <2>1, <2>3, Pow2Grows DEF NumInv
        <4>2. /\ descr.structs \in Nat /\ descr.allow_empty \in BOOLEAN
              /\ descr.structs + (IF descr.allow_empty THEN 1 ELSE 0) <= Pow2[descr.bits]
          BY <2>1, <2>3 DEF NumInv
        <4> QED
          BY <4>1, <4>2, Zenon
      <3>2. CASE b
        <4>1. number \in {0} \cup 1..1 + n - 1
          BY <2>3, <3>1, <3>2, Zenon DEF N!render_union_enum
        <4> QED
          BY <3>1, <3>2, <4>1
      <3>3. CASE ~b
        <4>1. number \in {} \cup 0..0 + n - 1
          BY <2>3, <3>1, <3>3, Zenon DEF N!render_union_enum
        <4> QED
          BY <3>1, <3>3, <4>1
      <3> QED
        BY <3>2, <3>3
    <2> QED
      BY <2>1, <2>2, <2>3, SamePow2 DEF N!NumbersFit, NumInv
  <1> QED
    BY <1>1, <1>2, <1>3, PTL DEF N!Spec, NumbersFit

------------------------------------------------------------------------------
(* BitStream: numbers and their bits.                                      *)

\* The quotient is unique.
LEMMA Quotient ==
  ASSUME NEW m \in Nat \ {0}, NEW q \in Int, NEW r \in 0..(m - 1),
         NEW a \in Int, a = (m * q) + r
  PROVE  a \div m = q
  <1>1. a % m = r
    BY Remainder
  <1>2. PICK p \in Int : p = a \div m /\ a = (m * p) + r
    BY <1>1, Division
  <1>3. PICK x \in Int, y \in Int : x = m * p /\ y = m * q /\ x = y
    BY <1>2
  <1>4. ASSUME p >= q + 1 PROVE FALSE
    <2>1. m * (p - q) >= m
      BY <1>4
    <2> QED
      BY <2>1, <1>3
  <1>5. ASSUME q >= p + 1 PROVE FALSE
    <2>1. m * (q - p) >= m
      BY <1>5
    <2> QED
      BY <2>1, <1>3
  <1> QED
    BY <1>2, <1>4, <1>5

\* Powers of two are positive.
LEMMA Pow2Pos == \A k \in Nat : Pow2[k] \in Nat \ {0}
  BY Pow2Grows

\* Exponents add.
LEMMA Pow2Add == \A j, k \in Nat : Pow2[j + k] = Pow2[j] * Pow2[k]
  <1>1. SUFFICES ASSUME NEW j \in Nat PROVE \A k \in Nat : Pow2[j + k] = Pow2[j] * Pow2[k]
    BY Zenon
  <1> DEFINE H == {k \in Nat : Pow2[j + k] = Pow2[j] * Pow2[k]}
  <1>2. 0 \in H
    <2>1. Pow2[0] = 1 /\ j + 0 = j /\ Pow2[j] \in Nat
      BY Pow2Unfold, Pow2Pos
    <2> QED
      BY <2>1
  <1>3. ASSUME NEW k \in H PROVE k + 1 \in H
    <2>1. j + (k + 1) = (j + k) + 1 /\ j + k \in Nat /\ k \in Nat
      OBVIOUS
    <2>2. /\ Pow2[j + (k + 1)] = 2 * Pow2[j + k] /\ Pow2[k + 1] = 2 * Pow2[k]
          /\ Pow2[j + k] = Pow2[j] * Pow2[k]
      BY <2>1, Pow2Unfold
    <2>3. PICK x \in Nat, y \in Nat : x = Pow2[j] /\ y = Pow2[k]
      BY Pow2Pos
    <2>4. 2 * (x * y) = x * (2 * y)
      OBVIOUS
    <2> QED
      BY <2>1, <2>2, <2>3, <2>4
  <1>4. H = Nat
    BY <1>2, <1>3, SetInduction
  <1> QED
    BY <1>4

\* A number with bit i, what lies above it and what lies below.
HasBit(x, i, d) ==
  \E h \in Nat, r \in Nat : r < Pow2[i] /\ x = (Pow2[i] * ((2 * h) + d)) + r

\* Bit i of a number is the one that taking the number apart shows.
LEMMA BitIs ==
  ASSUME NEW x \in Nat, NEW i \in Nat, NEW d \in 0..1, HasBit(x, i, d)
  PROVE  B!Bit(x, i) = d
  <1>1. PICK p \in Nat \ {0} : p = Pow2[i]
    BY Pow2Pos
  <1>2. PICK h \in Nat, r \in Nat : r < p /\ x = (p * ((2 * h) + d)) + r
    BY <1>1 DEF HasBit
  <1>3. x \div p = (2 * h) + d
    <2>1. PICK q \in Int : q = (2 * h) + d
      OBVIOUS
    <2>2. r \in 0..(p - 1) /\ x = (p * q) + r /\ x \in Int
      BY <1>2, <2>1
    <2>3. x \div p = q
      BY <2>2, Quotient
    <2> QED
      BY <2>1, <2>3
  <1>4. ((2 * h) + d) % 2 = d
    OBVIOUS
  <1>5. B!Pow2 = Pow2
    BY SamePow2
  <1> QED
    BY <1>1, <1>3, <1>4, <1>5 DEF B!Bit

\* Every number can be taken apart at any bit.
LEMMA BitHas ==
  ASSUME NEW x \in Nat, NEW i \in Nat
  PROVE  B!Bit(x, i) \in 0..1 /\ HasBit(x, i, B!Bit(x, i))
  <1>1. PICK p \in Nat \ {0} : p = Pow2[i]
    BY Pow2Pos
  <1>2. PICK q \in Int, r \in 0..(p - 1) : q = x \div p /\ r = x % p /\ x = (p * q) + r
    BY Division, x \in Int
  <1>3. q \in Nat
    <2>1. SUFFICES ASSUME q <= 0 - 1 PROVE FALSE
      OBVIOUS
    <2>2. p * q <= 0 - p
      BY <2>1
    <2> QED
      BY <1>2, <2>2
  <1>4. PICK h \in Int, d \in 0..1 : d = q % 2 /\ q = (2 * h) + d
    <2>1. q % 2 \in 0..1 /\ q \div 2 \in Int /\ q = (2 * (q \div 2)) + (q % 2)
      BY Division, 2 \in Nat \ {0}, 2 - 1 = 1
    <2> QED
      BY <2>1
  <1>5. h \in Nat
    BY <1>3, <1>4
  <1>6. B!Bit(x, i) = d
    BY <1>1, <1>2, <1>4, SamePow2 DEF B!Bit
  <1>7. HasBit(x, i, d)
    <2>1. r \in Nat /\ r < p
      BY <1>2
    <2>2. x = (p * ((2 * h) + d)) + r
      BY <1>2, <1>4, Zenon
    <2> QED
      BY <1>1, <1>5, <2>1, <2>2, Zenon DEF HasBit
  <1> QED
    BY <1>6, <1>7

\* What is added above bit i does not change it.
LEMMA BitBelow ==
  ASSUME NEW a \in Nat, NEW m \in Nat, NEW s \in Nat, NEW i \in Nat, i < s
  PROVE  B!Bit(a + (m * Pow2[s]), i) = B!Bit(a, i)
  <1>1. PICK d \in 0..1 : d = B!Bit(a, i) /\ HasBit(a, i, d)
    BY BitHas
  <1>2. PICK p \in Nat \ {0}, e \in Nat \ {0} : p = Pow2[i] /\ e = Pow2[(s - i) - 1]
    BY Pow2Pos, (s - i) - 1 \in Nat
  <1>3. Pow2[s] = p * (2 * e)
    <2>1. PICK k \in Nat : k = (s - i) - 1
      OBVIOUS
    <2>2. Pow2[k + 1] = 2 * e
      BY <1>2, <2>1, Pow2Unfold
    <2>3. s = i + (k + 1) /\ k + 1 \in Nat
      BY <2>1
    <2>4. Pow2[i + (k + 1)] = Pow2[i] * Pow2[k + 1]
      BY <2>3, Pow2Add
    <2> QED
      BY <1>2, <2>2, <2>3, <2>4
  <1>4. PICK h \in Nat, r \in Nat : r < p /\ a = (p * ((2 * h) + d)) + r
    BY <1>1, <1>2 DEF HasBit
  <1>5. PICK g \in Nat : g = h + (m * e)
    OBVIOUS
  <1>6. a + (m * (p * (2 * e))) = (p * ((2 * g) + d)) + r
    <2>1. m * (p * (2 * e)) = p * (2 * (m * e))
      OBVIOUS
    <2>2. p * ((2 * g) + d) = (p * ((2 * h) + d)) + (p * (2 * (m * e)))
      BY <1>5
    <2>3. PICK u \in Int, v \in Int, w \in Int :
            /\ u = p * ((2 * g) + d) /\ v = p * ((2 * h) + d) /\ w = p * (2 * (m * e))
      OBVIOUS
    <2> QED
      BY <1>4, <2>1, <2>2, <2>3
  <1>7. HasBit(a + (m * Pow2[s]), i, d)
    BY <1>2, <1>3, <1>4, <1>6, Zenon DEF HasBit
  <1>8. a + (m * Pow2[s]) \in Nat
    BY Pow2Pos
  <1> QED
    BY <1>1, <1>7, <1>8, BitIs

\* Above s bits there are the bits of what was shifted by s.
LEMMA BitAbove ==
  ASSUME NEW s \in Nat, NEW a \in Nat, a < Pow2[s], NEW m \in Nat, NEW i \in Nat
  PROVE  B!Bit(a + (m * Pow2[s]), s + i) = B!Bit(m, i)
  <1>1. PICK d \in 0..1 : d = B!Bit(m, i) /\ HasBit(m, i, d)
    BY BitHas
  <1>2. PICK p \in Nat \ {0}, e \in Nat \ {0} : p = Pow2[s] /\ e = Pow2[i]
    BY Pow2Pos
  <1>3. Pow2[s + i] = p * e
    BY <1>2, Pow2Add
  <1>4. PICK h \in Nat, r \in Nat : r < e /\ m = (e * ((2 * h) + d)) + r
    BY <1>1, <1>2 DEF HasBit
  <1>5. PICK g \in Nat : g = (r * p) + a
    OBVIOUS
  <1>6. g < p * e
    <2>1. (e - r) * p >= p
      BY <1>4
    <2>2. (e - r) * p = (p * e) - (r * p)
      BY <1>4
    <2>3. a < p
      BY <1>2
    <2> QED
      BY <1>5, <2>1, <2>2, <2>3
  <1>7. a + (m * p) = ((p * e) * ((2 * h) + d)) + g
    <2>1. PICK z \in Nat : z = (2 * h) + d
      OBVIOUS
    <2>2. m * p = ((e * z) * p) + (r * p)
      BY <1>4, <2>1
    <2>3. (e * z) * p = (p * e) * z
      BY <2>1
    <2> QED
      BY <1>5, <2>1, <2>2, <2>3
  <1>8. HasBit(a + (m * p), s + i, d)
    BY <1>3, <1>6, <1>7, Zenon DEF HasBit
  <1>9. a + (m * p) \in Nat /\ s + i \in Nat
    OBVIOUS
  <1>10. B!Bit(a + (m * p), s + i) = d
    BY <1>8, <1>9, BitIs
  <1> QED
    BY <1>1, <1>2, <1>10

\* A number is its lower part and its shifted upper part.
LEMMA TakenApart ==
  ASSUME NEW x \in Nat, NEW k \in Nat
  PROVE  /\ x % Pow2[k] \in Nat /\ x % Pow2[k] < Pow2[k] /\ x \div Pow2[k] \in Nat
         /\ x = (x % Pow2[k]) + ((x \div Pow2[k]) * Pow2[k])
  <1>1. PICK p \in Nat \ {0} : p = Pow2[k]
    BY Pow2Pos
  <1>2. PICK q \in Int, r \in 0..(p - 1) : q = x \div p /\ r = x % p /\ x = (p * q) + r
    BY Division, x \in Int
  <1>3. q \in Nat
    <2>1. SUFFICES ASSUME q <= 0 - 1 PROVE FALSE
      OBVIOUS
    <2>2. p * q <= 0 - p
      BY <2>1
    <2> QED
      BY <1>2, <2>2
  <1>4. x = r + (q * p)
    BY <1>2, <1>3
  <1> QED
    BY <1>1, <1>2, <1>3, <1>4

\* A remainder keeps the lower bits.
LEMMA BitMod ==
  ASSUME NEW x \in Nat, NEW k \in Nat, NEW i \in Nat, i < k
  PROVE  B!Bit(x % Pow2[k], i) = B!Bit(x, i)
  <1>1. PICK a \in Nat, m \in Nat : a = x % Pow2[k] /\ x = a + (m * Pow2[k])
    BY TakenApart
  <1>2. B!Bit(a + (m * Pow2[k]), i) = B!Bit(a, i)
    BY BitBelow
  <1> QED
    BY <1>1, <1>2

\* A quotient keeps the upper bits.
LEMMA BitDiv ==
  ASSUME NEW x \in Nat, NEW k \in Nat, NEW i \in Nat
  PROVE  B!Bit(x \div Pow2[k], i) = B!Bit(x, k + i)
  <1>1. PICK a \in Nat, m \in Nat :
          a < Pow2[k] /\ m = x \div Pow2[k] /\ x = a + (m * Pow2[k])
    BY TakenApart
  <1>2. B!Bit(a + (m * Pow2[k]), k + i) = B!Bit(m, i)
    BY <1>1, BitAbove
  <1> QED
    BY <1>1, <1>2

\* j bits above k bits are k + j bits.
LEMMA ShiftBound ==
  ASSUME NEW k \in Nat, NEW j \in Nat, NEW a \in Nat, NEW m \in Nat, a < Pow2[k], m < Pow2[j]
  PROVE  a + (m * Pow2[k]) < Pow2[k + j] /\ a + (m * Pow2[k]) \in Nat
  <1>1. PICK p \in Nat \ {0}, e \in Nat \ {0} : p = Pow2[k] /\ e = Pow2[j] /\ Pow2[k + j] = p * e
    BY Pow2Pos, Pow2Add
  <1>2. (e - m) * p >= p
    BY <1>1
  <1>3. (e - m) * p = (p * e) - (m * p)
    OBVIOUS
  <1>4. a < p
    BY <1>1
  <1>5. PICK u \in Int, v \in Int : u = p * e /\ v = m * p
    OBVIOUS
  <1>6. a + v < u /\ a + v \in Nat
    <2>1. v \in Nat
      BY <1>5
    <2> QED
      BY <1>2, <1>3, <1>4, <1>5, <2>1
  <1> QED
    BY <1>1, <1>5, <1>6

\* The upper part of k + j bits is j bits.
LEMMA DivBound ==
  ASSUME NEW k \in Nat, NEW j \in Nat, NEW x \in Nat, x < Pow2[k + j]
  PROVE  x \div Pow2[k] < Pow2[j]
  <1>1. PICK p \in Nat \ {0}, e \in Nat \ {0} : p = Pow2[k] /\ e = Pow2[j] /\ Pow2[k + j] = p * e
    BY Pow2Pos, Pow2Add
  <1>2. PICK a \in Nat, m \in Nat : m = x \div Pow2[k] /\ x = a + (m * p)
    <2>1. x % Pow2[k] \in Nat /\ x \div Pow2[k] \in Nat
      BY TakenApart
    <2>2. x = (x % Pow2[k]) + ((x \div Pow2[k]) * Pow2[k])
      BY TakenApart
    <2> QED
      BY <1>1, <2>1, <2>2, Zenon
  <1>3. SUFFICES ASSUME m >= e PROVE FALSE
    BY <1>1, <1>2
  <1>4. (m - e) * p >= 0
    BY <1>3
  <1>5. (m - e) * p = (m * p) - (p * e)
    OBVIOUS
  <1>6. x < p * e
    BY <1>1
  <1>7. PICK u \in Int, v \in Int : u = p * e /\ v = m * p
    OBVIOUS
  <1> QED
    BY <1>2, <1>4, <1>5, <1>6, <1>7

\* A number put above another one is a number.
LEMMA ShiftNat ==
  ASSUME NEW a \in Nat, NEW m \in Nat, NEW k \in Nat PROVE a + (m * Pow2[k]) \in Nat
  BY Pow2Pos

\* More bits hold more numbers.
LEMMA Pow2Monotone ==
  ASSUME NEW j \in Nat, NEW k \in Nat, j <= k PROVE Pow2[j] <= Pow2[k]
  <1>1. PICK i \in Nat : k = j + i
    BY k - j \in Nat
  <1>2. PICK p \in Nat \ {0}, e \in Nat \ {0} : p = Pow2[j] /\ e = Pow2[i] /\ Pow2[j + i] = p * e
    BY Pow2Pos, Pow2Add
  <1>3. p * (e - 1) >= 0
    OBVIOUS
  <1>4. p * (e - 1) = (p * e) - p
    OBVIOUS
  <1> QED
    BY <1>1, <1>2, <1>3, <1>4

\* The lower bits of what read_item() puts together are those of the last item.
LEMMA OrShiftedBit ==
  ASSUME NEW r \in Nat, NEW n \in Nat, NEW low \in Nat
  PROVE  /\ B!OrShifted(r, n, low) \in Nat
         /\ \A i \in Nat : i < n => B!Bit(B!OrShifted(r, n, low), i) = B!Bit(low, i)
  <1>1. PICK p \in Nat \ {0} : p = Pow2[n] /\ B!Pow2[n] = p
    BY Pow2Pos, SamePow2
  <1>2. PICK a \in Nat : a = low % p
    BY <1>1, TakenApart
  <1>3. PICK q \in Nat : B!OrShifted(r, n, low) = a + (q * p)
    <2>1. CASE low >= p /\ r % 2 = 0
      <3>1. B!OrShifted(r, n, low) = ((r * p) + a) + p
        BY <1>1, <1>2, <2>1 DEF B!OrShifted
      <3>2. a + ((r + 1) * p) = ((r * p) + a) + p
        OBVIOUS
      <3> QED
        BY <3>1, <3>2, r + 1 \in Nat
    <2>2. CASE ~(low >= p /\ r % 2 = 0)
      <3>1. B!OrShifted(r, n, low) = ((r * p) + a) + 0
        BY <1>1, <1>2, <2>2 DEF B!OrShifted
      <3>2. a + (r * p) = ((r * p) + a) + 0
        OBVIOUS
      <3> QED
        BY <3>1, <3>2
    <2> QED
      BY <2>1, <2>2
  <1>4. ASSUME NEW i \in Nat, i < n PROVE B!Bit(B!OrShifted(r, n, low), i) = B!Bit(low, i)
    <2>1. B!Bit(a + (q * Pow2[n]), i) = B!Bit(a, i)
      BY <1>4, BitBelow
    <2>2. B!Bit(low % Pow2[n], i) = B!Bit(low, i)
      BY <1>4, BitMod
    <2> QED
      BY <1>1, <1>2, <1>3, <2>1, <2>2
  <1>5. a + (q * p) \in Nat
    OBVIOUS
  <1> QED
    BY <1>3, <1>4, <1>5

\* Dropping bits twice.
LEMMA DivDiv ==
  ASSUME NEW x \in Nat, NEW j \in Nat, NEW k \in Nat
  PROVE  (x \div Pow2[j]) \div Pow2[k] = x \div Pow2[j + k]
  <1>1. PICK p \in Nat \ {0}, e \in Nat \ {0} : p = Pow2[j] /\ e = Pow2[k] /\ Pow2[j + k] = p * e
    BY Pow2Pos, Pow2Add
  <1>2. PICK a \in Nat, m \in Nat : a < p /\ m = x \div Pow2[j] /\ x = a + (m * p)
    <2>1. x % Pow2[j] \in Nat /\ x % Pow2[j] < Pow2[j] /\ x \div Pow2[j] \in Nat
      BY TakenApart
    <2>2. x = (x % Pow2[j]) + ((x \div Pow2[j]) * Pow2[j])
      BY TakenApart
    <2> QED
      BY <1>1, <2>1, <2>2, Zenon
  <1>3. PICK b \in Nat, h \in Nat : b < e /\ h = m \div Pow2[k] /\ m = b + (h * e)
    <2>1. m % Pow2[k] \in Nat /\ m % Pow2[k] < Pow2[k] /\ m \div Pow2[k] \in Nat
      BY TakenApart
    <2>2. m = (m % Pow2[k]) + ((m \div Pow2[k]) * Pow2[k])
      BY TakenApart
    <2> QED
      BY <1>1, <2>1, <2>2, Zenon
  <1>4. PICK q \in Nat \ {0} : q = p * e
    BY p * e \in Nat /\ p * e # 0
  <1>5. PICK c \in Nat : c = a + (b * p)
    OBVIOUS
  <1>6. c < q
    <2>1. (e - b) * p >= p
      BY <1>3
    <2>2. (e - b) * p = (p * e) - (b * p)
      OBVIOUS
    <2>3. PICK u \in Int : u = b * p
      OBVIOUS
    <2> QED
      BY <1>2, <1>4, <1>5, <2>1, <2>2, <2>3
  <1>7. x = (q * h) + c
    <2>1. m * p = (b * p) + ((p * e) * h)
      BY <1>3
    <2> QED
      BY <1>2, <1>4, <1>5, <2>1
  <1>8. x \div q = h
    <2>1. c \in 0..(q - 1) /\ x \in Int /\ h \in Int
      BY <1>6
    <2> QED
      BY <1>7, <2>1, Quotient
  <1> QED
    BY <1>1, <1>2, <1>3, <1>4, <1>8

------------------------------------------------------------------------------
(* BitStream: reading.                                                     *)

\* The bits of item i of a stream of z bits, and those of the first j items.
Width(z, i) == IF (i * ElemBits) + ElemBits <= z THEN ElemBits ELSE z - (i * ElemBits)
Taken(z, j) == IF j * ElemBits > z THEN z ELSE j * ElemBits

\* The place of a reader that has taken j of the items o, of z bits, and has
\* avail bits of the last one left: item is that one without the bits read.
Place(o, z, j, item, avail) ==
  /\ o \in Seq(Nat) /\ z \in Nat /\ j \in Nat /\ j <= Len(o) /\ item \in Nat /\ avail \in Nat
  /\ z <= Len(o) * ElemBits
  /\ j = 0 => z = 0 /\ avail = 0
  /\ j > 0 => /\ (j - 1) * ElemBits < z /\ avail <= Width(z, j - 1)
              /\ item = o[j] \div Pow2[Width(z, j - 1) - avail]

\* An answer a that fits the items and the place behind it.
Right(o, z, j, avail, a) ==
  a.n > 0 =>
    /\ a.threw <=> a.pos + a.n > z
    /\ ~a.threw => Taken(z, j) - avail = a.pos + a.n
    /\ (a.pos \div ElemBits = ((a.pos + a.n) - 1) \div ElemBits /\ ~a.threw) =>
         \A p \in a.pos..((a.pos + a.n) - 1) :
           B!Bit(a.value, p - a.pos) = B!Bit(o[(p \div ElemBits) + 1], p % ElemBits)

\* Item and bit of a position.
LEMMA Within ==
  ASSUME ElemBits \in Nat \ {0}, NEW i \in Nat, NEW t \in Nat, t < ElemBits,
         NEW p \in Int, p = (i * ElemBits) + t
  PROVE  p \div ElemBits = i /\ p % ElemBits = t
  <1>1. p = (ElemBits * i) + t /\ t \in 0..(ElemBits - 1) /\ i \in Int
    OBVIOUS
  <1>2. p \div ElemBits = i
    BY <1>1, Quotient
  <1>3. p % ElemBits = t
    BY <1>1, Remainder
  <1> QED
    BY <1>2, <1>3

\* An item has at most its bits, and begins where the items before it end.
LEMMA Widths ==
  ASSUME ElemBits \in Nat \ {0}, NEW z \in Nat, NEW i \in Nat, i * ElemBits < z
  PROVE  /\ Width(z, i) \in Nat /\ 0 < Width(z, i) /\ Width(z, i) <= ElemBits
         /\ i * ElemBits \in Nat /\ Taken(z, i) = i * ElemBits
         /\ Taken(z, i + 1) = (i * ElemBits) + Width(z, i)
         /\ (i * ElemBits) + Width(z, i) <= z
  <1>1. PICK x \in Nat : x = i * ElemBits /\ (i + 1) * ElemBits = x + ElemBits
    OBVIOUS
  <1> QED
    BY <1>1 DEF Width, Taken

\* Where a reader is that has taken an item.
LEMMA PlaceAt ==
  ASSUME ElemBits \in Nat \ {0}, NEW o, NEW z, NEW j, NEW item, NEW avail,
         Place(o, z, j, item, avail), j > 0
  PROVE  \E i \in Nat, x \in Nat, c \in Nat, e \in Nat :
           /\ j = i + 1 /\ x = i * ElemBits /\ e = o[j]
           /\ c + avail = Width(z, i) /\ c + avail <= ElemBits
           /\ Taken(z, j) = (x + c) + avail /\ (x + c) + avail <= z
           /\ item = e \div Pow2[c]
  <1>1. PICK i \in Nat : i = j - 1 /\ j = i + 1 /\ i * ElemBits < z
    BY DEF Place
  <1>2. PICK x \in Nat, w \in Nat :
          /\ x = i * ElemBits /\ w = Width(z, i) /\ w <= ElemBits
          /\ Taken(z, j) = x + w /\ x + w <= z
    <2>1. z \in Nat
      BY DEF Place
    <2>2. /\ Width(z, i) \in Nat /\ Width(z, i) <= ElemBits /\ i * ElemBits \in Nat
          /\ Taken(z, i + 1) = (i * ElemBits) + Width(z, i)
          /\ (i * ElemBits) + Width(z, i) <= z
      BY <1>1, <2>1, Widths
    <2> QED
      BY <1>1, <2>2, Zenon
  <1>3. PICK c \in Nat : c = w - avail /\ c + avail = w
    <2>1. avail <= w /\ avail \in Nat
      BY <1>1, <1>2 DEF Place
    <2> QED
      BY <2>1, w - avail \in Nat
  <1>4. item = o[j] \div Pow2[c] /\ o[j] \in Nat
    <2>1. item = o[j] \div Pow2[w - avail]
      BY <1>1, <1>2 DEF Place
    <2>2. o[j] \in Nat
      <3>1. o \in Seq(Nat) /\ j \in 1..Len(o)
        BY DEF Place
      <3> QED
        BY <3>1
    <2> QED
      BY <1>3, <2>1, <2>2
  <1>5. Taken(z, j) = (x + c) + avail /\ (x + c) + avail <= z /\ avail \in Nat
    <2>1. avail \in Nat /\ z \in Nat
      BY DEF Place
    <2>2. (x + c) + avail = x + w
      BY <1>3, <2>1
    <2> QED
      BY <1>2, <2>1, <2>2
  <1> QED
    BY <1>1, <1>2, <1>3, <1>4, <1>5

\* A number inside the current item.
LEMMA ReadsInside ==
  ASSUME ElemBits \in Nat \ {0}, NEW o, NEW z, NEW j, NEW item, NEW avail,
         Place(o, z, j, item, avail), NEW n \in Nat, n <= avail, NEW a,
         a = [pos |-> Taken(z, j) - avail, n |-> n, value |-> item % Pow2[n + 1], threw |-> FALSE]
  PROVE  /\ Place(o, z, j, item \div Pow2[n], avail - n)
         /\ Right(o, z, j, avail - n, a)
  <1>0. item \in Nat /\ avail \in Nat /\ avail - n \in Nat /\ z \in Nat /\ o \in Seq(Nat)
    BY DEF Place
  <1>1. CASE j = 0
    <2>1. n = 0 /\ avail = 0
      BY <1>1 DEF Place
    <2>2. item \div Pow2[n] \in Nat
      BY <1>0, TakenApart
    <2>3. Place(o, z, j, item \div Pow2[n], avail - n)
      BY <1>1, <2>1, <2>2 DEF Place
    <2>4. Right(o, z, j, avail - n, a)
      BY <2>1 DEF Right
    <2> QED
      BY <2>3, <2>4
  <1>2. CASE j > 0
    <2>1. PICK i \in Nat, x \in Nat, c \in Nat, e \in Nat :
            /\ j = i + 1 /\ x = i * ElemBits /\ e = o[j]
            /\ c + avail = Width(z, i) /\ c + avail <= ElemBits
            /\ Taken(z, j) = (x + c) + avail /\ (x + c) + avail <= z
            /\ item = e \div Pow2[c]
      BY <1>2, PlaceAt
    <2>2. item \div Pow2[n] = e \div Pow2[c + n]
      <3>1. (e \div Pow2[c]) \div Pow2[n] = e \div Pow2[c + n]
        BY DivDiv
      <3> QED
        BY <2>1, <3>1, Zenon
    <2>3. Place(o, z, j, item \div Pow2[n], avail - n)
      <3>1. item \div Pow2[n] \in Nat
        BY <1>0, TakenApart
      <3>2. Width(z, j - 1) - (avail - n) = c + n /\ avail - n <= Width(z, j - 1)
        <4>1. j - 1 = i
          BY <2>1
        <4>2. PICK w \in Nat : w = Width(z, i) /\ c + avail = w
          BY <1>0, <2>1
        <4> QED
          BY <4>1, <4>2, <1>0
      <3>3. item \div Pow2[n] = o[j] \div Pow2[Width(z, j - 1) - (avail - n)]
        BY <2>1, <2>2, <3>2
      <3> QED
        BY <1>2, <3>1, <3>2, <3>3, <1>0 DEF Place
    <2>4. Right(o, z, j, avail - n, a)
      <3>1. a.pos = x + c /\ a.n = n /\ a.value = item % Pow2[n + 1] /\ a.threw = FALSE
        BY <1>0, <2>1
      <3>2. ~((x + c) + n > z) /\ Taken(z, j) - (avail - n) = (x + c) + n
        BY <1>0, <2>1, SMTT(20)
      <3>3. ASSUME NEW p \in (x + c)..(((x + c) + n) - 1)
            PROVE  B!Bit(item % Pow2[n + 1], p - (x + c))
                     = B!Bit(o[(p \div ElemBits) + 1], p % ElemBits)
        <4>1. PICK t \in Nat : t = p - (x + c) /\ t < n /\ t < n + 1 /\ p = x + (c + t)
          OBVIOUS
        <4>2. p \div ElemBits = i /\ p % ElemBits = c + t
          <5>1. c + t \in Nat /\ c + t < ElemBits /\ p = (i * ElemBits) + (c + t) /\ p \in Int
            BY <1>0, <2>1, <4>1
          <5> QED
            BY <5>1, Within
        <4>3. B!Bit(item % Pow2[n + 1], t) = B!Bit(item, t)
          BY <1>0, <4>1, BitMod, n + 1 \in Nat
        <4>4. B!Bit(item, t) = B!Bit(e, c + t)
          <5>1. B!Bit(e \div Pow2[c], t) = B!Bit(e, c + t)
            BY BitDiv
          <5> QED
            BY <2>1, <5>1, Zenon
        <4> QED
          BY <2>1, <4>1, <4>2, <4>3, <4>4
      <3> QED
        BY <3>1, <3>2, <3>3 DEF Right
    <2> QED
      BY <2>3, <2>4
  <1> QED
    BY <1>1, <1>2 DEF Place

\* The next item, of which t bits are read.
LEMMA TakesItem ==
  ASSUME ElemBits \in Nat \ {0}, NEW o, NEW z, NEW j, NEW item, NEW avail,
         Place(o, z, j, item, avail), j * ElemBits < z, NEW t \in Nat, t <= Width(z, j)
  PROVE  Place(o, z, j + 1, o[j + 1] \div Pow2[t], Width(z, j) - t)
  <1>1. o \in Seq(Nat) /\ z \in Nat /\ j \in Nat /\ j <= Len(o) /\ z <= Len(o) * ElemBits
    BY DEF Place
  <1>2. PICK w \in Nat : w = Width(z, j) /\ w - t \in Nat
    BY <1>1, Widths
  <1>3. j + 1 <= Len(o)
    <2>1. SUFFICES ASSUME j = Len(o) PROVE FALSE
      BY <1>1
    <2> QED
      BY <2>1, <1>1
  <1>4. o[j + 1] \in Nat
    BY <1>1, <1>3
  <1>5. o[j + 1] \div Pow2[t] \in Nat
    BY <1>4, TakenApart
  <1>6. (j + 1) - 1 = j /\ j + 1 > 0 /\ j + 1 \in Nat /\ w - (w - t) = t /\ w - t <= w
    BY <1>1, <1>2
  <1> QED
    BY <1>1, <1>2, <1>3, <1>5, <1>6 DEF Place

\* The last item of a number; the number lies in it alone if it begins there.
LEMMA ReadsOn ==
  ASSUME ElemBits \in Nat \ {0}, NEW o, NEW z, NEW j, NEW item, NEW avail,
         Place(o, z, j, item, avail), j * ElemBits < z,
         NEW n \in Nat, 0 < n, n <= Width(z, j), NEW r \in Nat, NEW a,
         a.pos \in Nat, a.n \in Nat, a.pos + a.n = Taken(z, j) + n, a.pos <= Taken(z, j),
         a.threw = FALSE, a.value = B!OrShifted(r, n, o[j + 1] % Pow2[n + 1])
  PROVE  Right(o, z, j + 1, Width(z, j) - n, a)
  <1>1. o \in Seq(Nat) /\ z \in Nat /\ j \in Nat
    BY DEF Place
  <1>2. PICK e \in Nat : e = o[j + 1]
    <2>1. Place(o, z, j + 1, o[j + 1] \div Pow2[0], Width(z, j) - 0)
      <3>1. 0 \in Nat /\ 0 <= Width(z, j)
        BY <1>1, Widths
      <3> QED
        BY <3>1, TakesItem
    <2>2. j + 1 \in 1..Len(o)
      BY <1>1, <2>1 DEF Place
    <2> QED
      BY <1>1, <2>2
  <1>3. PICK x \in Nat, w \in Nat :
          /\ x = j * ElemBits /\ w = Width(z, j) /\ w <= ElemBits
          /\ Taken(z, j) = x /\ Taken(z, j + 1) = x + w /\ x + w <= z
    BY <1>1, Widths
  <1>4. PICK first \in Nat, m \in Nat :
          first = a.pos /\ m = a.n /\ first + m = x + n /\ first <= x /\ n <= w
    BY <1>3
  <1>5. ~(first + m > z) /\ Taken(z, j + 1) - (w - n) = first + m
    <2>1. (x + w) - (w - n) = x + n
      OBVIOUS
    <2>2. x + w <= z /\ n <= w /\ z \in Nat
      BY <1>1, <1>3, <1>4, Zenon
    <2>3. x + n <= z
      BY <2>2
    <2> QED
      BY <1>1, <1>3, <1>4, <2>1, <2>3
  <1>6. ((first + m) - 1) \div ElemBits = j
    <2>1. PICK t \in Nat : t = n - 1
      BY n - 1 \in Nat
    <2>2. (first + m) - 1 = (j * ElemBits) + t /\ t < ElemBits /\ (first + m) - 1 \in Int
      BY <1>3, <1>4, <2>1
    <2> QED
      BY <1>1, <2>1, <2>2, Within
  <1>7. ASSUME first \div ElemBits = j PROVE first = x /\ m = n
    <2>1. PICK d \in 0..(ElemBits - 1) : first = (ElemBits * j) + d
      BY <1>7, Division, first \in Int
    <2>2. ElemBits * j = x
      BY <1>1, <1>3
    <2> QED
      BY <1>4, <2>1, <2>2
  <1>8. ASSUME first = x, m = n, NEW p \in first..((first + m) - 1)
        PROVE  B!Bit(a.value, p - first) = B!Bit(o[(p \div ElemBits) + 1], p % ElemBits)
    <2>1. PICK t \in Nat : t = p - first /\ t < n /\ t < n + 1 /\ p = x + t
      BY <1>8
    <2>2. p \div ElemBits = j /\ p % ElemBits = t
      <3>1. t < ElemBits /\ p = (j * ElemBits) + t /\ p \in Int
        BY <1>3, <1>4, <2>1
      <3> QED
        BY <1>1, <3>1, Within
    <2>3. PICK low \in Nat : low = e % Pow2[n + 1]
      BY TakenApart, n + 1 \in Nat
    <2>4. B!Bit(B!OrShifted(r, n, low), t) = B!Bit(low, t)
      BY <2>1, OrShiftedBit
    <2>5. B!Bit(low, t) = B!Bit(e, t)
      BY <2>1, <2>3, BitMod, n + 1 \in Nat
    <2> QED
      BY <1>2, <2>1, <2>2, <2>3, <2>4, <2>5
  <1>9. ~a.threw /\ Width(z, j) = w /\ a.pos = first /\ a.n = m
    BY <1>3, <1>4
  <1> QED
    BY <1>5, <1>6, <1>7, <1>8, <1>9 DEF Right

\* The bits left in the item have been taken.
LEMMA PosNat ==
  ASSUME ElemBits \in Nat \ {0}, NEW o, NEW z, NEW j, NEW item, NEW avail,
         Place(o, z, j, item, avail)
  PROVE  Taken(z, j) \in Nat /\ Taken(z, j) - avail \in Nat
  <1>1. j \in Nat /\ avail \in Nat
    BY DEF Place
  <1>2. CASE j = 0
    BY <1>2 DEF Place, Taken
  <1>3. CASE j > 0
    <2>1. PICK x \in Nat, c \in Nat : Taken(z, j) = (x + c) + avail
      BY <1>3, PlaceAt
    <2> QED
      BY <1>1, <2>1
  <1> QED
    BY <1>1, <1>2, <1>3

\* A read that has taken all bits of the items so far and needs more.
Underway(z, j, rd, a) ==
  /\ rd.n \in Nat /\ rd.n > 0 /\ rd.r \in Nat /\ a.threw = FALSE
  /\ a.pos + a.n = Taken(z, j) + rd.n /\ a.pos <= Taken(z, j)

Answers == [pos : Nat, n : Nat, value : Nat, threw : BOOLEAN]

\* Where the reader is, and what it has answered.
ReaderIn ==
  /\ Place(out, bit_size, items_read, cur_item, cur_item_bits)
  /\ last_read \in Answers /\ reading \in [n : Nat, r : Nat]
  /\ reading # B!NotReading => Underway(bit_size, items_read, reading, last_read)
  /\ reading = B!NotReading => Right(out, bit_size, items_read, cur_item_bits, last_read)

\* The model's names.
LEMMA SameRead ==
  /\ B!bits_read = Taken(bit_size, items_read)
  /\ B!ReadPos = Taken(bit_size, items_read) - cur_item_bits
  /\ \A i : B!ItemBits(i) = Width(bit_size, i)
  BY DEF B!bits_read, B!ReadPos, B!ItemBits, Taken, Width

\* read_bits() of a number inside the item.
LEMMA ReadBitsKeeps ==
  ASSUME ElemBits \in Nat \ {0}, ReaderIn, NEW n \in Nat, B!read_bits(n) PROVE ReaderIn'
  <1>1. /\ reading = B!NotReading /\ n <= cur_item_bits
        /\ cur_item' = cur_item \div Pow2[n] /\ cur_item_bits' = cur_item_bits - n
        /\ last_read' = [pos |-> Taken(bit_size, items_read) - cur_item_bits, n |-> n,
                         value |-> cur_item % Pow2[n + 1], threw |-> FALSE]
        /\ UNCHANGED <<out, bit_size, items_read, reading>>
    BY SameRead, SamePow2 DEF B!read_bits, B!writer
  <1>2. Place(out, bit_size, items_read, cur_item, cur_item_bits)
    BY DEF ReaderIn
  <1>3. /\ Place(out, bit_size, items_read, cur_item', cur_item_bits')
        /\ Right(out, bit_size, items_read, cur_item_bits', last_read')
    BY <1>1, <1>2, ReadsInside
  <1>4. last_read' \in Answers
    <2>1. cur_item % Pow2[n + 1] \in Nat
      BY <1>2, TakenApart, n + 1 \in Nat DEF Place
    <2>2. Taken(bit_size, items_read) - cur_item_bits \in Nat
      BY <1>2, PosNat
    <2> QED
      BY <1>1, <2>1, <2>2 DEF Answers
  <1>5. reading' \in [n : Nat, r : Nat] /\ reading' = B!NotReading
    BY <1>1 DEF ReaderIn
  <1> QED
    BY <1>1, <1>3, <1>4, <1>5, Zenon DEF ReaderIn, B!NotReading

\* read_bits() of a longer number.
LEMMA ReadBitsLongKeeps ==
  ASSUME ElemBits \in Nat \ {0}, ReaderIn, NEW n \in Nat, B!read_bits_long(n) PROVE ReaderIn'
  <1>1. /\ reading = B!NotReading /\ n > cur_item_bits
        /\ reading' = [n |-> n - cur_item_bits, r |-> cur_item]
        /\ last_read' = [pos |-> Taken(bit_size, items_read) - cur_item_bits, n |-> n,
                         value |-> 0, threw |-> FALSE]
        /\ UNCHANGED <<out, bit_size, items_read, cur_item, cur_item_bits>>
    BY SameRead DEF B!read_bits_long, B!writer
  <1>2. Place(out, bit_size, items_read, cur_item, cur_item_bits)
    BY DEF ReaderIn
  <1>3. PICK pos \in Nat, u \in Nat, t \in Nat :
          /\ pos = t - u /\ t = Taken(bit_size, items_read) /\ u = cur_item_bits
    BY <1>2, PosNat DEF Place
  <1>4. last_read' \in Answers /\ last_read'.pos = t - u /\ last_read'.n = n
        /\ last_read'.threw = FALSE
    BY <1>1, <1>3 DEF Answers
  <1>5. PICK k \in Nat : k = n - u /\ k > 0 /\ reading'.n = k /\ reading'.r = cur_item
    BY <1>1, <1>3, n - u \in Nat
  <1>6. reading' \in [n : Nat, r : Nat] /\ reading' # B!NotReading
    BY <1>1, <1>2, <1>3, <1>5 DEF Place, B!NotReading
  <1>7. (t - u) + n = t + k /\ t - u <= t
    BY <1>3, <1>5
  <1>8. Underway(bit_size, items_read, reading', last_read')
    BY <1>2, <1>3, <1>4, <1>5, <1>7 DEF Underway, Place
  <1> QED
    BY <1>1, <1>2, <1>4, <1>6, <1>8, Zenon DEF ReaderIn, B!NotReading

\* read_item() in the middle of a number.
LEMMA ReadItemKeeps ==
  ASSUME ElemBits \in Nat \ {0}, ReaderIn, B!read_item PROVE ReaderIn'
  <1> DEFINE w == Width(bit_size, items_read)
             item == out[items_read + 1]
  <1>1. /\ reading # B!NotReading /\ items_read * ElemBits < bit_size
        /\ items_read' = items_read + 1 /\ UNCHANGED <<out, bit_size>>
    BY SameRead DEF B!read_item, B!writer
  <1>2. \/ /\ reading.n > w
           /\ reading' = [n |-> reading.n - w, r |-> B!OrShifted(reading.r, w, item)]
           /\ cur_item' = item /\ cur_item_bits' = w /\ UNCHANGED last_read
        \/ /\ ~(reading.n > w) /\ reading' = B!NotReading
           /\ cur_item' = item \div Pow2[reading.n] /\ cur_item_bits' = w - reading.n
           /\ last_read' = [last_read EXCEPT !.value =
                B!OrShifted(reading.r, reading.n, item % Pow2[reading.n + 1])]
    BY SameRead, SamePow2 DEF B!read_item
  <1>3. Place(out, bit_size, items_read, cur_item, cur_item_bits)
    BY DEF ReaderIn
  <1>4. /\ Underway(bit_size, items_read, reading, last_read)
        /\ last_read \in Answers /\ reading \in [n : Nat, r : Nat]
    BY <1>1 DEF ReaderIn
  <1>5. PICK n \in Nat, r \in Nat : n = reading.n /\ r = reading.r /\ n > 0
    BY <1>4 DEF Underway
  <1>6. /\ bit_size \in Nat /\ items_read \in Nat /\ out \in Seq(Nat)
        /\ items_read \in 0..Len(out)
    BY <1>3 DEF Place
  <1>7. PICK x \in Nat, v \in Nat :
          /\ x = items_read * ElemBits /\ v = w /\ 0 < v
          /\ Taken(bit_size, items_read) = x /\ Taken(bit_size, items_read + 1) = x + v
    BY <1>1, <1>6, Widths
  <1>8. \A t \in Nat : t <= v =>
          Place(out, bit_size, items_read + 1, item \div Pow2[t], v - t)
    BY <1>1, <1>3, <1>7, TakesItem
  <1>9. item \in Nat
    <2>1. items_read + 1 <= Len(out)
      BY <1>7, <1>8, 0 \in Nat DEF Place
    <2> QED
      BY <1>6, <2>1
  <1>10. PICK pos \in Nat, m \in Nat :
           pos = last_read.pos /\ m = last_read.n /\ pos + m = x + n /\ pos <= x
    BY <1>4, <1>5, <1>7 DEF Underway, Answers
  <1> HIDE DEF w, item
  <1>11. CASE n > v
    <2>1. /\ reading' = [n |-> n - v, r |-> B!OrShifted(r, v, item)]
          /\ cur_item' = item /\ cur_item_bits' = v /\ UNCHANGED last_read
      BY <1>2, <1>5, <1>7, <1>11
    <2>2. Place(out, bit_size, items_read + 1, item, v)
      <3>1. Pow2[0] = 1 /\ item \div 1 = item /\ v - 0 = v /\ 0 <= v /\ 0 \in Nat
        BY <1>9, Pow2Unfold
      <3> QED
        BY <1>8, <3>1
    <2>3. PICK k \in Nat, y \in Nat : k = n - v /\ k > 0 /\ y = B!OrShifted(r, v, item)
      <3>1. B!OrShifted(r, v, item) \in Nat
        BY <1>9, OrShiftedBit
      <3>2. n - v \in Nat /\ n - v > 0
        BY <1>11
      <3> QED
        BY <3>1, <3>2, Zenon
    <2>4. reading' \in [n : Nat, r : Nat] /\ reading' # B!NotReading
      BY <2>1, <2>3 DEF B!NotReading
    <2>5. pos + m = (x + v) + k /\ pos <= x + v
      BY <1>10, <2>3
    <2>6. Underway(bit_size, items_read + 1, reading', last_read')
      BY <1>4, <1>7, <1>10, <2>1, <2>3, <2>5 DEF Underway
    <2> QED
      BY <1>1, <1>4, <2>1, <2>2, <2>4, <2>6, Zenon DEF ReaderIn, B!NotReading
  <1>12. CASE ~(n > v)
    <2>1. /\ reading' = B!NotReading
          /\ cur_item' = item \div Pow2[n] /\ cur_item_bits' = v - n
          /\ last_read' = [last_read EXCEPT !.value = B!OrShifted(r, n, item % Pow2[n + 1])]
      BY <1>2, <1>5, <1>7, <1>12
    <2>2. n <= v
      BY <1>12
    <2>3. Place(out, bit_size, items_read + 1, item \div Pow2[n], v - n)
      BY <1>8, <2>2
    <2>4. PICK low \in Nat, y \in Nat :
            low = item % Pow2[n + 1] /\ y = B!OrShifted(r, n, low)
      <3>1. PICK low \in Nat : low = item % Pow2[n + 1]
        BY <1>9, TakenApart, n + 1 \in Nat
      <3>2. B!OrShifted(r, n, low) \in Nat
        BY OrShiftedBit
      <3> QED
        BY <3>1, <3>2, Zenon
    <2>5. /\ last_read' \in Answers /\ last_read'.pos = pos /\ last_read'.n = m
          /\ last_read'.threw = FALSE /\ last_read'.value = y
      BY <1>4, <1>10, <2>1, <2>4 DEF Answers, Underway
    <2>6. PICK a : a = last_read'
      OBVIOUS
    <2>7. Right(out, bit_size, items_read + 1, v - n, a)
      <3>1. /\ a.pos \in Nat /\ a.n \in Nat /\ a.pos + a.n = Taken(bit_size, items_read) + n
            /\ a.pos <= Taken(bit_size, items_read) /\ a.threw = FALSE
            /\ a.value = B!OrShifted(r, n, out[items_read + 1] % Pow2[n + 1])
            /\ n <= Width(bit_size, items_read) /\ 0 < n
        BY <1>5, <1>7, <1>10, <2>2, <2>4, <2>5, <2>6 DEF w, item
      <3>2. Right(out, bit_size, items_read + 1, Width(bit_size, items_read) - n, a)
        BY <1>1, <1>3, <3>1, ReadsOn
      <3> QED
        BY <1>7, <3>2 DEF w
    <2>8. reading' \in [n : Nat, r : Nat]
      BY <2>1 DEF B!NotReading
    <2> QED
      BY <1>1, <2>1, <2>3, <2>5, <2>6, <2>7, <2>8, Zenon DEF ReaderIn, B!NotReading
  <1> QED
    BY <1>11, <1>12

\* BitStreamFinished.
LEMMA ThrowKeeps ==
  ASSUME ElemBits \in Nat \ {0}, ReaderIn, B!read_item_throws PROVE ReaderIn'
  <1>1. /\ reading # B!NotReading /\ items_read * ElemBits >= bit_size
        /\ reading' = B!NotReading /\ last_read' = [last_read EXCEPT !.threw = TRUE]
        /\ UNCHANGED <<out, bit_size, items_read, cur_item, cur_item_bits>>
    BY DEF B!read_item_throws, B!writer
  <1>2. /\ Place(out, bit_size, items_read, cur_item, cur_item_bits)
        /\ Underway(bit_size, items_read, reading, last_read) /\ last_read \in Answers
    BY <1>1 DEF ReaderIn
  <1>3. Taken(bit_size, items_read) = bit_size /\ bit_size \in Nat
    <2>1. PICK x \in Nat, z \in Nat :
            x = items_read * ElemBits /\ z = bit_size /\ x >= z
      BY <1>1, <1>2 DEF Place
    <2> QED
      BY <2>1 DEF Taken
  <1>4. last_read.pos + last_read.n > bit_size
    BY <1>2, <1>3 DEF Underway, Answers
  <1>5. /\ last_read' \in Answers /\ last_read'.pos = last_read.pos
        /\ last_read'.n = last_read.n /\ last_read'.threw = TRUE
    BY <1>1, <1>2 DEF Answers
  <1>6. Right(out, bit_size, items_read, cur_item_bits, last_read')
    BY <1>4, <1>5 DEF Right
  <1>7. reading' \in [n : Nat, r : Nat]
    BY <1>1 DEF B!NotReading
  <1> QED
    BY <1>1, <1>2, <1>5, <1>6, <1>7, Zenon DEF ReaderIn, B!NotReading

\* A number that fits is its own remainder.
LEMMA SmallMod ==
  ASSUME NEW m \in Nat \ {0}, NEW x \in Nat, x < m PROVE x % m = x
  <1>1. x = (m * 0) + x /\ x \in 0..(m - 1) /\ 0 \in Int /\ x \in Int
    OBVIOUS
  <1> QED
    BY <1>1, Remainder

\* The items of a loop over the items of a number, and how many bits are left.
LEMMA TurnsLeft ==
  ASSUME ElemBits \in Nat \ {0}, NEW m \in Nat \ {0}
  PROVE  \E t \in Nat, y \in Nat, l \in Nat :
           t = B!Turns(m) /\ y = t * ElemBits /\ m = y + l /\ 0 < l /\ l <= ElemBits
  <1>1. PICK t \in Int, d \in 0..(ElemBits - 1) :
          t = (m - 1) \div ElemBits /\ m - 1 = (ElemBits * t) + d
    BY Division, m - 1 \in Int
  <1>2. t \in Nat
    <2>1. SUFFICES ASSUME t <= 0 - 1 PROVE FALSE
      OBVIOUS
    <2>2. ElemBits * t <= 0 - ElemBits
      BY <2>1
    <2> QED
      BY <1>1, <2>2
  <1>3. B!Turns(m) = t
    BY <1>1 DEF B!Turns
  <1>4. PICK y \in Nat : y = t * ElemBits /\ y = ElemBits * t
    BY <1>2
  <1>5. m = y + (d + 1) /\ d + 1 \in Nat /\ 0 < d + 1 /\ d + 1 <= ElemBits
    BY <1>1, <1>4
  <1> QED
    BY <1>2, <1>3, <1>4, <1>5

\* A sequence behind another.
Behind(s, t, u) ==
  /\ Len(u) = Len(s) + Len(t)
  /\ \A i \in 1..Len(s) : u[i] = s[i]
  /\ \A i \in 1..Len(t) : u[Len(s) + i] = t[i]

\* Concatenation puts it there.
LEMMA ConcatBehind ==
  ASSUME NEW X, NEW s \in Seq(X), NEW t \in Seq(X)
  PROVE  s \o t \in Seq(X) /\ Behind(s, t, s \o t)
  BY DEF Behind

\* The bits given to write_uint(), and a sequence u of bits in which they follow s.
BitsOf(v, n) == [i \in 1..n |-> B!Bit(v, i - 1)]

Extended(s, v, n, u) ==
  /\ u \in Seq(0..1) /\ Len(u) = Len(s) + n
  /\ \A i \in 1..Len(s) : u[i] = s[i]
  /\ \A i \in 1..n : u[Len(s) + i] = B!Bit(v, i - 1)

\* write_uint() extends the expected bits so.
LEMMA BitsAppended ==
  ASSUME NEW s \in Seq(0..1), NEW v \in Nat, NEW n \in Nat, NEW u, u = s \o BitsOf(v, n)
  PROVE  Extended(s, v, n, u)
  <1>1. PICK t : t = [i \in 1..n |-> B!Bit(v, i - 1)] /\ t = BitsOf(v, n)
    BY DEF BitsOf
  <1>2. \A i \in 1..n : B!Bit(v, i - 1) \in 0..1
    BY BitHas, \A i \in 1..n : i - 1 \in Nat
  <1>3. t \in Seq(0..1) /\ Len(t) = n /\ \A i \in 1..n : t[i] = B!Bit(v, i - 1)
    BY <1>1, <1>2
  <1>4. u = s \o t
    BY <1>1
  <1>5. /\ u \in Seq(0..1) /\ Len(u) = Len(s) + n
        /\ \A i \in 1..Len(s) : u[i] = s[i]
        /\ \A i \in 1..n : u[Len(s) + i] = t[i]
    <2>1. u \in Seq(0..1) /\ Behind(s, t, u)
      BY <1>3, <1>4, ConcatBehind, Zenon
    <2> QED
      BY <1>3, <2>1, Zenon DEF Behind
  <1> QED
    BY <1>3, <1>5, Zenon DEF Extended

\* Items u that are those of s, x and those of f.
Put(s, x, t, f, u) ==
  /\ Len(u) = (Len(s) + 1) + t
  /\ \A i \in 1..Len(s) : u[i] = s[i]
  /\ u[Len(s) + 1] = x
  /\ \A i \in 1..t : u[(Len(s) + 1) + i] = f[i]

\* The items that write_uint() puts: the current one and the whole ones.
LEMMA ItemsPut ==
  ASSUME NEW s \in Seq(Nat), NEW x \in Nat, NEW t \in Nat, NEW f, NEW u,
         \A i \in 1..t : f[i] \in Nat, f = [i \in 1..t |-> f[i]],
         u = Append(s, x) \o f
  PROVE  u \in Seq(Nat) /\ Put(s, x, t, f, u)
  <1>1. f \in Seq(Nat) /\ Len(f) = t
    <2>1. f \in [1..t -> Nat]
      BY Zenon
    <2> QED
      BY <2>1
  <1>2. PICK g : g = Append(s, x)
    OBVIOUS
  <1>3. /\ g \in Seq(Nat) /\ Len(g) = Len(s) + 1 /\ g[Len(s) + 1] = x
        /\ \A i \in 1..Len(s) : g[i] = s[i]
    BY <1>2
  <1>4. u = g \o f
    BY <1>2
  <1>5. /\ u \in Seq(Nat) /\ Len(u) = Len(g) + Len(f)
        /\ \A i \in 1..Len(g) : u[i] = g[i]
        /\ \A i \in 1..Len(f) : u[Len(g) + i] = f[i]
    <2>1. u \in Seq(Nat) /\ Behind(g, f, u)
      BY <1>1, <1>3, <1>4, ConcatBehind, Zenon
    <2> QED
      BY <2>1, Zenon DEF Behind
  <1> QED
    BY <1>1, <1>3, <1>5, SMTT(20) DEF Put

------------------------------------------------------------------------------
(* BitStream: writing.                                                     *)

\* The bits of j items.
Span(j) == j * ElemBits

\* Items of ElemBits bits, a last one of the bits out so far, and their number.
Packed(o, last, bo, e) ==
  /\ o \in Seq(Nat) /\ \A i \in 1..Len(o) : o[i] < Pow2[ElemBits]
  /\ bo \in Nat /\ bo <= ElemBits /\ last \in Nat /\ last < Pow2[bo]
  /\ e \in Seq(0..1) /\ Span(Len(o)) + bo = Len(e)

\* Item q, and the bit that the items hold at position p.
ItemAt(o, last, q) == IF q < Len(o) THEN o[q + 1] ELSE last
Stored(o, last, p) == B!Bit(ItemAt(o, last, p \div ElemBits), p % ElemBits)

\* It is the expected one, but where a patch did damage.
Agree(o, last, e, harmed) ==
  \A p \in 0..(Len(e) - 1) : p \notin harmed => Stored(o, last, p) = e[p + 1]

\* Both.
Holds(o, last, bo, e, harmed) == Packed(o, last, bo, e) /\ Agree(o, last, e, harmed)

\* A position by item and bit.
LEMMA StoredAt ==
  ASSUME ElemBits \in Nat \ {0}, NEW o, NEW last, NEW q \in Nat, NEW r \in Nat, r < ElemBits,
         NEW p \in Int, p = Span(q) + r
  PROVE  Stored(o, last, p) = B!Bit(ItemAt(o, last, q), r)
  <1>1. p \div ElemBits = q /\ p % ElemBits = r
    BY Within DEF Span
  <1> QED
    BY <1>1 DEF Stored

\* Every position has an item and a bit.
LEMMA ItemAndBit ==
  ASSUME ElemBits \in Nat \ {0}, NEW p \in Nat
  PROVE  \E q \in Nat, r \in Nat : r < ElemBits /\ p = Span(q) + r
  <1>1. PICK q \in Int, r \in 0..(ElemBits - 1) : p = (ElemBits * q) + r
    BY Division, p \in Int
  <1>2. q \in Nat
    <2>1. SUFFICES ASSUME q <= 0 - 1 PROVE FALSE
      OBVIOUS
    <2>2. ElemBits * q <= 0 - ElemBits
      BY <2>1
    <2> QED
      BY <1>1, <2>2
  <1>3. r \in Nat /\ r < ElemBits /\ p = (q * ElemBits) + r
    BY <1>1, <1>2
  <1> QED
    BY <1>2, <1>3 DEF Span

\* An item further on begins later.
LEMMA LaterItem ==
  ASSUME ElemBits \in Nat \ {0}, NEW j \in Nat, NEW k \in Nat, j < k
  PROVE  Span(j) + ElemBits <= Span(k)
  <1>1. ((k - j) - 1) * ElemBits >= 0
    OBVIOUS
  <1>2. ((k - j) - 1) * ElemBits = (k * ElemBits) - ((j * ElemBits) + ElemBits)
    OBVIOUS
  <1>3. PICK x \in Int, y \in Int : x = k * ElemBits /\ y = j * ElemBits
    OBVIOUS
  <1> QED
    BY <1>1, <1>2, <1>3 DEF Span

\* The bits of items add up.
LEMMA SpanAdds ==
  ASSUME ElemBits \in Nat \ {0}, NEW j \in Nat
  PROVE  /\ Span(j) \in Nat /\ Span(j + 1) = Span(j) + ElemBits
         /\ \A k \in Nat : Span(j + k) = Span(j) + Span(k)
  BY DEF Span

\* write_uint() of a number that fits the current item.
LEMMA PutInside ==
  ASSUME ElemBits \in Nat \ {0}, NEW o, NEW last, NEW bo \in Nat, NEW e, NEW harmed,
         Packed(o, last, bo, e), Agree(o, last, e, harmed),
         NEW n \in Nat, bo + n <= ElemBits, NEW v \in Nat, v < Pow2[n],
         NEW last2, last2 = B!Item(last + (v * Pow2[bo])),
         NEW e2, e2 = e \o BitsOf(v, n)
  PROVE  Packed(o, last2, bo + n, e2) /\ Agree(o, last2, e2, harmed)
  <1>1. /\ o \in Seq(Nat) /\ \A i \in 1..Len(o) : o[i] < Pow2[ElemBits]
        /\ bo \in Nat /\ last \in Nat /\ last < Pow2[bo]
        /\ e \in Seq(0..1) /\ Len(e) \in Nat /\ Len(o) \in Nat
    BY DEF Packed
  <1>2. /\ e2 \in Seq(0..1) /\ Len(e2) = Len(e) + n
        /\ \A i \in 1..Len(e) : e2[i] = e[i]
        /\ \A i \in 1..n : e2[Len(e) + i] = B!Bit(v, i - 1)
    <2>1. Extended(e, v, n, e2)
      BY <1>1, BitsAppended, Zenon
    <2> QED
      BY <2>1, Zenon DEF Extended
  <1>3. PICK x \in Nat : x = last + (v * Pow2[bo]) /\ x < Pow2[bo + n]
    BY <1>1, ShiftBound
  <1>4. last2 = x
    <2>1. PICK pn \in Nat, pe \in Nat \ {0} : pn = Pow2[bo + n] /\ pe = Pow2[ElemBits] /\ pn <= pe
      BY <1>1, Pow2Pos, Pow2Monotone, bo + n \in Nat
    <2>2. x % pe = x
      <3>1. x < pe
        BY <1>3, <2>1
      <3> QED
        BY <3>1, SmallMod
    <2> QED
      BY <1>3, <2>1, <2>2, SamePow2 DEF B!Item
  <1>5. PICK L \in Nat, z \in Nat : L = Len(o) /\ z = Span(L) /\ z + bo = Len(e)
    BY <1>1, SpanAdds DEF Packed
  <1>6. Packed(o, last2, bo + n, e2)
    <2>1. PICK le \in Nat, le2 \in Nat :
            le = Len(e) /\ le2 = Len(e2) /\ le2 = le + n /\ z + bo = le
      BY <1>1, <1>2, <1>5
    <2>2. bo + n \in Nat /\ z + (bo + n) = Len(e2)
      BY <1>1, <2>1
    <2> QED
      BY <1>1, <1>2, <1>3, <1>4, <1>5, <2>2 DEF Packed
  <1>7. ASSUME NEW p \in 0..(Len(e2) - 1), p \notin harmed PROVE Stored(o, last2, p) = e2[p + 1]
    <2>0. PICK le \in Nat : le = Len(e) /\ p \in Nat /\ p < le + n /\ p \in Int
      BY <1>1, <1>2
    <2>1. PICK q \in Nat, r \in Nat : r < ElemBits /\ p = Span(q) + r
      BY <2>0, ItemAndBit
    <2>2. /\ Stored(o, last, p) = B!Bit(ItemAt(o, last, q), r)
          /\ Stored(o, last2, p) = B!Bit(ItemAt(o, last2, q), r)
      BY <2>0, <2>1, StoredAt
    <2>3. PICK y \in Nat : y = Span(q) /\ p = y + r
      BY <2>1, SpanAdds
    <2>4. CASE p < Len(e)
      <3>1. Stored(o, last, p) = e[p + 1] /\ e2[p + 1] = e[p + 1]
        <4>1. p \in 0..(Len(e) - 1) /\ p + 1 \in 1..Len(e)
          BY <1>1, <2>4
        <4> QED
          BY <1>2, <1>7, <4>1 DEF Agree
      <3>2. CASE q < L
        BY <1>5, <2>2, <3>1, <3>2 DEF ItemAt
      <3>3. CASE ~(q < L)
        <4>1. r < bo
          <5>1. z <= y
            <6>1. CASE L < q
              <7>1. z + ElemBits <= y
                BY <1>5, <2>3, <6>1, LaterItem
              <7> QED
                BY <7>1
            <6>2. CASE L = q
              BY <1>5, <2>3, <6>2
            <6> QED
              BY <3>3, <6>1, <6>2
          <5> QED
            <6>1. z + bo = le /\ p = y + r /\ p < le
              BY <1>5, <2>0, <2>3, <2>4, Zenon
            <6> QED
              BY <5>1, <6>1
        <4>2. B!Bit(x, r) = B!Bit(last, r)
          BY <1>1, <1>3, <4>1, BitBelow
        <4> QED
          BY <1>4, <1>5, <2>2, <3>1, <3>3, <4>2 DEF ItemAt
      <3> QED
        BY <3>2, <3>3
    <2>5. CASE ~(p < Len(e))
      <3>1. PICK i \in Nat : p = Len(e) + i /\ i < n /\ e2[p + 1] = B!Bit(v, i)
        <4>1. PICK i \in Nat : i = p - Len(e) /\ p = Len(e) + i /\ i < n
          <5>1. p - le \in Nat /\ p = le + (p - le) /\ p - le < n
            BY <2>0, <2>5
          <5> QED
            BY <2>0, <5>1
        <4>2. i + 1 \in 1..n /\ Len(e) + (i + 1) = p + 1 /\ (i + 1) - 1 = i
          BY <2>0, <4>1
        <4>3. e2[Len(e) + (i + 1)] = B!Bit(v, (i + 1) - 1)
          BY <1>2, <4>2
        <4> QED
          BY <4>1, <4>2, <4>3
      <3>2. PICK w \in Nat : w = bo + i /\ w < ElemBits /\ p = Span(L) + w
        <4>1. bo + i \in Nat /\ bo + i < ElemBits /\ p = z + (bo + i)
          <5>1. z + bo = le /\ p = le + i /\ i < n /\ bo \in Nat /\ bo + n <= ElemBits
            BY <1>1, <1>5, <2>0, <3>1, Zenon
          <5> QED
            BY <5>1
        <4> QED
          BY <1>5, <4>1
      <3>3. Stored(o, last2, p) = B!Bit(ItemAt(o, last2, L), w)
        BY <2>0, <3>2, StoredAt
      <3>4. B!Bit(x, bo + i) = B!Bit(v, i)
        BY <1>1, <1>3, BitAbove
      <3> QED
        BY <1>4, <1>5, <3>1, <3>2, <3>3, <3>4 DEF ItemAt
    <2> QED
      BY <2>4, <2>5
  <1> QED
    BY <1>6, <1>7 DEF Agree

\* A whole item of a number, and its bits.
LEMMA WholeItem ==
  ASSUME ElemBits \in Nat \ {0}, NEW v \in Nat, NEW k \in Nat
  PROVE  /\ B!Item(v \div Pow2[k]) \in Nat /\ B!Item(v \div Pow2[k]) < Pow2[ElemBits]
         /\ \A r \in Nat : r < ElemBits => B!Bit(B!Item(v \div Pow2[k]), r) = B!Bit(v, k + r)
  <1>1. PICK x \in Nat : x = v \div Pow2[k]
    BY TakenApart
  <1>2. B!Item(x) = x % Pow2[ElemBits]
    BY SamePow2 DEF B!Item
  <1>3. x % Pow2[ElemBits] \in Nat /\ x % Pow2[ElemBits] < Pow2[ElemBits]
    BY TakenApart
  <1>4. ASSUME NEW r \in Nat, r < ElemBits
        PROVE  B!Bit(x % Pow2[ElemBits], r) = B!Bit(v, k + r)
    <2>1. B!Bit(x % Pow2[ElemBits], r) = B!Bit(x, r)
      BY <1>4, BitMod
    <2>2. B!Bit(v \div Pow2[k], r) = B!Bit(v, k + r)
      BY BitDiv
    <2> QED
      BY <1>1, <2>1, <2>2
  <1> QED
    BY <1>1, <1>2, <1>3, <1>4

\* What write_uint() of a number that does not fit the current item does: the last
\* of o gets the lower b bits of the number, f are whole items, and l bits are left.
Across(o, last, bo, e, n, v, b, t, l, x, f, o2, last2, e2) ==
  /\ Packed(o, last, bo, e) /\ b \in Nat /\ b + bo = ElemBits
  /\ t \in Nat /\ l \in Nat /\ 0 < l /\ l <= ElemBits /\ n = b + (Span(t) + l)
  /\ x \in Nat /\ x < Pow2[ElemBits]
  /\ \A i \in Nat : i < bo => B!Bit(x, i) = B!Bit(last, i)
  /\ \A i \in Nat : i < b => B!Bit(x, bo + i) = B!Bit(v, i)
  /\ \A g \in Nat : g < t =>
       /\ f[g + 1] \in Nat /\ f[g + 1] < Pow2[ElemBits]
       /\ \A r \in Nat : r < ElemBits => B!Bit(f[g + 1], r) = B!Bit(v, (b + Span(g)) + r)
  /\ o2 \in Seq(Nat) /\ Put(o, x, t, f, o2)
  /\ last2 \in Nat /\ last2 < Pow2[l]
  /\ \A r \in Nat : B!Bit(last2, r) = B!Bit(v, (b + Span(t)) + r)
  /\ Extended(e, v, n, e2)

\* The items are whole, and their bits are counted.
LEMMA AcrossPacked ==
  ASSUME ElemBits \in Nat \ {0}, NEW o, NEW last, NEW bo \in Nat, NEW e, NEW n \in Nat,
         NEW v \in Nat, NEW b \in Nat, NEW t \in Nat, NEW l \in Nat, NEW x, NEW f, NEW o2, NEW last2, NEW e2,
         Across(o, last, bo, e, n, v, b, t, l, x, f, o2, last2, e2)
  PROVE  Packed(o2, last2, l, e2)
  <1>1. /\ o \in Seq(Nat) /\ \A i \in 1..Len(o) : o[i] < Pow2[ElemBits]
        /\ bo \in Nat /\ e \in Seq(0..1) /\ Len(e) \in Nat /\ Len(o) \in Nat
    BY DEF Across, Packed
  <1>2. PICK K \in Nat : K = ElemBits /\ b \in Nat /\ b + bo = K
    BY DEF Across
  <1>3. PICK k \in Nat, y \in Nat, h \in Nat :
          k = t /\ y = Span(t) /\ h = l /\ 0 < h /\ h <= K /\ n = b + (y + h)
    BY <1>2, SpanAdds DEF Across
  <1>4. PICK L \in Nat, z \in Nat, le \in Nat :
          L = Len(o) /\ z = Span(L) /\ le = Len(e) /\ z + bo = le
    BY <1>1, SpanAdds DEF Across, Packed
  <1>0. z + bo = le /\ b + bo = K /\ n = b + (y + h) /\ h <= K
    BY <1>2, <1>3, <1>4, Zenon
  <1>5. /\ Len(o2) = (L + 1) + k /\ o2[L + 1] = x
        /\ \A i \in 1..L : o2[i] = o[i]
        /\ \A i \in 1..k : o2[(L + 1) + i] = f[i]
    BY <1>3, <1>4, Zenon DEF Across, Put
  <1>6. Span((L + 1) + k) = (z + K) + y
    <2>1. Span(L + 1) = Span(L) + ElemBits /\ L + 1 \in Nat
      BY SpanAdds
    <2>2. Span((L + 1) + k) = Span(L + 1) + Span(k)
      BY <2>1, SpanAdds
    <2> QED
      BY <1>2, <1>3, <1>4, <2>1, <2>2, Zenon
  <1>7. ((z + K) + y) + h = le + n
    BY <1>0
  <1>8. Span(Len(o2)) + l = Len(e2)
    <2>1. Len(e2) = Len(e) + n
      BY DEF Across, Extended
    <2> QED
      BY <1>3, <1>4, <1>5, <1>6, <1>7, <2>1
  <1>9. ASSUME NEW i \in 1..Len(o2) PROVE o2[i] < Pow2[ElemBits]
    <2>1. i \in Nat /\ 0 < i /\ i <= (L + 1) + k
      BY <1>5
    <2>2. CASE i <= L
      <3>1. i \in 1..L
        BY <2>1, <2>2
      <3> QED
        BY <1>1, <1>4, <1>5, <3>1, Zenon
    <2>3. CASE i = L + 1
      BY <1>5, <2>3 DEF Across
    <2>4. CASE i > L + 1
      <3>1. PICK g \in Nat : i = (L + 1) + (g + 1) /\ g < k /\ g + 1 \in 1..k
        <4>1. PICK g \in Int : g = (i - (L + 1)) - 1
          BY <2>1
        <4>2. g \in Nat /\ i = (L + 1) + (g + 1) /\ g < k /\ g + 1 \in 1..k
          BY <2>1, <2>4, <4>1
        <4> QED
          BY <4>2
      <3>2. o2[(L + 1) + (g + 1)] = f[g + 1]
        BY <1>5, <3>1, Zenon
      <3>3. f[g + 1] < Pow2[ElemBits]
        BY <1>3, <3>1, Zenon DEF Across
      <3> QED
        BY <3>1, <3>2, <3>3, Zenon
    <2> QED
      BY <2>1, <2>2, <2>3, <2>4
  <1>10. /\ o2 \in Seq(Nat) /\ l \in Nat /\ l <= ElemBits /\ last2 \in Nat /\ last2 < Pow2[l]
         /\ e2 \in Seq(0..1)
    BY Zenon DEF Across, Extended
  <1> QED
    BY <1>8, <1>9, <1>10, Zenon DEF Packed

\* What the items held before, they hold with the new ones.
StillAgree(o, last, e, o2, last2, e2) ==
  \A harmed : Agree(o, last, e, harmed) => Agree(o2, last2, e2, harmed)

\* The items hold the bits from before, and behind them those of the number.
LEMMA AcrossAgrees ==
  ASSUME ElemBits \in Nat \ {0}, NEW o, NEW last, NEW bo \in Nat, NEW e, NEW n \in Nat,
         NEW v \in Nat, NEW b \in Nat, NEW t \in Nat, NEW l \in Nat, NEW x, NEW f, NEW o2, NEW last2, NEW e2,
         Across(o, last, bo, e, n, v, b, t, l, x, f, o2, last2, e2)
  PROVE  StillAgree(o, last, e, o2, last2, e2)
  <1>1. bo \in Nat /\ Len(e) \in Nat /\ Len(o) \in Nat
    BY DEF Across, Packed
  <1>2. PICK K \in Nat : K = ElemBits /\ b \in Nat /\ b + bo = K
    BY DEF Across
  <1>3. PICK k \in Nat, y \in Nat, h \in Nat :
          k = t /\ y = Span(t) /\ h = l /\ 0 < h /\ h <= K /\ n = b + (y + h)
    BY <1>2, SpanAdds DEF Across
  <1>4. PICK L \in Nat, z \in Nat, le \in Nat :
          L = Len(o) /\ z = Span(L) /\ le = Len(e) /\ z + bo = le
    BY <1>1, SpanAdds DEF Across, Packed
  <1>0. z + bo = le /\ b + bo = K /\ n = b + (y + h) /\ h <= K
    BY <1>2, <1>3, <1>4, Zenon
  <1>5. /\ Len(o2) = (L + 1) + k /\ o2[L + 1] = x
        /\ \A i \in 1..L : o2[i] = o[i]
        /\ \A i \in 1..k : o2[(L + 1) + i] = f[i]
    BY <1>3, <1>4, Zenon DEF Across, Put
  <1>6. /\ Len(e2) = le + n
        /\ \A i \in 1..le : e2[i] = e[i]
        /\ \A i \in 1..n : e2[le + i] = B!Bit(v, i - 1)
    BY <1>4, Zenon DEF Across, Extended
  <1>7. \A q \in Nat : q < L => ItemAt(o2, last2, q) = ItemAt(o, last, q)
    <2>1. ASSUME NEW q \in Nat, q < L PROVE ItemAt(o2, last2, q) = ItemAt(o, last, q)
      <3>1. q + 1 \in 1..L /\ q < (L + 1) + k
        BY <2>1
      <3>2. o2[q + 1] = o[q + 1]
        BY <1>5, <3>1, Zenon
      <3> QED
        BY <1>4, <1>5, <2>1, <3>1, <3>2 DEF ItemAt
    <2> QED
      BY <2>1
  <1>8. ItemAt(o2, last2, L) = x /\ ItemAt(o, last, L) = last
    <2>1. L < (L + 1) + k /\ ~(L < L)
      OBVIOUS
    <2> QED
      BY <1>4, <1>5, <2>1, Zenon DEF ItemAt
  <1>9. \A g \in Nat : g < k => ItemAt(o2, last2, (L + 1) + g) = f[g + 1]
    <2>1. ASSUME NEW g \in Nat, g < k PROVE ItemAt(o2, last2, (L + 1) + g) = f[g + 1]
      <3>1. g + 1 \in 1..k /\ (L + 1) + g < (L + 1) + k /\ ((L + 1) + g) + 1 = (L + 1) + (g + 1)
        BY <2>1
      <3>2. o2[(L + 1) + (g + 1)] = f[g + 1]
        BY <1>5, <3>1, Zenon
      <3> QED
        BY <1>5, <3>1, <3>2, Zenon DEF ItemAt
    <2> QED
      BY <2>1
  <1>10. ItemAt(o2, last2, (L + 1) + k) = last2
    <2>1. ~((L + 1) + k < (L + 1) + k)
      OBVIOUS
    <2> QED
      BY <1>5, <2>1, Zenon DEF ItemAt
  <1>11. SUFFICES ASSUME NEW harmed, Agree(o, last, e, harmed),
                         NEW p \in 0..(Len(e2) - 1), p \notin harmed
                  PROVE  Stored(o2, last2, p) = e2[p + 1]
    BY Zenon DEF Agree, StillAgree
  <1>12. p \in Nat /\ p < le + n /\ p \in Int
    BY <1>6
  <1>13. CASE p < le
    <2>1. PICK q \in Nat, r \in Nat : r < ElemBits /\ p = Span(q) + r
      BY <1>12, ItemAndBit
    <2>2. /\ Stored(o, last, p) = B!Bit(ItemAt(o, last, q), r)
          /\ Stored(o2, last2, p) = B!Bit(ItemAt(o2, last2, q), r)
      BY <1>12, <2>1, StoredAt
    <2>3. Stored(o, last, p) = e[p + 1] /\ e2[p + 1] = e[p + 1]
      <3>1. p \in 0..(le - 1) /\ p + 1 \in 1..le
        BY <1>12, <1>13
      <3> QED
        BY <1>4, <1>6, <1>11, <3>1, Zenon DEF Agree
    <2>4. PICK w \in Nat : w = Span(q) /\ p = w + r
      BY <2>1, SpanAdds
    <2>5. CASE q < L
      BY <1>7, <2>2, <2>3, <2>5
    <2>6. CASE q = L
      <3>1. r < bo
        <4>1. p = z + r
          BY <1>4, <2>4, <2>6, Zenon
        <4> QED
          BY <1>0, <1>13, <4>1
      <3>2. B!Bit(x, r) = B!Bit(last, r)
        BY <3>1, Zenon DEF Across
      <3> QED
        BY <1>8, <2>2, <2>3, <2>6, <3>2
    <2>7. CASE q > L
      <3>1. z + K <= w
        BY <1>2, <1>4, <2>4, <2>7, LaterItem
      <3> QED
        BY <1>0, <1>13, <2>4, <3>1
    <2> QED
      BY <2>5, <2>6, <2>7
  <1>14. CASE ~(p < le)
    <2>1. PICK i \in Nat : p = le + i /\ i < n
      <3>1. p - le \in Nat /\ p = le + (p - le) /\ p - le < n
        BY <1>12, <1>14
      <3> QED
        BY <3>1
    <2>2. e2[p + 1] = B!Bit(v, i)
      <3>1. i + 1 \in 1..n /\ le + (i + 1) = p + 1 /\ (i + 1) - 1 = i
        BY <2>1
      <3> QED
        BY <1>6, <3>1, Zenon
    <2>3. CASE i < b
      <3>1. PICK w \in Nat : w = bo + i /\ w < K /\ p = z + w
        <4>1. bo + i \in Nat /\ bo + i < K /\ p = z + (bo + i)
          BY <1>0, <2>1, <2>3
        <4> QED
          BY <4>1
      <3>2. Stored(o2, last2, p) = B!Bit(ItemAt(o2, last2, L), w)
        BY <1>2, <1>4, <1>12, <3>1, StoredAt, SMTT(20)
      <3>3. B!Bit(x, bo + i) = B!Bit(v, i)
        BY <2>3, Zenon DEF Across
      <3> QED
        BY <1>8, <2>2, <3>1, <3>2, <3>3
    <2>4. CASE ~(i < b)
      <3>1. PICK d \in Nat : i = b + d
        <4>1. i - b \in Nat /\ i = b + (i - b)
          BY <1>2, <2>4
        <4> QED
          BY <4>1
      <3>2. PICK g \in Nat, r \in Nat : r < ElemBits /\ d = Span(g) + r
        BY ItemAndBit
      <3>3. PICK w \in Nat : w = Span(g) /\ d = w + r
        BY <3>2, SpanAdds
      <3>4. PICK q \in Nat : q = (L + 1) + g /\ Span(q) = (z + K) + w
        <4>1. Span(L + 1) = Span(L) + ElemBits /\ L + 1 \in Nat /\ (L + 1) + g \in Nat
          BY SpanAdds
        <4>2. Span((L + 1) + g) = Span(L + 1) + Span(g)
          BY <4>1, SpanAdds
        <4> QED
          BY <1>2, <1>4, <3>3, <4>1, <4>2, Zenon
      <3>5. p = Span(q) + r
        <4>1. p = ((z + K) + w) + r
          <5>1. p = le + i /\ i = b + d /\ d = w + r
            BY <2>1, <3>1, <3>3, Zenon
          <5> QED
            BY <1>0, <5>1
        <4> QED
          BY <3>4, <4>1, Zenon
      <3>6. Stored(o2, last2, p) = B!Bit(ItemAt(o2, last2, q), r)
        BY <1>12, <3>2, <3>5, StoredAt
      <3>7. CASE g < k
        <4>1. B!Bit(f[g + 1], r) = B!Bit(v, (b + Span(g)) + r)
          BY <1>3, <3>2, <3>7, Zenon DEF Across
        <4>2. (b + w) + r = i
          BY <1>2, <3>1, <3>3, SMTT(20)
        <4> QED
          BY <1>9, <2>2, <3>3, <3>4, <3>6, <3>7, <4>1, <4>2
      <3>8. CASE g = k
        <4>1. B!Bit(last2, r) = B!Bit(v, (b + y) + r)
          BY <1>3, <3>2, Zenon DEF Across
        <4>2. (b + y) + r = i
          BY <1>2, <1>3, <3>1, <3>3, <3>8, SMTT(20)
        <4> QED
          BY <1>10, <2>2, <3>4, <3>6, <3>8, <4>1, <4>2
      <3>9. CASE g > k
        <4>1. y + K <= w
          BY <1>2, <1>3, <3>3, <3>9, LaterItem
        <4> QED
          <5>1. i < n /\ i = b + d /\ d = w + r
            BY <2>1, <3>1, <3>3, Zenon
          <5> QED
            BY <1>0, <4>1, <5>1
      <3> QED
        BY <3>7, <3>8, <3>9
    <2> QED
      BY <2>3, <2>4
  <1> QED
    BY <1>13, <1>14

\* write_uint() of a number that does not fit the current item.
WritesAcross(o, last, bo, e, n, v, b, f, o2, last2, e2) ==
  /\ b = ElemBits - bo /\ n > b
  /\ f = [i \in 1..B!Turns(n - b) |-> B!Item(v \div B!Pow2[b + ((i - 1) * ElemBits)])]
  /\ o2 = Append(o, B!Item(last + (v * Pow2[bo]))) \o f
  /\ last2 = v \div Pow2[b + (B!Turns(n - b) * ElemBits)]
  /\ e2 = e \o BitsOf(v, n)

\* It keeps what was written, and adds the number.
LEMMA PutAcross ==
  ASSUME ElemBits \in Nat \ {0}, NEW o, NEW last \in Nat, NEW bo \in Nat, NEW e, NEW harmed,
         Holds(o, last, bo, e, harmed),
         NEW n \in Nat, NEW b \in Int, NEW v \in Nat, v < Pow2[n], NEW f, NEW o2, NEW last2,
         NEW e2, WritesAcross(o, last, bo, e, n, v, b, f, o2, last2, e2)
  PROVE  Holds(o2, last2, (n - b) - (B!Turns(n - b) * ElemBits), e2, harmed)
  <1>0. Packed(o, last, bo, e) /\ Agree(o, last, e, harmed)
    BY DEF Holds
  <1>1. o \in Seq(Nat) /\ bo <= ElemBits /\ last < Pow2[bo] /\ e \in Seq(0..1)
    BY <1>0 DEF Packed
  <1>2. b \in Nat /\ b + bo = ElemBits /\ n > b
    <2>1. b = ElemBits - bo /\ n > b
      BY Zenon DEF WritesAcross
    <2> QED
      BY <1>1, <2>1
  <1>3. PICK m \in Nat \ {0} : m = n - b /\ n = b + m
    BY <1>2
  <1>4. PICK t \in Nat, y \in Nat, l \in Nat :
          t = B!Turns(n - b) /\ y = t * ElemBits /\ m = y + l /\ 0 < l /\ l <= ElemBits
    BY <1>3, TurnsLeft
  <1>5. (n - b) - (B!Turns(n - b) * ElemBits) = l
    <2>1. m - y = l
      BY <1>4
    <2> QED
      BY <1>3, <1>4, <2>1, Zenon
  <1>6. PICK c \in Nat : c = last + (v * Pow2[bo])
    <2>1. last + (v * Pow2[bo]) \in Nat
      BY ShiftNat, Zenon
    <2> QED
      BY <2>1, Zenon
  <1>7. PICK x \in Nat : x = B!Item(c) /\ x = c % Pow2[ElemBits] /\ x < Pow2[ElemBits]
    <2>1. c % Pow2[ElemBits] \in Nat /\ c % Pow2[ElemBits] < Pow2[ElemBits]
      BY TakenApart
    <2>2. B!Item(c) = c % Pow2[ElemBits]
      BY SamePow2 DEF B!Item
    <2> QED
      BY <2>1, <2>2
  <1>8. \A i \in Nat : i < bo => B!Bit(x, i) = B!Bit(last, i)
    <2>1. ASSUME NEW i \in Nat, i < bo PROVE B!Bit(x, i) = B!Bit(last, i)
      <3>1. i < ElemBits
        BY <1>1, <2>1
      <3>2. B!Bit(c, i) = B!Bit(last, i)
        BY <1>6, <2>1, BitBelow
      <3>3. B!Bit(c % Pow2[ElemBits], i) = B!Bit(c, i)
        BY <3>1, BitMod
      <3> QED
        BY <1>7, <3>2, <3>3
    <2> QED
      BY <2>1
  <1>9. \A i \in Nat : i < b => B!Bit(x, bo + i) = B!Bit(v, i)
    <2>1. ASSUME NEW i \in Nat, i < b PROVE B!Bit(x, bo + i) = B!Bit(v, i)
      <3>1. bo + i < ElemBits /\ bo + i \in Nat
        BY <1>2, <2>1
      <3>2. B!Bit(c, bo + i) = B!Bit(v, i)
        BY <1>1, <1>6, BitAbove
      <3>3. B!Bit(c % Pow2[ElemBits], bo + i) = B!Bit(c, bo + i)
        BY <3>1, BitMod
      <3> QED
        BY <1>7, <3>2, <3>3
    <2> QED
      BY <2>1
  <1>10. ASSUME NEW g \in Nat, g < t
         PROVE  /\ f[g + 1] \in Nat /\ f[g + 1] < Pow2[ElemBits]
                /\ \A r \in Nat : r < ElemBits =>
                     B!Bit(f[g + 1], r) = B!Bit(v, (b + Span(g)) + r)
    <2>1. PICK k \in Nat : k = b + Span(g) /\ Span(g) = g * ElemBits
      <3>1. Span(g) \in Nat
        BY SpanAdds
      <3>2. b + Span(g) \in Nat
        BY <1>2, <3>1
      <3> QED
        BY <3>2 DEF Span
    <2>2. f[g + 1] = B!Item(v \div B!Pow2[b + (((g + 1) - 1) * ElemBits)])
      <3>1. g + 1 \in 1..t
        BY <1>10
      <3> QED
        BY <1>4, <3>1, Zenon DEF WritesAcross
    <2>3. f[g + 1] = B!Item(v \div Pow2[k])
      <3>1. (g + 1) - 1 = g
        OBVIOUS
      <3> QED
        BY <2>1, <2>2, <3>1, SamePow2, Zenon
    <2>4. /\ B!Item(v \div Pow2[k]) \in Nat /\ B!Item(v \div Pow2[k]) < Pow2[ElemBits]
          /\ \A r \in Nat : r < ElemBits => B!Bit(B!Item(v \div Pow2[k]), r) = B!Bit(v, k + r)
      BY WholeItem, ZenonT(40)
    <2> QED
      BY <2>1, <2>3, <2>4, Zenon
  <1>11. o2 \in Seq(Nat) /\ Put(o, x, t, f, o2)
    <2>1. f = [i \in 1..t |-> f[i]]
      BY <1>4, Zenon DEF WritesAcross
    <2>2. o2 = Append(o, x) \o f
      BY <1>6, <1>7, Zenon DEF WritesAcross
    <2>3. \A i \in 1..t : f[i] \in Nat
      <3>1. ASSUME NEW i \in 1..t PROVE f[i] \in Nat
        <4>1. PICK g \in Nat : g + 1 = i /\ g < t
          <5>1. i - 1 \in Nat /\ (i - 1) + 1 = i /\ i - 1 < t
            BY <3>1
          <5> QED
            BY <5>1
        <4> QED
          BY <1>10, <4>1
      <3> QED
        BY <3>1
    <2> QED
      BY <1>1, <2>1, <2>2, <2>3, ItemsPut, Zenon
  <1>12. PICK k \in Nat : k = b + y /\ k + l = n
    <2>1. n = b + m /\ m = y + l /\ b \in Nat
      BY <1>2, <1>3, <1>4, Zenon
    <2>2. b + y \in Nat /\ (b + y) + l = n
      BY <2>1
    <2> QED
      BY <2>2, Zenon
  <1>13. last2 = v \div Pow2[k]
    BY <1>4, <1>12, Zenon DEF WritesAcross
  <1>14. last2 \in Nat /\ last2 < Pow2[l]
    <2>1. v < Pow2[k + l]
      BY <1>12
    <2>2. v \div Pow2[k] \in Nat /\ v \div Pow2[k] < Pow2[l]
      BY <2>1, TakenApart, DivBound
    <2> QED
      BY <1>13, <2>2, Zenon
  <1>15. Span(t) = y
    BY <1>4 DEF Span
  <1>16. \A r \in Nat : B!Bit(last2, r) = B!Bit(v, (b + Span(t)) + r)
    <2>1. \A r \in Nat : B!Bit(v \div Pow2[k], r) = B!Bit(v, k + r)
      BY BitDiv
    <2> QED
      BY <1>12, <1>13, <1>15, <2>1, Zenon
  <1>17. Extended(e, v, n, e2)
    BY <1>1, BitsAppended, Zenon DEF WritesAcross
  <1>18. n = b + (Span(t) + l)
    BY <1>3, <1>4, <1>15, Zenon
  <1>19. Across(o, last, bo, e, n, v, b, t, l, x, f, o2, last2, e2)
    BY <1>0, <1>2, <1>4, <1>7, <1>8, <1>9, <1>10, <1>11, <1>14, <1>16, <1>17, <1>18,
       Zenon DEF Across
  <1>20. Packed(o2, last2, l, e2)
    BY <1>2, <1>19, AcrossPacked, Zenon
  <1>21. Agree(o2, last2, e2, harmed)
    <2>1. StillAgree(o, last, e, o2, last2, e2)
      BY <1>2, <1>19, AcrossAgrees, Zenon
    <2> QED
      BY <1>0, <2>1, Zenon DEF StillAgree
  <1> QED
    BY <1>5, <1>20, <1>21, Zenon DEF Holds

\* Bit r of an item, at position p, when a number of n bits at pos was patched into x
\* and y came of it: the number's, or as before, but for the s bits below it.
PatchedBit(y, x, p, r, pos, s, n, v) ==
  /\ (pos <= p /\ p < pos + n) => B!Bit(y, r) = B!Bit(v, p - pos)
  /\ (p < pos - s \/ pos + n <= p) => B!Bit(y, r) = B!Bit(x, r)

\* An item that begins at position u, and the items.
PatchedItem(y, x, u, pos, s, n, v) ==
  /\ y \in Nat /\ y < Pow2[ElemBits]
  /\ \A r \in Nat : r < ElemBits => PatchedBit(y, x, u + r, r, pos, s, n, v)
PatchedTo(o, o2, pos, s, n, v) ==
  /\ o2 \in Seq(Nat) /\ Len(o2) = Len(o)
  /\ \A q \in Nat : q < Len(o) => PatchedItem(o2[q + 1], o[q + 1], Span(q), pos, s, n, v)

\* The expected bits of a patch, and where it does damage.
Overwritten(e, pos, n, v) ==
  [i \in DOMAIN e |-> IF i - 1 \in pos..pos + n - 1 THEN B!Bit(v, (i - 1) - pos) ELSE e[i]]
Harmed(harmed, pos, s, n) == (harmed \ (pos..pos + n - 1)) \cup ((pos - s)..(pos - 1))

\* The expected bits, one by one.
LEMMA OverwrittenAt ==
  ASSUME NEW e \in Seq(0..1), NEW pos \in Nat, NEW n \in Nat, NEW v \in Nat, NEW e2,
         e2 = Overwritten(e, pos, n, v)
  PROVE  /\ e2 \in Seq(0..1) /\ Len(e2) = Len(e)
         /\ \A p \in Nat : p < Len(e) =>
              /\ (pos <= p /\ p < pos + n) => e2[p + 1] = B!Bit(v, p - pos)
              /\ ~(pos <= p /\ p < pos + n) => e2[p + 1] = e[p + 1]
  <1>1. DOMAIN e = 1..Len(e) /\ Len(e) \in Nat
    OBVIOUS
  <1>2. \A i \in 1..Len(e) : e2[i] = IF i - 1 \in pos..pos + n - 1
                                     THEN B!Bit(v, (i - 1) - pos) ELSE e[i]
    BY <1>1 DEF Overwritten
  <1>3. \A i \in 1..Len(e) : e2[i] \in 0..1
    <2>1. ASSUME NEW i \in 1..Len(e) PROVE e2[i] \in 0..1
      <3>1. CASE i - 1 \in pos..pos + n - 1
        <4>1. (i - 1) - pos \in Nat
          BY <3>1
        <4> QED
          BY <1>2, <3>1, <4>1, BitHas
      <3>2. CASE ~(i - 1 \in pos..pos + n - 1)
        BY <1>2, <3>2
      <3> QED
        BY <3>1, <3>2
    <2> QED
      BY <2>1
  <1>4. e2 \in [1..Len(e) -> 0..1]
    <2>1. e2 = [i \in 1..Len(e) |-> e2[i]]
      BY <1>1, Zenon DEF Overwritten
    <2> QED
      BY <1>3, <2>1, Zenon
  <1>5. e2 \in Seq(0..1) /\ Len(e2) = Len(e)
    BY <1>1, <1>4
  <1>6. ASSUME NEW p \in Nat, p < Len(e)
        PROVE  /\ (pos <= p /\ p < pos + n) => e2[p + 1] = B!Bit(v, p - pos)
               /\ ~(pos <= p /\ p < pos + n) => e2[p + 1] = e[p + 1]
    <2>1. p + 1 \in 1..Len(e) /\ (p + 1) - 1 = p
      BY <1>1, <1>6
    <2>2. p \in pos..pos + n - 1 <=> (pos <= p /\ p < pos + n)
      OBVIOUS
    <2>3. e2[p + 1] = IF (p + 1) - 1 \in pos..pos + n - 1
                      THEN B!Bit(v, ((p + 1) - 1) - pos) ELSE e[p + 1]
      BY <1>2, <2>1, Zenon
    <2> QED
      BY <2>1, <2>2, <2>3, Zenon
  <1> QED
    BY <1>5, <1>6

\* A patch gives its bits their values, and harms no others but those below it.
LEMMA PatchAgrees ==
  ASSUME ElemBits \in Nat \ {0}, NEW o, NEW last, NEW bo \in Nat, NEW e, NEW harmed,
         Packed(o, last, bo, e), Agree(o, last, e, harmed),
         NEW pos \in Nat, NEW s \in Nat, NEW n \in Nat, NEW v \in Nat, NEW o2,
         PatchedTo(o, o2, pos, s, n, v), pos + n <= Span(Len(o))
  PROVE  /\ Packed(o2, last, bo, Overwritten(e, pos, n, v))
         /\ Agree(o2, last, Overwritten(e, pos, n, v), Harmed(harmed, pos, s, n))
  <1>1. PICK e2 : e2 = Overwritten(e, pos, n, v)
    OBVIOUS
  <1>2. o \in Seq(Nat) /\ e \in Seq(0..1)
    BY DEF Packed
  <1>3. /\ e2 \in Seq(0..1) /\ Len(e2) = Len(e)
        /\ \A p \in Nat : p < Len(e) =>
             /\ (pos <= p /\ p < pos + n) => e2[p + 1] = B!Bit(v, p - pos)
             /\ ~(pos <= p /\ p < pos + n) => e2[p + 1] = e[p + 1]
    BY <1>1, <1>2, OverwrittenAt, SMTT(20)
  <1>4. PICK L \in Nat, z \in Nat, le \in Nat :
          L = Len(o) /\ z = Span(L) /\ le = Len(e) /\ z + bo = le /\ pos + n <= z
    <2>1. Len(o) \in Nat /\ Len(e) \in Nat
      BY <1>2
    <2>2. Span(Len(o)) \in Nat
      BY <2>1, SpanAdds
    <2>3. Span(Len(o)) + bo = Len(e)
      BY DEF Packed
    <2> QED
      BY <2>1, <2>2, <2>3, Zenon
  <1>5. o2 \in Seq(Nat) /\ Len(o2) = L /\ \A q \in Nat : q < L => o2[q + 1] < Pow2[ElemBits]
    BY <1>4, Zenon DEF PatchedTo, PatchedItem
  <1>6. Packed(o2, last, bo, e2)
    <2>1. ASSUME NEW i \in 1..Len(o2) PROVE o2[i] < Pow2[ElemBits]
      <3>1. PICK q \in Nat : q + 1 = i /\ q < L
        <4>1. i - 1 \in Nat /\ (i - 1) + 1 = i /\ i - 1 < L
          BY <1>5
        <4> QED
          BY <4>1
      <3> QED
        BY <1>5, <3>1
    <2> QED
      BY <1>3, <1>4, <1>5, <2>1 DEF Packed
  <1>7. ASSUME NEW p \in 0..(Len(e2) - 1), p \notin Harmed(harmed, pos, s, n)
        PROVE  Stored(o2, last, p) = e2[p + 1]
    <2>1. p \in Nat /\ p < le /\ p \in Int /\ p \in 0..(le - 1)
      BY <1>3, <1>4
    <2>2. PICK q \in Nat, r \in Nat : r < ElemBits /\ p = Span(q) + r
      BY <2>1, ItemAndBit
    <2>3. /\ Stored(o, last, p) = B!Bit(ItemAt(o, last, q), r)
          /\ Stored(o2, last, p) = B!Bit(ItemAt(o2, last, q), r)
      BY <2>1, <2>2, StoredAt
    <2>4. CASE pos <= p /\ p < pos + n
      <3>1. e2[p + 1] = B!Bit(v, p - pos)
        BY <1>3, <1>4, <2>1, <2>4, Zenon
      <3>2. q < L
        <4>1. SUFFICES ASSUME ~(q < L) PROVE FALSE
          OBVIOUS
        <4>2. PICK y \in Nat : y = Span(q) /\ z <= y
          <5>1. PICK y \in Nat : y = Span(q)
            BY SpanAdds
          <5>2. CASE q = L
            BY <1>4, <5>1, <5>2
          <5>3. CASE L < q
            <6>1. z + ElemBits <= y
              BY <1>4, <5>1, <5>3, LaterItem
            <6> QED
              BY <5>1, <6>1
          <5> QED
            BY <4>1, <5>2, <5>3
        <4>3. p = y + r /\ p < pos + n /\ pos + n <= z /\ z <= y
          BY <1>4, <2>2, <2>4, <4>2, Zenon
        <4> QED
          BY <4>3
      <3>3. B!Bit(o2[q + 1], r) = B!Bit(v, p - pos)
        <4>1. PatchedBit(o2[q + 1], o[q + 1], p, r, pos, s, n, v)
          BY <1>4, <2>2, <3>2, Zenon DEF PatchedTo, PatchedItem
        <4> QED
          BY <2>4, <4>1, Zenon DEF PatchedBit
      <3>4. ItemAt(o2, last, q) = o2[q + 1]
        BY <1>5, <3>2, Zenon DEF ItemAt
      <3> QED
        BY <2>3, <3>1, <3>3, <3>4, Zenon
    <2>5. CASE ~(pos <= p /\ p < pos + n)
      <3>1. e2[p + 1] = e[p + 1]
        BY <1>3, <1>4, <2>1, <2>5, Zenon
      <3>2. p \notin harmed /\ (p < pos - s \/ pos + n <= p)
        <4>1. p \notin pos..pos + n - 1
          BY <2>5
        <4>2. p \notin harmed /\ p \notin (pos - s)..(pos - 1)
          BY <1>7, <4>1, Zenon DEF Harmed
        <4> QED
          BY <2>1, <2>5, <4>2
      <3>3. Stored(o, last, p) = e[p + 1]
        BY <1>4, <2>1, <3>2, Zenon DEF Agree
      <3>4. CASE q < L
        <4>1. B!Bit(o2[q + 1], r) = B!Bit(o[q + 1], r)
          <5>1. PatchedBit(o2[q + 1], o[q + 1], p, r, pos, s, n, v)
            BY <1>4, <2>2, <3>4, Zenon DEF PatchedTo, PatchedItem
          <5> QED
            BY <3>2, <5>1, Zenon DEF PatchedBit
        <4>2. ItemAt(o2, last, q) = o2[q + 1] /\ ItemAt(o, last, q) = o[q + 1]
          BY <1>4, <1>5, <3>4, Zenon DEF ItemAt
        <4> QED
          BY <2>3, <3>1, <3>3, <4>1, <4>2, Zenon
      <3>5. CASE ~(q < L)
        <4>1. ItemAt(o2, last, q) = ItemAt(o, last, q)
          BY <1>4, <1>5, <3>5, Zenon DEF ItemAt
        <4> QED
          BY <2>3, <3>1, <3>3, <4>1, Zenon
      <3> QED
        BY <3>4, <3>5
    <2> QED
      BY <2>4, <2>5
  <1>8. Agree(o2, last, e2, Harmed(harmed, pos, s, n))
    BY <1>7, Zenon DEF Agree
  <1> QED
    BY <1>1, <1>6, <1>8, Zenon

\* The lower k bits of an item replaced.
Overlaid(x, k, w, y) ==
  /\ y \in Nat /\ y < Pow2[ElemBits]
  /\ \A r \in Nat : r < k => B!Bit(y, r) = B!Bit(w, r)
  /\ \A r \in Nat : k <= r => B!Bit(y, r) = B!Bit(x, r)

\* A patch replaces them so.
LEMMA Overlay ==
  ASSUME ElemBits \in Nat \ {0}, NEW x \in Nat, x < Pow2[ElemBits],
         NEW k \in Nat, k <= ElemBits, NEW w \in Nat, w < Pow2[k],
         NEW y, y = ((x \div Pow2[k]) * Pow2[k]) + w
  PROVE  Overlaid(x, k, w, y)
  <1>1. PICK m \in Nat : m = x \div Pow2[k]
    BY TakenApart
  <1>2. PICK j \in Nat : k + j = ElemBits
    <2>1. ElemBits - k \in Nat /\ k + (ElemBits - k) = ElemBits
      OBVIOUS
    <2> QED
      BY <2>1, Zenon
  <1>3. m < Pow2[j]
    BY <1>1, <1>2, DivBound
  <1>4. w + (m * Pow2[k]) < Pow2[ElemBits] /\ w + (m * Pow2[k]) \in Nat
    BY <1>2, <1>3, ShiftBound
  <1>5. y = w + (m * Pow2[k])
    <2>1. PICK p \in Nat : p = Pow2[k]
      BY Pow2Pos
    <2>2. (m * p) + w = w + (m * p)
      OBVIOUS
    <2> QED
      BY <1>1, <2>1, <2>2, Zenon
  <1>6. ASSUME NEW r \in Nat, r < k PROVE B!Bit(y, r) = B!Bit(w, r)
    BY <1>5, <1>6, BitBelow
  <1>7. ASSUME NEW r \in Nat, k <= r PROVE B!Bit(y, r) = B!Bit(x, r)
    <2>1. PICK i \in Nat : r = k + i
      <3>1. r - k \in Nat /\ r = k + (r - k)
        BY <1>7
      <3> QED
        BY <3>1, Zenon
    <2>2. B!Bit(w + (m * Pow2[k]), k + i) = B!Bit(m, i)
      BY BitAbove
    <2>3. B!Bit(x \div Pow2[k], i) = B!Bit(x, k + i)
      BY BitDiv
    <2> QED
      BY <1>1, <1>5, <2>1, <2>2, <2>3, Zenon
  <1> QED
    BY <1>4, <1>5, <1>6, <1>7, Zenon DEF Overlaid

\* A shifted number.
LEMMA BitShift ==
  ASSUME NEW v \in Nat, NEW s \in Nat
  PROVE  v * Pow2[s] \in Nat /\ \A i \in Nat : B!Bit(v * Pow2[s], s + i) = B!Bit(v, i)
  <1>1. PICK w \in Nat : w = v * Pow2[s]
    BY Pow2Pos
  <1>2. ASSUME NEW i \in Nat PROVE B!Bit(w, s + i) = B!Bit(v, i)
    <2>1. 0 < Pow2[s] /\ 0 \in Nat
      BY Pow2Pos
    <2>2. B!Bit(0 + (v * Pow2[s]), s + i) = B!Bit(v, i)
      BY <2>1, BitAbove
    <2>3. 0 + w = w
      OBVIOUS
    <2> QED
      BY <1>1, <2>2, <2>3, Zenon
  <1> QED
    BY <1>1, <1>2, Zenon

\* An item that the number does not reach.
LEMMA UntouchedItem ==
  ASSUME ElemBits \in Nat \ {0}, NEW x \in Nat, x < Pow2[ElemBits], NEW u \in Nat,
         NEW pos \in Nat, NEW s \in Nat, NEW n \in Nat, NEW v,
         u + ElemBits <= pos \/ pos + n <= u
  PROVE  PatchedItem(x, x, u, pos, s, n, v)
  <1>1. ASSUME NEW r \in Nat, r < ElemBits PROVE PatchedBit(x, x, u + r, r, pos, s, n, v)
    <2>1. ~(pos <= u + r /\ u + r < pos + n)
      BY <1>1
    <2> QED
      BY <2>1, Zenon DEF PatchedBit
  <1> QED
    BY <1>1, Zenon DEF PatchedItem

\* The item in which a number begins at bit s and ends.
LEMMA InsideItem ==
  ASSUME ElemBits \in Nat \ {0}, NEW x \in Nat, x < Pow2[ElemBits], NEW u \in Nat,
         NEW s \in Nat, NEW n \in Nat, s + n <= ElemBits, NEW v \in Nat, v < Pow2[n],
         NEW y, y = ((x \div Pow2[n + s]) * Pow2[n + s]) + (v * Pow2[s])
  PROVE  PatchedItem(y, x, u, u + s, s, n, v)
  <1>1. PICK w \in Nat : w = v * Pow2[s] /\ \A i \in Nat : B!Bit(w, s + i) = B!Bit(v, i)
    BY BitShift, ZenonT(40)
  <1>2. PICK k \in Nat : k = n + s /\ k <= ElemBits /\ w < Pow2[k]
    <2>1. 0 < Pow2[s] /\ 0 \in Nat
      BY Pow2Pos
    <2>2. 0 + (v * Pow2[s]) < Pow2[s + n]
      BY <2>1, ShiftBound
    <2>3. 0 + w = w /\ s + n = n + s /\ n + s \in Nat /\ n + s <= ElemBits
      OBVIOUS
    <2> QED
      BY <1>1, <2>2, <2>3, Zenon
  <1>3. Overlaid(x, k, w, y)
    BY <1>1, <1>2, Overlay, Zenon
  <1>4. ASSUME NEW r \in Nat, r < ElemBits PROVE PatchedBit(y, x, u + r, r, u + s, s, n, v)
    <2>1. PICK p \in Nat, pos \in Nat : p = u + r /\ pos = u + s
      OBVIOUS
    <2>2. ASSUME pos <= p, p < pos + n PROVE B!Bit(y, r) = B!Bit(v, p - pos)
      <3>1. PICK i \in Nat : i = p - pos /\ r = s + i /\ r < k
        BY <1>2, <2>1, <2>2
      <3>2. B!Bit(y, r) = B!Bit(w, r) /\ B!Bit(w, s + i) = B!Bit(v, i)
        BY <1>1, <1>3, <3>1, Zenon DEF Overlaid
      <3> QED
        BY <3>1, <3>2, Zenon
    <2>3. ASSUME p < pos - s \/ pos + n <= p PROVE B!Bit(y, r) = B!Bit(x, r)
      <3>1. k <= r
        BY <1>2, <2>1, <2>3
      <3> QED
        BY <1>3, <3>1, Zenon DEF Overlaid
    <2> QED
      BY <2>1, <2>2, <2>3, Zenon DEF PatchedBit
  <1> QED
    BY <1>3, <1>4, Zenon DEF PatchedItem, Overlaid

\* The item in which a longer number begins; the bits below it are those of any item.
LEMMA FirstItem ==
  ASSUME ElemBits \in Nat \ {0}, NEW x, NEW low \in Nat, NEW u \in Nat,
         NEW s \in Nat, s < ElemBits, NEW n \in Nat, s + n >= ElemBits, NEW v \in Nat,
         NEW y, y = (low % Pow2[s]) + B!Item(v * Pow2[s])
  PROVE  PatchedItem(y, x, u, u + s, s, n, v)
  <1>1. PICK b \in Nat : s + b = ElemBits /\ b <= n
    <2>1. ElemBits - s \in Nat /\ s + (ElemBits - s) = ElemBits /\ ElemBits - s <= n
      OBVIOUS
    <2> QED
      BY <2>1, Zenon
  <1>2. PICK a \in Nat : a = low % Pow2[s] /\ a < Pow2[s]
    BY TakenApart
  <1>3. PICK m \in Nat : m = v % Pow2[b] /\ m < Pow2[b]
    BY TakenApart
  <1>4. B!Item(v * Pow2[s]) = m * Pow2[s]
    <2>1. PICK e \in Nat \ {0}, f \in Nat \ {0} :
            e = Pow2[s] /\ f = Pow2[b] /\ Pow2[ElemBits] = e * f
      <3>1. Pow2[s + b] = Pow2[s] * Pow2[b]
        BY Pow2Add
      <3>2. Pow2[s] \in Nat \ {0} /\ Pow2[b] \in Nat \ {0}
        BY Pow2Pos
      <3> QED
        BY <1>1, <3>1, <3>2, Zenon
    <2>2. PICK h \in Nat : v = m + (h * f)
      <3>1. v \div Pow2[b] \in Nat /\ v = (v % Pow2[b]) + ((v \div Pow2[b]) * Pow2[b])
        BY TakenApart
      <3> QED
        BY <1>3, <2>1, <3>1, Zenon
    <2>3. PICK g \in Nat \ {0} : g = e * f
      BY e * f \in Nat /\ e * f # 0
    <2>4. PICK c \in Nat : c = m * e
      OBVIOUS
    <2>5. v * e = (g * h) + c
      <3>1. v * e = (m * e) + ((h * f) * e)
        BY <2>2
      <3>2. (h * f) * e = (e * f) * h
        OBVIOUS
      <3>3. PICK i \in Int : i = (e * f) * h
        OBVIOUS
      <3> QED
        BY <2>3, <2>4, <3>1, <3>2, <3>3
    <2>6. c < g
      <3>1. m < f
        BY <1>3, <2>1
      <3>2. (f - m) * e >= e
        BY <3>1
      <3>3. (f - m) * e = (e * f) - (m * e)
        OBVIOUS
      <3> QED
        BY <2>3, <2>4, <3>2, <3>3
    <2>7. PICK d \in Int : d = v * e
      OBVIOUS
    <2>8. d % g = c
      <3>1. c \in 0..(g - 1) /\ h \in Int /\ d = (g * h) + c
        BY <2>5, <2>6, <2>7
      <3> QED
        BY <3>1, Remainder
    <2> QED
      BY <2>1, <2>3, <2>4, <2>7, <2>8, SamePow2 DEF B!Item
  <1>5. y = a + (m * Pow2[s]) /\ y \in Nat /\ y < Pow2[ElemBits]
    <2>1. a + (m * Pow2[s]) \in Nat /\ a + (m * Pow2[s]) < Pow2[s + b]
      BY <1>2, <1>3, ShiftBound
    <2> QED
      BY <1>1, <1>2, <1>4, <2>1, Zenon
  <1>6. ASSUME NEW r \in Nat, r < ElemBits PROVE PatchedBit(y, x, u + r, r, u + s, s, n, v)
    <2>1. PICK p \in Nat, pos \in Nat : p = u + r /\ pos = u + s
      OBVIOUS
    <2>2. ASSUME pos <= p, p < pos + n PROVE B!Bit(y, r) = B!Bit(v, p - pos)
      <3>1. PICK i \in Nat : i = p - pos /\ r = s + i /\ i < b
        <4>1. p - pos \in Nat /\ r = s + (p - pos) /\ p - pos < b
          BY <1>1, <1>6, <2>1, <2>2
        <4> QED
          BY <4>1, Zenon
      <3>2. B!Bit(a + (m * Pow2[s]), s + i) = B!Bit(m, i)
        BY <1>2, BitAbove
      <3>3. B!Bit(v % Pow2[b], i) = B!Bit(v, i)
        BY <3>1, BitMod
      <3> QED
        BY <1>3, <1>5, <3>1, <3>2, <3>3, Zenon
    <2>3. ~(p < pos - s \/ pos + n <= p)
      BY <1>6, <2>1
    <2> QED
      BY <2>1, <2>2, <2>3, Zenon DEF PatchedBit
  <1> QED
    BY <1>5, <1>6, Zenon DEF PatchedItem

\* An item in the middle of the number.
LEMMA MiddleItem ==
  ASSUME ElemBits \in Nat \ {0}, NEW x, NEW pos \in Nat, NEW s \in Nat, NEW n \in Nat,
         NEW k \in Nat, k + ElemBits <= n, NEW u \in Nat, u = pos + k, NEW v \in Nat,
         NEW y, y = B!Item(v \div Pow2[k])
  PROVE  PatchedItem(y, x, u, pos, s, n, v)
  <1>1. /\ y \in Nat /\ y < Pow2[ElemBits]
        /\ \A r \in Nat : r < ElemBits => B!Bit(y, r) = B!Bit(v, k + r)
    BY WholeItem
  <1>2. ASSUME NEW r \in Nat, r < ElemBits PROVE PatchedBit(y, x, u + r, r, pos, s, n, v)
    <2>1. (u + r) - pos = k + r /\ ~(u + r < pos - s \/ pos + n <= u + r)
      BY <1>2
    <2>2. B!Bit(y, r) = B!Bit(v, k + r)
      BY <1>1, <1>2, Zenon
    <2> QED
      BY <2>1, <2>2, Zenon DEF PatchedBit
  <1> QED
    BY <1>1, <1>2, Zenon DEF PatchedItem

\* The item in which it ends.
LEMMA LastItem ==
  ASSUME ElemBits \in Nat \ {0}, NEW x \in Nat, x < Pow2[ElemBits], NEW pos \in Nat,
         NEW s \in Nat, NEW n \in Nat, NEW k \in Nat, NEW l \in Nat, k + l = n, l <= ElemBits,
         NEW u \in Nat, u = pos + k, NEW v \in Nat, v < Pow2[n],
         NEW y, y = ((x \div Pow2[l]) * Pow2[l]) + (v \div Pow2[k])
  PROVE  PatchedItem(y, x, u, pos, s, n, v)
  <1>1. PICK w \in Nat : w = v \div Pow2[k] /\ w < Pow2[l]
    <2>1. v < Pow2[k + l]
      OBVIOUS
    <2> QED
      BY <2>1, TakenApart, DivBound, ZenonT(40)
  <1>2. Overlaid(x, l, w, y)
    BY <1>1, Overlay, Zenon
  <1>3. ASSUME NEW r \in Nat, r < ElemBits PROVE PatchedBit(y, x, u + r, r, pos, s, n, v)
    <2>1. /\ (u + r) - pos = k + r /\ ~(u + r < pos - s)
          /\ (u + r < pos + n => r < l) /\ (pos + n <= u + r => l <= r)
      BY <1>3
    <2>2. B!Bit(w, r) = B!Bit(v, k + r)
      BY <1>1, BitDiv
    <2>3. (r < l => B!Bit(y, r) = B!Bit(w, r)) /\ (l <= r => B!Bit(y, r) = B!Bit(x, r))
      BY <1>2, Zenon DEF Overlaid
    <2> QED
      BY <2>1, <2>2, <2>3, Zenon DEF PatchedBit
  <1> QED
    BY <1>2, <1>3, Zenon DEF PatchedItem, Overlaid

\* The items of write_uint_at(), one by one, make up the patch.
LEMMA PatchedItems ==
  ASSUME NEW o, NEW o2, NEW pos, NEW s, NEW n, NEW v, o \in Seq(Nat),
         o2 = [i \in DOMAIN o |-> o2[i]],
         \A q \in Nat : q < Len(o) => PatchedItem(o2[q + 1], o[q + 1], Span(q), pos, s, n, v)
  PROVE  PatchedTo(o, o2, pos, s, n, v)
  <1>1. PICK L \in Nat : L = Len(o) /\ DOMAIN o = 1..L
    OBVIOUS
  <1>2. ASSUME NEW i \in 1..L PROVE o2[i] \in Nat
    <2>1. PICK q \in Nat : q + 1 = i /\ q < L
      <3>1. i - 1 \in Nat /\ (i - 1) + 1 = i /\ i - 1 < L
        OBVIOUS
      <3> QED
        BY <3>1, Zenon
    <2> QED
      BY <1>1, <2>1, Zenon DEF PatchedItem
  <1>3. o2 \in [1..L -> Nat]
    BY <1>1, <1>2, Zenon
  <1>4. o2 \in Seq(Nat) /\ Len(o2) = L
    BY <1>3
  <1> QED
    BY <1>1, <1>4, Zenon DEF PatchedTo

\* A number that ends in the item q0 where it begins, at bit s.
LEMMA PatchInside ==
  ASSUME ElemBits \in Nat \ {0}, NEW o \in Seq(Nat), \A i \in 1..Len(o) : o[i] < Pow2[ElemBits],
         NEW q0 \in Nat, q0 < Len(o), NEW s \in Nat, NEW n \in Nat, s + n <= ElemBits,
         NEW v \in Nat, v < Pow2[n], NEW o2,
         o2 = [o EXCEPT ![q0 + 1] =
                ((o[q0 + 1] \div Pow2[n + s]) * Pow2[n + s]) + (v * Pow2[s])]
  PROVE  PatchedTo(o, o2, Span(q0) + s, s, n, v)
  <1>1. PICK y : y = ((o[q0 + 1] \div Pow2[n + s]) * Pow2[n + s]) + (v * Pow2[s])
    OBVIOUS
  <1>2. o2 = [o EXCEPT ![q0 + 1] = y]
    BY <1>1, Zenon
  <1>3. ASSUME NEW q \in Nat, q < Len(o)
        PROVE  PatchedItem(o2[q + 1], o[q + 1], Span(q), Span(q0) + s, s, n, v)
    <2>1. PICK x \in Nat : x = o[q + 1] /\ x < Pow2[ElemBits] /\ q + 1 \in DOMAIN o
      <3>1. q + 1 \in 1..Len(o) /\ DOMAIN o = 1..Len(o)
        BY <1>3
      <3>2. o[q + 1] \in Nat /\ o[q + 1] < Pow2[ElemBits]
        BY <3>1
      <3> QED
        BY <3>1, <3>2, Zenon
    <2>2. PICK u \in Nat, z \in Nat : u = Span(q) /\ z = Span(q0)
      BY SpanAdds
    <2>3. CASE q = q0
      <3>1. o2[q + 1] = y
        BY <1>2, <2>1, <2>3, Zenon
      <3>2. PatchedItem(y, x, u, u + s, s, n, v)
        <4>1. y = ((x \div Pow2[n + s]) * Pow2[n + s]) + (v * Pow2[s])
          BY <1>1, <2>1, <2>3, Zenon
        <4> QED
          BY <2>1, <4>1, InsideItem, Zenon
      <3> QED
        BY <2>1, <2>2, <2>3, <3>1, <3>2, Zenon
    <2>4. CASE q # q0
      <3>1. o2[q + 1] = x
        <4>1. q + 1 # q0 + 1
          BY <2>4
        <4> QED
          BY <1>2, <2>1, <4>1, Zenon
      <3>2. PICK pos \in Nat : pos = z + s /\ (u + ElemBits <= pos \/ pos + n <= u)
        <4>1. u + ElemBits <= z \/ z + ElemBits <= u
          <5>1. q < q0 => u + ElemBits <= z
            BY <2>2, LaterItem
          <5>2. q0 < q => z + ElemBits <= u
            BY <2>2, LaterItem
          <5> QED
            BY <2>4, <5>1, <5>2
        <4> QED
          BY <4>1
      <3>3. PatchedItem(x, x, u, pos, s, n, v)
        BY <2>1, <3>2, UntouchedItem, Zenon
      <3> QED
        BY <2>1, <2>2, <3>1, <3>2, <3>3, Zenon
    <2> QED
      BY <2>3, <2>4
  <1>4. o2 = [i \in DOMAIN o |-> o2[i]]
    BY <1>2, Zenon
  <1> QED
    BY <1>3, <1>4, PatchedItems, Zenon

\* A sequence of numbers has numbers.
LEMMA ElementsNat == ASSUME NEW o \in Seq(Nat) PROVE \A i \in 1..Len(o) : o[i] \in Nat
  OBVIOUS

\* Its indices count from 1.
LEMMA IndexIn ==
  ASSUME NEW o \in Seq(Nat) PROVE \A q \in Nat : q < Len(o) => q + 1 \in DOMAIN o
  OBVIOUS

\* The items o, and the items o2 that come of them when a number begins in the item q0
\* and ends t + 1 items behind it.
Spread(o, o2, q0, t, s, b, l, low, v) ==
  /\ o \in Seq(Nat) /\ \A i \in 1..Len(o) : o[i] < Pow2[ElemBits]
  /\ o2 = [i \in DOMAIN o |-> o2[i]]
  /\ o2[q0 + 1] = (low % Pow2[s]) + B!Item(v * Pow2[s])
  /\ \A g \in Nat : g < t => o2[((q0 + 1) + g) + 1] = B!Item(v \div Pow2[b + Span(g)])
  /\ o2[((q0 + 1) + t) + 1] = ((o[((q0 + 1) + t) + 1] \div Pow2[l]) * Pow2[l])
                                + (v \div Pow2[b + Span(t)])
  /\ \A q \in Nat : ((q < q0 \/ (q0 + 1) + t < q) /\ q < Len(o)) => o2[q + 1] = o[q + 1]

\* They are a patch.
LEMMA PatchAcross ==
  ASSUME ElemBits \in Nat \ {0}, NEW o, NEW q0 \in Nat, NEW t \in Nat, NEW s \in Nat,
         s < ElemBits, NEW b \in Nat, s + b = ElemBits, NEW l \in Nat, l <= ElemBits,
         NEW n \in Nat, n = b + (Span(t) + l), NEW v \in Nat, v < Pow2[n], NEW low \in Nat,
         NEW o2, Spread(o, o2, q0, t, s, b, l, low, v)
  PROVE  PatchedTo(o, o2, Span(q0) + s, s, n, v)
  <1>1. PICK z \in Nat, y \in Nat, L \in Nat : z = Span(q0) /\ y = Span(t) /\ L = Len(o)
    <2>1. Span(q0) \in Nat /\ Span(t) \in Nat
      BY SpanAdds
    <2>2. Len(o) \in Nat
      BY DEF Spread
    <2> QED
      BY <2>1, <2>2, Zenon
  <1>2. PICK pos \in Nat : pos = z + s /\ pos + b = z + ElemBits
    <2>1. z + s \in Nat /\ (z + s) + b = z + ElemBits
      OBVIOUS
    <2> QED
      BY <2>1, Zenon
  <1>3. n = b + (y + l)
    BY <1>1, Zenon
  <1>4. ASSUME NEW q \in Nat, q < L
        PROVE  PatchedItem(o2[q + 1], o[q + 1], Span(q), pos, s, n, v)
    <2>1. PICK x \in Nat : x = o[q + 1] /\ x < Pow2[ElemBits]
      <3>1. q + 1 \in 1..L
        BY <1>4
      <3>2. o \in Seq(Nat) /\ o[q + 1] < Pow2[ElemBits]
        BY <1>1, <3>1, Zenon DEF Spread
      <3>3. \A i \in 1..Len(o) : o[i] \in Nat
        BY <3>2, ElementsNat, Zenon
      <3> QED
        BY <1>1, <3>1, <3>2, <3>3, Zenon
    <2>2. PICK u \in Nat : u = Span(q)
      BY SpanAdds
    <2>3. CASE q < q0
      <3>1. o2[q + 1] = x
        BY <1>1, <1>4, <2>1, <2>3, Zenon DEF Spread
      <3>2. u + ElemBits <= z
        BY <1>1, <2>2, <2>3, LaterItem
      <3>3. u + ElemBits <= pos \/ pos + n <= u
        BY <1>2, <3>2
      <3>4. PatchedItem(x, x, u, pos, s, n, v)
        BY <2>1, <3>3, UntouchedItem, Zenon
      <3> QED
        BY <2>1, <2>2, <3>1, <3>4, Zenon
    <2>4. CASE q = q0
      <3>1. PICK f : f = o2[q + 1] /\ f = (low % Pow2[s]) + B!Item(v * Pow2[s])
        BY <2>4, Zenon DEF Spread
      <3>2. s + n >= ElemBits
        BY <1>3
      <3>3. PatchedItem(f, x, u, u + s, s, n, v)
        BY <3>1, <3>2, FirstItem, Zenon
      <3> QED
        BY <1>1, <1>2, <2>1, <2>2, <2>4, <3>1, <3>3, Zenon
    <2>5. CASE q0 < q
      <3>1. PICK g \in Nat : q = (q0 + 1) + g
        <4>1. q - (q0 + 1) \in Nat /\ q = (q0 + 1) + (q - (q0 + 1))
          BY <2>5
        <4> QED
          BY <4>1, Zenon
      <3>2. PICK w \in Nat : w = Span(g) /\ u = (z + ElemBits) + w
        <4>1. Span(q0 + 1) = Span(q0) + ElemBits /\ q0 + 1 \in Nat
          BY SpanAdds
        <4>2. Span((q0 + 1) + g) = Span(q0 + 1) + Span(g) /\ Span(g) \in Nat
          BY <4>1, SpanAdds, ZenonT(40)
        <4> QED
          BY <1>1, <2>2, <3>1, <4>1, <4>2, Zenon
      <3>3. PICK k \in Nat : k = b + w /\ u = pos + k
        <4>1. b + w \in Nat /\ u = pos + (b + w)
          BY <1>2, <3>2
        <4> QED
          BY <4>1, Zenon
      <3>4. CASE g < t
        <4>1. PICK f : f = o2[q + 1] /\ f = B!Item(v \div Pow2[k])
          BY <3>1, <3>2, <3>3, <3>4, Zenon DEF Spread
        <4>2. w + ElemBits <= y
          BY <1>1, <3>2, <3>4, LaterItem
        <4>3. k + ElemBits <= n
          BY <1>3, <3>3, <4>2
        <4>4. PatchedItem(f, x, u, pos, s, n, v)
          BY <3>3, <4>1, <4>3, MiddleItem, Zenon
        <4> QED
          BY <2>1, <2>2, <4>1, <4>4, Zenon
      <3>5. CASE g = t
        <4>1. PICK f : f = o2[q + 1] /\ f = ((x \div Pow2[l]) * Pow2[l]) + (v \div Pow2[k])
          BY <2>1, <3>1, <3>2, <3>3, <3>5, Zenon DEF Spread
        <4>2. w = y
          BY <1>1, <3>2, <3>5, Zenon
        <4>3. k + l = n
          BY <1>3, <3>3, <4>2
        <4>4. PatchedItem(f, x, u, pos, s, n, v)
          BY <2>1, <3>3, <4>1, <4>3, LastItem, Zenon
        <4> QED
          BY <2>1, <2>2, <4>1, <4>4, Zenon
      <3>6. CASE t < g
        <4>1. (q0 + 1) + t < q
          BY <3>1, <3>6
        <4>2. o2[q + 1] = x
          BY <1>1, <1>4, <2>1, <4>1, Zenon DEF Spread
        <4>3. y + ElemBits <= w
          BY <1>1, <3>2, <3>6, LaterItem
        <4>4. u + ElemBits <= pos \/ pos + n <= u
          BY <1>3, <3>3, <4>3
        <4>5. PatchedItem(x, x, u, pos, s, n, v)
          BY <2>1, <4>4, UntouchedItem, Zenon
        <4> QED
          BY <2>1, <2>2, <4>2, <4>5, Zenon
      <3> QED
        BY <3>4, <3>5, <3>6
    <2> QED
      BY <2>3, <2>4, <2>5
  <1>5. PatchedTo(o, o2, pos, s, n, v)
    BY <1>1, <1>4, PatchedItems, Zenon DEF Spread
  <1> QED
    BY <1>1, <1>2, <1>5, Zenon

------------------------------------------------------------------------------
(* BitStream: the invariant.                                               *)

\* A reader that has not begun.
ReaderFresh ==
  /\ items_read = 0 /\ cur_item = 0 /\ cur_item_bits = 0
  /\ reading = B!NotReading /\ last_read = B!NoRead

\* The writer's items hold the bits expected.
WriterHolds == Holds(out, out_v, bits_out, expected, damaged)

StreamInv ==
  /\ stage = "write" => WriterHolds /\ ReaderFresh
  /\ stage = "read" => ReaderIn

\* write_uint() keeps what was written, and adds its number.
LEMMA WriteUintKeeps ==
  ASSUME ElemBits \in Nat \ {0}, WriterHolds, NEW n \in Nat, NEW v \in Nat, v < Pow2[n],
         B!write_uint(v, n)
  PROVE  WriterHolds'
  <1>1. Packed(out, out_v, bits_out, expected) /\ Agree(out, out_v, expected, damaged)
    BY DEF WriterHolds, Holds
  <1>2. bits_out \in Nat /\ out_v \in Nat /\ bits_out <= ElemBits
    BY <1>1 DEF Packed
  <1>3. PICK b \in Int : b = ElemBits - bits_out
    BY <1>2
  <1>4. expected' = expected \o BitsOf(v, n) /\ damaged' = damaged
    BY DEF B!write_uint, BitsOf
  <1>5. CASE n <= b
    <2>1. /\ out_v' = B!Item(out_v + (v * Pow2[bits_out])) /\ bits_out' = bits_out + n
          /\ out' = out
      BY <1>3, <1>5, SamePow2, Zenon DEF B!write_uint
    <2>2. bits_out + n <= ElemBits
      BY <1>2, <1>3, <1>5
    <2>3. /\ Packed(out, out_v', bits_out + n, expected')
          /\ Agree(out, out_v', expected', damaged)
      BY <1>1, <1>2, <1>4, <2>1, <2>2, PutInside
    <2> QED
      BY <1>4, <2>1, <2>3, Zenon DEF WriterHolds, Holds
  <1>6. CASE ~(n <= b)
    <2>1. PICK f :
            /\ f = [i \in 1..B!Turns(n - b) |-> B!Item(v \div B!Pow2[b + ((i - 1) * ElemBits)])]
            /\ out' = Append(out, B!Item(out_v + (v * B!Pow2[bits_out]))) \o f
            /\ out_v' = v \div B!Pow2[b + (B!Turns(n - b) * ElemBits)]
            /\ bits_out' = (n - b) - (B!Turns(n - b) * ElemBits)
      BY <1>3, <1>6, Zenon DEF B!write_uint
    <2>2. n > b
      BY <1>6
    <2>3. /\ out' = Append(out, B!Item(out_v + (v * Pow2[bits_out]))) \o f
          /\ out_v' = v \div Pow2[b + (B!Turns(n - b) * ElemBits)]
      BY <2>1, SamePow2, Zenon
    <2>4. Holds(out', out_v', (n - b) - (B!Turns(n - b) * ElemBits), expected', damaged)
      <3>1. Holds(out, out_v, bits_out, expected, damaged)
        BY DEF WriterHolds
      <3>2. WritesAcross(out, out_v, bits_out, expected, n, v, b, f, out', out_v', expected')
        BY <1>3, <1>4, <2>1, <2>2, <2>3, Zenon DEF WritesAcross
      <3> QED
        BY <1>2, <3>1, <3>2, PutAcross, Zenon
    <2> QED
      BY <1>4, <2>1, <2>4, Zenon DEF WriterHolds
  <1> QED
    BY <1>5, <1>6

\* The loop over the items of a number, also of none.
LEMMA TurnsOf ==
  ASSUME ElemBits \in Nat \ {0}, NEW m \in Nat
  PROVE  \E t \in Nat, l \in Nat : t = B!Turns(m) /\ m = Span(t) + l /\ l <= ElemBits
  <1>1. CASE m = 0
    <2>1. B!Turns(m) = 0 /\ Span(0) = 0
      BY <1>1 DEF B!Turns, Span
    <2> QED
      BY <1>1, <2>1
  <1>2. CASE m # 0
    <2>1. PICK t \in Nat, y \in Nat, l \in Nat :
            t = B!Turns(m) /\ y = t * ElemBits /\ m = y + l /\ 0 < l /\ l <= ElemBits
      BY <1>2, TurnsLeft
    <2> QED
      BY <2>1, Zenon DEF Span
  <1> QED
    BY <1>1, <1>2

\* The item i that write_uint_at() leaves if the number ends in another item.
PatchedAt(o, i, q0, s, b, rest, v, n, touched, low) ==
  CASE i = q0 + 1 -> (low % B!Pow2[s]) + B!Item(v * B!Pow2[s])
    [] i - q0 - 1 \in 1..touched - 1 -> B!Item(v \div B!Pow2[b + (i - q0 - 1 - 1) * ElemBits])
    [] i = q0 + touched + 1 ->
         (o[q0 + touched + 1] \div B!Pow2[rest]) * B!Pow2[rest] + v \div B!Pow2[n - rest]
    [] OTHER -> o[i]

PatchedFrom(pos, v, n, touched, o2) ==
  \E low \in {out[pos \div ElemBits + 0 + 1], out[pos \div ElemBits + 1 + 1]} :
    o2 = [i \in DOMAIN out |->
            PatchedAt(out, i, pos \div ElemBits, pos % ElemBits, ElemBits - (pos % ElemBits),
                      n - (ElemBits - (pos % ElemBits)) - (touched - 1) * ElemBits,
                      v, n, touched, low)]

\* The model's items are these.
LEMMA PatchedIs ==
  ASSUME NEW pos, NEW v, NEW n, NEW touched, touched # 0, NEW o2,
         o2 \in B!Patched(pos, v, n, touched)
  PROVE  PatchedFrom(pos, v, n, touched, o2)
  BY Zenon DEF B!Patched, PatchedAt, PatchedFrom

\* Its items by their numbers.
PatchedAtEach(o, q0, t, s, b, l, v, n, low) ==
  /\ PatchedAt(o, q0 + 1, q0, s, b, l, v, n, 1 + t, low)
       = (low % B!Pow2[s]) + B!Item(v * B!Pow2[s])
  /\ \A g \in Nat : g < t =>
       PatchedAt(o, ((q0 + 1) + g) + 1, q0, s, b, l, v, n, 1 + t, low)
         = B!Item(v \div B!Pow2[b + (g * ElemBits)])
  /\ PatchedAt(o, ((q0 + 1) + t) + 1, q0, s, b, l, v, n, 1 + t, low)
       = ((o[((q0 + 1) + t) + 1] \div B!Pow2[l]) * B!Pow2[l]) + (v \div B!Pow2[n - l])
  /\ \A q \in Nat : (q < q0 \/ (q0 + 1) + t < q) =>
       PatchedAt(o, q + 1, q0, s, b, l, v, n, 1 + t, low) = o[q + 1]

\* They are the number's first bits, whole items of it, its last bits, and the others.
LEMMA PatchedAtIs ==
  ASSUME ElemBits \in Nat \ {0}, NEW o, NEW q0 \in Nat, NEW t \in Nat, NEW s, NEW b, NEW l, NEW v,
         NEW n, NEW low
  PROVE  PatchedAtEach(o, q0, t, s, b, l, v, n, low)
  <1>1. q0 + (1 + t) + 1 = ((q0 + 1) + t) + 1
    OBVIOUS
  <1>2. PatchedAt(o, q0 + 1, q0, s, b, l, v, n, 1 + t, low)
          = (low % B!Pow2[s]) + B!Item(v * B!Pow2[s])
    <2>1. PICK i \in Nat : i = q0 + 1
      OBVIOUS
    <2>2. i # ((q0 + 1) + t) + 1 /\ ~(i - q0 - 1 \in 1..(1 + t) - 1)
      BY <2>1
    <2> QED
      BY <1>1, <2>1, <2>2, Zenon DEF PatchedAt
  <1>3. ASSUME NEW g \in Nat, g < t
        PROVE  PatchedAt(o, ((q0 + 1) + g) + 1, q0, s, b, l, v, n, 1 + t, low)
                 = B!Item(v \div B!Pow2[b + (g * ElemBits)])
    <2>1. PICK i \in Nat : i = ((q0 + 1) + g) + 1
      OBVIOUS
    <2>2. /\ i # q0 + 1 /\ i - q0 - 1 \in 1..(1 + t) - 1 /\ i - q0 - 1 - 1 = g
          /\ i # ((q0 + 1) + t) + 1
      BY <1>3, <2>1
    <2> QED
      BY <1>1, <2>1, <2>2, Zenon DEF PatchedAt
  <1>4. PatchedAt(o, ((q0 + 1) + t) + 1, q0, s, b, l, v, n, 1 + t, low)
          = ((o[((q0 + 1) + t) + 1] \div B!Pow2[l]) * B!Pow2[l]) + (v \div B!Pow2[n - l])
    <2>1. PICK i \in Nat : i = ((q0 + 1) + t) + 1
      OBVIOUS
    <2>2. i # q0 + 1 /\ ~(i - q0 - 1 \in 1..(1 + t) - 1)
      BY <2>1
    <2> QED
      BY <1>1, <2>1, <2>2, Zenon DEF PatchedAt
  <1>5. ASSUME NEW q \in Nat, q < q0 \/ (q0 + 1) + t < q
        PROVE  PatchedAt(o, q + 1, q0, s, b, l, v, n, 1 + t, low) = o[q + 1]
    <2>1. PICK i \in Nat : i = q + 1
      OBVIOUS
    <2>2. i # q0 + 1 /\ ~(i - q0 - 1 \in 1..(1 + t) - 1) /\ i # ((q0 + 1) + t) + 1
      BY <1>5, <2>1
    <2> QED
      BY <1>1, <2>1, <2>2, Zenon DEF PatchedAt
  <1> QED
    BY <1>2, <1>3, <1>4, <1>5, Zenon DEF PatchedAtEach

\* The bits of a number by the items they go to.
Split(n, b, y, l) == b + y \in Nat /\ n - b \in Nat /\ (n - b) - y = l /\ n - l = b + y

\* b bits, y bits and l bits.
LEMMA SplitBits ==
  ASSUME NEW n \in Nat, NEW b \in Nat, NEW y \in Nat, NEW l \in Nat, n = b + (y + l)
  PROVE  Split(n, b, y, l)
  BY DEF Split

\* What is patched across items is spread over them.
LEMMA PatchedSpread ==
  ASSUME ElemBits \in Nat \ {0}, out \in Seq(Nat), \A i \in 1..Len(out) : out[i] < Pow2[ElemBits],
         NEW pos \in Nat, NEW q0 \in Nat, q0 = pos \div ElemBits, NEW s \in Nat, s = pos % ElemBits,
         NEW b \in Nat, b = ElemBits - s, NEW t \in Nat, NEW l \in Nat,
         NEW n \in Nat, n = b + (Span(t) + l), (q0 + 1) + t < Len(out),
         NEW v, NEW o2, o2 \in B!Patched(pos, v, n, 1 + t)
  PROVE  \E low \in Nat : Spread(out, o2, q0, t, s, b, l, low, v)
  <1>1. PICK k \in Nat, y \in Nat, m \in Nat :
          k = b + Span(t) /\ y = Span(t) /\ m = n - b /\ m - y = l /\ n - l = k
    <2>1. PICK y \in Nat : y = Span(t)
      BY SpanAdds
    <2>2. b + y \in Nat /\ n - b \in Nat /\ (n - b) - y = l /\ n - l = b + y
      <3>1. Split(n, b, y, l)
        BY <2>1, SplitBits, Zenon
      <3> QED
        BY <3>1, Zenon DEF Split
    <2> QED
      BY <2>1, <2>2, Zenon
  <1>2. n - b - ((1 + t) - 1) * ElemBits = l
    <2>1. (1 + t) - 1 = t /\ t * ElemBits = y
      BY <1>1 DEF Span
    <2> QED
      BY <1>1, <2>1, Zenon
  <1>3. 1 + t # 0
    OBVIOUS
  <1>4. PICK low \in {out[pos \div ElemBits + 0 + 1], out[pos \div ElemBits + 1 + 1]} :
          o2 = [i \in DOMAIN out |->
                  PatchedAt(out, i, pos \div ElemBits, pos % ElemBits, ElemBits - (pos % ElemBits),
                            n - (ElemBits - (pos % ElemBits)) - ((1 + t) - 1) * ElemBits,
                            v, n, 1 + t, low)]
    <2>1. PatchedFrom(pos, v, n, 1 + t, o2)
      BY <1>3, PatchedIs, Zenon
    <2> QED
      BY <2>1, Zenon DEF PatchedFrom
  <1>5. low \in Nat
    <2>1. q0 + 0 + 1 \in 1..Len(out) /\ q0 + 1 + 1 \in 1..Len(out)
      OBVIOUS
    <2>2. \A i \in 1..Len(out) : out[i] \in Nat
      BY ElementsNat, Zenon
    <2> QED
      BY <2>1, <2>2, Zenon
  <1>6. /\ o2 = [i \in DOMAIN out |-> o2[i]]
        /\ \A i \in DOMAIN out : o2[i] = PatchedAt(out, i, q0, s, b, l, v, n, 1 + t, low)
    BY <1>2, <1>4, Zenon
  <1>7. \A q \in Nat : q < Len(out) => q + 1 \in DOMAIN out
    BY IndexIn, Zenon
  <1>0. PatchedAtEach(out, q0, t, s, b, l, v, n, low)
    BY PatchedAtIs, Zenon
  <1>8. o2[q0 + 1] = (low % Pow2[s]) + B!Item(v * Pow2[s])
    <2>1. q0 < Len(out)
      OBVIOUS
    <2> QED
      BY <1>6, <1>7, <1>0, <2>1, SamePow2, Zenon DEF PatchedAtEach
  <1>9. ASSUME NEW g \in Nat, g < t
        PROVE  o2[((q0 + 1) + g) + 1] = B!Item(v \div Pow2[b + Span(g)])
    <2>1. (q0 + 1) + g < Len(out) /\ (q0 + 1) + g \in Nat
      BY <1>9
    <2>2. o2[((q0 + 1) + g) + 1] = PatchedAt(out, ((q0 + 1) + g) + 1, q0, s, b, l, v, n, 1 + t, low)
      BY <1>6, <1>7, <2>1, Zenon
    <2>3. PatchedAt(out, ((q0 + 1) + g) + 1, q0, s, b, l, v, n, 1 + t, low)
            = B!Item(v \div B!Pow2[b + (g * ElemBits)])
      BY <1>9, <1>0, Zenon DEF PatchedAtEach
    <2> QED
      BY <2>2, <2>3, SamePow2, Zenon DEF Span
  <1>10. o2[((q0 + 1) + t) + 1] = ((out[((q0 + 1) + t) + 1] \div Pow2[l]) * Pow2[l])
                                    + (v \div Pow2[b + Span(t)])
    <2>1. (q0 + 1) + t \in Nat
      OBVIOUS
    <2> QED
      BY <1>1, <1>6, <1>7, <1>0, <2>1, SamePow2, ZenonT(30) DEF PatchedAtEach
  <1>11. ASSUME NEW q \in Nat, q < q0 \/ (q0 + 1) + t < q, q < Len(out)
         PROVE  o2[q + 1] = out[q + 1]
    BY <1>6, <1>7, <1>0, <1>11, Zenon DEF PatchedAtEach
  <1>12. Spread(out, o2, q0, t, s, b, l, low, v)
    BY <1>6, <1>8, <1>9, <1>10, <1>11, Zenon DEF Spread
  <1> QED
    BY <1>5, <1>12, Zenon

\* write_uint_at() patches the items it touches, if they all have been put.
LEMMA PatchedIn ==
  ASSUME ElemBits \in Nat \ {0}, out \in Seq(Nat), \A i \in 1..Len(out) : out[i] < Pow2[ElemBits],
         NEW pos \in Nat, NEW n \in Nat, NEW v \in Nat, v < Pow2[n],
         NEW b, b = ElemBits - (pos % ElemBits),
         NEW touched, touched = IF n < b THEN 0 ELSE 1 + B!Turns(n - b),
         pos \div ElemBits + touched < Len(out), NEW o2, o2 \in B!Patched(pos, v, n, touched)
  PROVE  PatchedTo(out, o2, pos, pos % ElemBits, n, v) /\ pos + n <= Span(Len(out))
  <1>1. PICK q0 \in Nat, s \in Nat : s < ElemBits /\ pos = Span(q0) + s
    BY ItemAndBit
  <1>2. pos \div ElemBits = q0 /\ pos % ElemBits = s
    <2>1. pos \in Int /\ pos = (q0 * ElemBits) + s
      BY <1>1 DEF Span
    <2> QED
      BY <1>1, <2>1, Within
  <1>3. PICK c \in Nat, L \in Nat, z \in Nat :
          c = b /\ s + c = ElemBits /\ L = Len(out) /\ z = Span(q0)
    <2>1. ElemBits - s \in Nat /\ s + (ElemBits - s) = ElemBits /\ Len(out) \in Nat
      BY <1>1
    <2>2. Span(q0) \in Nat
      BY SpanAdds
    <2> QED
      BY <1>2, <2>1, <2>2, Zenon
  <1>4. pos = z + s
    BY <1>1, <1>3, Zenon
  <1>5. CASE n < c
    <2>1. touched = 0
      BY <1>3, <1>5, Zenon
    <2>2. q0 < L
      <3>1. q0 + 0 < L
        BY <1>2, <1>3, <2>1, Zenon
      <3> QED
        BY <3>1
    <2>3. o2 = [out EXCEPT ![q0 + 1] =
                  ((out[q0 + 1] \div Pow2[n + s]) * Pow2[n + s]) + (v * Pow2[s])]
      <3>1. q0 + 0 + 1 = q0 + 1
        OBVIOUS
      <3> QED
        BY <1>2, <2>1, <3>1, SamePow2, Zenon DEF B!Patched
    <2>4. s + n <= ElemBits
      BY <1>3, <1>5
    <2>5. PatchedTo(out, o2, Span(q0) + s, s, n, v)
      BY <1>3, <2>2, <2>3, <2>4, PatchInside, Zenon
    <2>6. z + ElemBits <= Span(L)
      BY <1>3, <2>2, LaterItem
    <2>7. PICK h \in Nat : h = Span(L)
      BY SpanAdds
    <2>8. pos + n <= h
      BY <1>4, <2>4, <2>6, <2>7
    <2> QED
      BY <1>1, <1>2, <1>3, <2>5, <2>7, <2>8, Zenon
  <1>6. CASE ~(n < c)
    <2>1. PICK m \in Nat : m = n - c
      BY <1>6
    <2>2. PICK t \in Nat, l \in Nat : t = B!Turns(m) /\ m = Span(t) + l /\ l <= ElemBits
      BY TurnsOf
    <2>3. touched = 1 + t
      BY <1>3, <1>6, <2>1, <2>2, Zenon
    <2>4. (q0 + 1) + t < L
      <3>1. q0 + (1 + t) < L
        BY <1>2, <1>3, <2>3, Zenon
      <3> QED
        BY <3>1
    <2>5. PICK y \in Nat : y = Span(t) /\ m = y + l
      BY <2>2, SpanAdds
    <2>6. n = c + (y + l)
      BY <2>1, <2>5
    <2>7. PICK low \in Nat : Spread(out, o2, q0, t, s, c, l, low, v)
      <3>1. n = c + (Span(t) + l) /\ c = ElemBits - s /\ (q0 + 1) + t < Len(out)
        BY <1>2, <1>3, <2>4, <2>5, <2>6, Zenon
      <3> QED
        BY <1>2, <2>3, <3>1, PatchedSpread, Zenon
    <2>8. PatchedTo(out, o2, Span(q0) + s, s, n, v)
      <3>1. n = c + (Span(t) + l)
        BY <2>5, <2>6, Zenon
      <3> QED
        BY <1>1, <1>3, <2>2, <2>7, <3>1, PatchAcross, Zenon
    <2>9. PICK h \in Nat : h = Span(L) /\ ((z + ElemBits) + y) + ElemBits <= h
      <3>1. Span(q0 + 1) = Span(q0) + ElemBits /\ q0 + 1 \in Nat /\ (q0 + 1) + t \in Nat
        BY SpanAdds
      <3>2. Span((q0 + 1) + t) = Span(q0 + 1) + Span(t)
        BY <3>1, SpanAdds
      <3>3. Span((q0 + 1) + t) + ElemBits <= Span(L)
        BY <2>4, <3>1, LaterItem
      <3>4. Span(L) \in Nat
        BY SpanAdds
      <3> QED
        BY <1>3, <2>5, <3>1, <3>2, <3>3, <3>4, Zenon
    <2>10. pos + n <= h
      <3>1. pos = z + s /\ s + c = ElemBits /\ n = c + (y + l) /\ l <= ElemBits
        BY <1>3, <1>4, <2>2, <2>6, Zenon
      <3> QED
        BY <2>9, <3>1
    <2> QED
      BY <1>1, <1>2, <1>3, <2>8, <2>9, <2>10, Zenon
  <1> QED
    BY <1>5, <1>6

\* write_uint_at() gives its bits their values, unless what it does is undefined.
LEMMA WriteUintAtKeeps ==
  ASSUME ElemBits \in Nat \ {0}, WriterHolds, NEW pos \in Nat, NEW n \in Nat, NEW v \in Nat,
         v < Pow2[n], B!write_uint_at(pos, v, n), stage' = "write"
  PROVE  WriterHolds'
  <1>1. Packed(out, out_v, bits_out, expected) /\ Agree(out, out_v, expected, damaged)
    BY DEF WriterHolds, Holds
  <1>2. /\ out \in Seq(Nat) /\ bits_out \in Nat
        /\ \A i \in 1..Len(out) : out[i] < Pow2[ElemBits]
    BY <1>1 DEF Packed
  <1>3. PICK b, touched :
          /\ b = ElemBits - (pos % ElemBits)
          /\ touched = IF n < b THEN 0 ELSE 1 + B!Turns(n - b)
          /\ pos \div ElemBits + touched < Len(out) /\ out' \in B!Patched(pos, v, n, touched)
    BY Zenon DEF B!write_uint_at
  <1>4. /\ expected' = Overwritten(expected, pos, n, v)
        /\ damaged' = Harmed(damaged, pos, pos % ElemBits, n)
        /\ out_v' = out_v /\ bits_out' = bits_out
    BY Zenon DEF B!write_uint_at, Overwritten, Harmed
  <1>5. PatchedTo(out, out', pos, pos % ElemBits, n, v) /\ pos + n <= Span(Len(out))
    BY <1>2, <1>3, PatchedIn
  <1>6. PICK s \in Nat : s = pos % ElemBits
    <2>1. PICK q \in Int, s \in 0..(ElemBits - 1) : s = pos % ElemBits
      BY Division, pos \in Int
    <2> QED
      BY <2>1
  <1>7. /\ Packed(out', out_v, bits_out, Overwritten(expected, pos, n, v))
        /\ Agree(out', out_v, Overwritten(expected, pos, n, v), Harmed(damaged, pos, s, n))
    BY <1>1, <1>2, <1>5, <1>6, PatchAgrees
  <1> QED
    BY <1>4, <1>6, <1>7, Zenon DEF WriterHolds, Holds

\* Items o2 for all of the bits e.
RoomFor(e, o2) ==
  \E m \in Nat, z \in Nat :
    o2 \in Seq(Nat) /\ m = Len(o2) /\ z = Len(e) /\ z <= m * ElemBits

\* The items that pick_data() returns have all the bits.
LEMMA PickedItems ==
  ASSUME ElemBits \in Nat \ {0}, NEW o, NEW last, NEW bo, NEW e, Packed(o, last, bo, e),
         NEW o2, o2 = IF bo > 0 THEN Append(o, last) ELSE o
  PROVE  RoomFor(e, o2)
  <1>1. o \in Seq(Nat) /\ bo \in Nat /\ bo <= ElemBits /\ last \in Nat /\ Len(e) \in Nat
    BY DEF Packed
  <1>2. PICK m \in Nat, y \in Nat : m = Len(o) /\ y = m * ElemBits /\ y + bo = Len(e)
    <2>1. Len(o) \in Nat
      BY <1>1
    <2>2. Len(o) * ElemBits \in Nat
      BY <2>1
    <2>3. (Len(o) * ElemBits) + bo = Len(e)
      BY DEF Packed, Span
    <2> QED
      BY <2>1, <2>2, <2>3, Zenon
  <1>3. CASE bo > 0
    <2>1. o2 \in Seq(Nat) /\ Len(o2) = m + 1
      BY <1>1, <1>2, <1>3
    <2>2. (m + 1) * ElemBits = y + ElemBits /\ m + 1 \in Nat
      BY <1>2
    <2>3. y + bo <= y + ElemBits /\ y + bo \in Nat
      BY <1>1
    <2>4. y + bo <= (m + 1) * ElemBits
      BY <2>2, <2>3, Zenon
    <2> QED
      BY <1>2, <2>1, <2>2, <2>3, <2>4, Zenon DEF RoomFor
  <1>4. CASE ~(bo > 0)
    <2>1. o2 = o /\ bo = 0
      BY <1>1, <1>4
    <2>2. y + bo <= y /\ y + bo \in Nat
      BY <2>1
    <2> QED
      BY <1>1, <1>2, <2>1, <2>2, Zenon DEF RoomFor
  <1> QED
    BY <1>3, <1>4

\* A reader at the first of the items o, of z bits.
LEMMA FirstPlace ==
  ASSUME ElemBits \in Nat \ {0}, NEW o \in Seq(Nat), NEW z \in Nat, z > 0,
         NEW m \in Nat, m = Len(o), z <= m * ElemBits,
         NEW avail, avail = IF z > ElemBits THEN ElemBits ELSE z
  PROVE  Place(o, z, 1, o[1], avail)
  <1>1. 0 * ElemBits = 0 /\ 1 - 1 = 0
    OBVIOUS
  <1>2. m >= 1
    <2>1. m # 0
      BY <1>1
    <2> QED
      BY <2>1
  <1>3. o[1] \in Nat
    BY <1>2
  <1>4. avail \in Nat /\ Width(z, 0) = avail
    BY <1>1 DEF Width
  <1>5. Pow2[0] = 1 /\ o[1] \div 1 = o[1] /\ avail - avail = 0
    <2>1. \A i \in Nat : i \div 1 = i /\ i - i = 0
      OBVIOUS
    <2>2. Pow2[0] = 1
      BY Pow2Unfold
    <2> QED
      BY <1>3, <1>4, <2>1, <2>2, Zenon
  <1>6. /\ (1 - 1) * ElemBits < z /\ avail <= Width(z, 1 - 1)
        /\ o[1] = o[1] \div Pow2[Width(z, 1 - 1) - avail]
    BY <1>1, <1>4, <1>5
  <1> QED
    BY <1>2, <1>3, <1>4, <1>6 DEF Place

\* pick_data() gives the reader the items and its place.
LEMMA PickDataKeeps ==
  ASSUME ElemBits \in Nat \ {0}, WriterHolds, ReaderFresh, B!pick_data PROVE ReaderIn'
  <1>1. Packed(out, out_v, bits_out, expected)
    BY DEF WriterHolds, Holds
  <1>2. /\ out' = IF bits_out > 0 THEN Append(out, out_v) ELSE out
        /\ bit_size' = Len(expected) /\ reading' = B!NotReading /\ last_read' = B!NoRead
    BY DEF B!pick_data, ReaderFresh
  <1>3. PICK m \in Nat, z \in Nat :
          out' \in Seq(Nat) /\ m = Len(out') /\ z = Len(expected) /\ z <= m * ElemBits
    <2>1. RoomFor(expected, out')
      BY <1>1, <1>2, PickedItems, Zenon
    <2> QED
      BY <2>1, Zenon DEF RoomFor
  <1>4. Place(out', z, items_read', cur_item', cur_item_bits')
    <2>1. CASE expected # <<>>
      <3>1. /\ items_read' = 1 /\ cur_item' = out'[1]
            /\ cur_item_bits' = IF z > ElemBits THEN ElemBits ELSE z
        BY <1>2, <1>3, <2>1, Zenon DEF B!pick_data
      <3>2. z > 0
        <4>1. expected \in Seq(0..1)
          BY <1>1 DEF Packed
        <4> QED
          BY <1>3, <2>1, <4>1
      <3> QED
        BY <1>3, <3>1, <3>2, FirstPlace
    <2>2. CASE ~(expected # <<>>)
      <3>1. items_read' = 0 /\ cur_item' = 0 /\ cur_item_bits' = 0
        BY <2>2, Zenon DEF B!pick_data, ReaderFresh
      <3>2. z = 0 /\ 0 <= m * ElemBits /\ 0 <= m
        BY <1>3, <2>2
      <3> QED
        BY <1>3, <3>1, <3>2 DEF Place
    <2> QED
      BY <2>1, <2>2
  <1>5. last_read' \in Answers /\ last_read'.n = 0 /\ reading' \in [n : Nat, r : Nat]
    BY <1>2 DEF Answers, B!NoRead, B!NotReading
  <1>6. Right(out', z, items_read', cur_item_bits', last_read')
    BY <1>5 DEF Right
  <1> QED
    BY <1>2, <1>3, <1>4, <1>5, <1>6, Zenon DEF ReaderIn, B!NotReading

\* The invariant is inductive.
LEMMA StreamInvHolds ==
  ASSUME ElemBits \in Nat \ {0}, MaxField \in Nat, MaxBits \in Nat
  PROVE  (B!Init => StreamInv) /\ (StreamInv /\ [B!Next]_B!vars => StreamInv')
  <1>1. B!Init => StreamInv
    <2>1. SUFFICES ASSUME B!Init PROVE StreamInv
      OBVIOUS
    <2>2. /\ stage = "write" /\ out = <<>> /\ out_v = 0 /\ bits_out = 0 /\ expected = <<>>
          /\ ReaderFresh
      BY <2>1 DEF B!Init, ReaderFresh
    <2>3. Packed(<<>>, 0, 0, <<>>)
      <3>1. Pow2[0] = 1 /\ Span(0) = 0
        BY Pow2Unfold DEF Span
      <3>2. <<>> \in Seq(Nat) /\ <<>> \in Seq(0..1) /\ Len(<<>>) = 0
        OBVIOUS
      <3> QED
        BY <3>1, <3>2 DEF Packed
    <2>4. Agree(<<>>, 0, <<>>, damaged)
      BY DEF Agree
    <2> QED
      BY <2>2, <2>3, <2>4, Zenon DEF StreamInv, WriterHolds, Holds
  <1>2. ASSUME StreamInv, [B!Next]_B!vars PROVE StreamInv'
    <2>1. ASSUME NEW n \in 0..MaxField, NEW v \in 0..B!Pow2[n] - 1, B!write_uint(v, n)
          PROVE  StreamInv'
      <3>1. n \in Nat /\ v \in Nat /\ v < Pow2[n]
        BY SamePow2, Pow2Pos
      <3>2. stage = "write" /\ stage' = "write" /\ UNCHANGED B!bit_reader
        BY <2>1, Zenon DEF B!write_uint
      <3>3. WriterHolds /\ ReaderFresh
        BY <1>2, <3>2 DEF StreamInv
      <3>4. WriterHolds'
        BY <2>1, <3>1, <3>3, WriteUintKeeps
      <3>5. ReaderFresh'
        BY <3>2, <3>3 DEF ReaderFresh, B!bit_reader, B!NotReading, B!NoRead
      <3> QED
        BY <3>2, <3>4, <3>5 DEF StreamInv
    <2>2. ASSUME NEW n \in 1..MaxField, NEW pos \in 0..MaxBits, NEW v \in 0..B!Pow2[n] - 1,
                 B!write_uint_at(pos, v, n)
          PROVE  StreamInv'
      <3>1. n \in Nat /\ v \in Nat /\ v < Pow2[n] /\ pos \in Nat
        BY SamePow2, Pow2Pos
      <3>2. /\ stage = "write" /\ stage' \in {"write", "undefined"}
            /\ UNCHANGED B!bit_reader
        BY <2>2, Zenon DEF B!write_uint_at
      <3>3. WriterHolds /\ ReaderFresh
        BY <1>2, <3>2 DEF StreamInv
      <3>4. stage' = "write" => WriterHolds'
        BY <2>2, <3>1, <3>3, WriteUintAtKeeps
      <3>5. ReaderFresh'
        BY <3>2, <3>3 DEF ReaderFresh, B!bit_reader, B!NotReading, B!NoRead
      <3> QED
        BY <3>2, <3>4, <3>5 DEF StreamInv
    <2>3. CASE B!pick_data
      <3>1. stage = "write" /\ stage' = "read"
        BY <2>3 DEF B!pick_data
      <3> QED
        BY <1>2, <2>3, <3>1, PickDataKeeps DEF StreamInv
    <2>4. ASSUME NEW n \in 0..MaxField, B!read_bits(n) \/ B!read_bits_long(n) PROVE StreamInv'
      <3>1. stage = "read" /\ stage' = "read" /\ n \in Nat
        BY <2>4 DEF B!read_bits, B!read_bits_long
      <3> QED
        BY <1>2, <2>4, <3>1, ReadBitsKeeps, ReadBitsLongKeeps DEF StreamInv
    <2>5. CASE B!read_item
      <3>1. stage = "read" /\ stage' = "read"
        BY <2>5 DEF B!read_item
      <3> QED
        BY <1>2, <2>5, <3>1, ReadItemKeeps DEF StreamInv
    <2>6. CASE B!read_item_throws
      <3>1. stage = "read" /\ stage' = "read"
        BY <2>6 DEF B!read_item_throws
      <3> QED
        BY <1>2, <2>6, <3>1, ThrowKeeps DEF StreamInv
    <2>7. CASE UNCHANGED B!vars
      <3>1. UNCHANGED <<stage, out, out_v, bits_out, expected, damaged, bit_size, items_read,
                        cur_item, cur_item_bits, reading, last_read>>
        BY <2>7 DEF B!vars, B!writer, B!bit_reader
      <3> QED
        BY <1>2, <3>1, Zenon DEF StreamInv, WriterHolds, ReaderFresh, ReaderIn,
                              B!NotReading, B!NoRead
    <2> QED
      BY <1>2, <2>1, <2>2, <2>3, <2>4, <2>5, <2>6, <2>7, Zenon DEF B!Next
  <1> QED
    BY <1>1, <1>2

\* get_bit_pos() counts the bits written, and each of them has the value that
\* write_uint() or write_uint_at() gave it last, whatever items the numbers straddle,
\* except below a patch in the item where it begins (bit_writer.h:30-76).
THEOREM BitWriterExact ==
  ASSUME ElemBits \in Nat \ {0}, MaxField \in Nat, MaxBits \in Nat
  PROVE  B!Spec => []WriterExact
  <1>1. B!Init => StreamInv
    BY StreamInvHolds
  <1>2. StreamInv /\ [B!Next]_B!vars => StreamInv'
    BY StreamInvHolds
  <1>3. StreamInv => B!WriterExact
    <2>1. SUFFICES ASSUME StreamInv, stage = "write"
                   PROVE  /\ (Len(out) * ElemBits) + bits_out = Len(expected)
                          /\ \A p \in 0..(Len(expected) - 1) :
                               p \notin damaged => B!Written(p) = expected[p + 1]
      BY Zenon DEF B!WriterExact
    <2>2. Packed(out, out_v, bits_out, expected) /\ Agree(out, out_v, expected, damaged)
      BY <2>1 DEF StreamInv, WriterHolds, Holds
    <2>3. (Len(out) * ElemBits) + bits_out = Len(expected)
      BY <2>2 DEF Packed, Span
    <2>4. \A p : B!Written(p) = Stored(out, out_v, p)
      BY Zenon DEF B!Written, Stored, ItemAt
    <2> QED
      BY <2>2, <2>3, <2>4, Zenon DEF Agree
  <1> QED
    BY <1>1, <1>2, <1>3, PTL DEF B!Spec, WriterExact

\* A read throws exactly when fewer bits are left than it wants, takes no item behind
\* the last one and moves the position behind its bits, and the lower n bits of what it
\* returns are those at its position, if they lie in one item (bit_reader.h:20-52).
THEOREM BitReaderExact ==
  ASSUME ElemBits \in Nat \ {0}, MaxField \in Nat, MaxBits \in Nat
  PROVE  B!Spec => []ReaderExact
  <1>1. B!Init => StreamInv
    BY StreamInvHolds
  <1>2. StreamInv /\ [B!Next]_B!vars => StreamInv'
    BY StreamInvHolds
  <1>3. StreamInv => B!ReaderExact
    <2>1. SUFFICES ASSUME StreamInv, stage = "read" PROVE B!ReaderExact
      BY Zenon DEF B!ReaderExact
    <2>2. ReaderIn
      BY <2>1 DEF StreamInv
    <2>3. items_read <= Len(out) /\ cur_item_bits >= 0
      BY <2>2 DEF ReaderIn, Place
    <2>4. PICK pos \in Nat, n \in Nat, z \in Nat :
            pos = last_read.pos /\ n = last_read.n /\ z = bit_size
      BY <2>2 DEF ReaderIn, Answers, Place
    <2>5. /\ pos + n - 1 = (pos + n) - 1 /\ (pos + n > z <=> pos + n - 1 >= z)
          /\ (pos + n - 1) + 1 = pos + n
      OBVIOUS
    <2>6. ASSUME reading = B!NotReading, n > 0
          PROVE  /\ last_read.threw <=> pos + n - 1 >= z
                 /\ ~last_read.threw => B!ReadPos = (pos + n - 1) + 1
                 /\ (pos \div ElemBits = (pos + n - 1) \div ElemBits /\ ~last_read.threw) =>
                      \A p \in pos..pos + n - 1 :
                        B!Bit(last_read.value, p - pos) =
                          B!Bit(out[(p \div ElemBits) + 1], p % ElemBits)
      <3>1. Right(out, bit_size, items_read, cur_item_bits, last_read)
        BY <2>2, <2>6 DEF ReaderIn
      <3> QED
        BY <2>4, <2>5, <2>6, <3>1, SameRead, Zenon DEF Right
    <2> QED
      BY <2>3, <2>4, <2>6, Zenon DEF B!ReaderExact
  <1> QED
    BY <1>1, <1>2, <1>3, PTL DEF B!Spec, ReaderExact

------------------------------------------------------------------------------
(* The order of the descriptions.  All three walks have seen some objects  *)
(* and have the others, that these or the heads use, on their stack.       *)

Items(s) == {s[k] : k \in DOMAIN s}

\* What o uses, and what is reachable, in the input i.
UsedBy(i, o) == Items(i.children[o])
Reach(i) ==
  {o \in DOMAIN i.kind :
     \A W \in SUBSET DOMAIN i.kind :
       Items(i.heads) \subseteq W /\ (\A u \in W : UsedBy(i, u) \subseteq W) => o \in W}

\* This is what ProtoOrder calls reachable.
LEMMA ReachIs == Reach(input) = O!Reachable
  BY DEF Reach, UsedBy, Items, O!Reachable, O!Objects, O!Children, O!get_children, O!ToSet

\* A sequence over the set its items are in.
LEMMA SeqOfItems ==
  ASSUME NEW D, NEW R, NEW s \in Seq(D), \A k \in DOMAIN s : s[k] \in R
  PROVE  s \in Seq(R)
  <1>1. Len(s) \in Nat /\ s \in [1..Len(s) -> D]
    BY LenProperties
  <1>2. s \in [1..Len(s) -> R]
    BY <1>1
  <1> QED
    BY <1>1, <1>2, SeqDef

\* The heads and what the reachable use are reachable.
LEMMA ReachClosed ==
  ASSUME NEW i, O!IsDescription(i)
  PROVE  /\ Reach(i) \subseteq DOMAIN i.kind
         /\ i.heads \in Seq(Reach(i))
         /\ \A u \in Reach(i) : i.children[u] \in Seq(Reach(i)) /\ UsedBy(i, u) \subseteq Reach(i)
  <1> DEFINE D == DOMAIN i.kind
             R == Reach(i)
             Closed(W) == Items(i.heads) \subseteq W /\ \A u \in W : UsedBy(i, u) \subseteq W
  <1>1. i.children \in [D -> Seq(D)] /\ i.heads \in Seq(D)
    BY DEF O!IsDescription
  <1>2. R = {o \in D : \A W \in SUBSET D : Closed(W) => o \in W}
    BY DEF Reach
  <1>3. R \subseteq D
    BY <1>2
  <1>4. ASSUME NEW k \in DOMAIN i.heads PROVE i.heads[k] \in R
    <2>1. i.heads[k] \in D /\ i.heads[k] \in Items(i.heads)
      BY <1>1 DEF Items
    <2> QED
      BY <1>2, <2>1
  <1>5. i.heads \in Seq(R)
    BY <1>1, <1>4, SeqOfItems
  <1>6. ASSUME NEW u \in R, NEW k \in DOMAIN i.children[u] PROVE i.children[u][k] \in R
    <2>1. i.children[u] \in Seq(D)
      BY <1>1, <1>3
    <2>2. i.children[u][k] \in D /\ i.children[u][k] \in UsedBy(i, u)
      BY <2>1 DEF UsedBy, Items
    <2>3. ASSUME NEW W \in SUBSET D, Closed(W) PROVE i.children[u][k] \in W
      BY <1>2, <2>2, <2>3
    <2> QED
      BY <1>2, <2>2, <2>3
  <1>7. ASSUME NEW u \in R PROVE i.children[u] \in Seq(R) /\ UsedBy(i, u) \subseteq R
    <2>1. i.children[u] \in Seq(D)
      BY <1>1, <1>3
    <2> QED
      BY <2>1, <1>6, SeqOfItems DEF UsedBy, Items
  <1> QED
    BY <1>3, <1>5, <1>7

\* Nothing else is.
LEMMA ReachLeast ==
  ASSUME NEW i, NEW W \in SUBSET Reach(i), Items(i.heads) \subseteq W,
         \A u \in W : UsedBy(i, u) \subseteq W
  PROVE  W = Reach(i)
  BY DEF Reach

\* A walk that has seen some of the objects, and will see the rest.
Stacked(i, seen, stack) ==
  /\ seen \subseteq Reach(i) /\ stack \in Seq(Reach(i))
  /\ Items(i.heads) \subseteq seen \cup Items(stack)
  /\ \A u \in seen : UsedBy(i, u) \subseteq seen \cup Items(stack)

Below(stack) == SubSeq(stack, 1, Len(stack) - 1)
Top(stack) == stack[Len(stack)]

\* A stack without its last object.
LEMMA BelowTop ==
  ASSUME NEW D, NEW stack \in Seq(D), stack # <<>>
  PROVE  /\ Below(stack) \in Seq(D) /\ Top(stack) \in D
         /\ DOMAIN Below(stack) = 1..(Len(stack) - 1) /\ Len(stack) \in Nat \ {0}
         /\ DOMAIN stack = 1..Len(stack) /\ Len(Below(stack)) = Len(stack) - 1
         /\ \A k \in 1..(Len(stack) - 1) : Below(stack)[k] = stack[k]
         /\ Items(stack) = Items(Below(stack)) \cup {Top(stack)}
  <1>1. /\ Len(stack) \in Nat /\ Len(stack) # 0 /\ DOMAIN stack = 1..Len(stack)
        /\ \A k \in 1..Len(stack) : stack[k] \in D
    BY EmptySeq, LenProperties
  <1>2. /\ Below(stack) \in Seq(D) /\ Len(Below(stack)) = Len(stack) - 1
        /\ \A k \in 1..(Len(stack) - 1) : Below(stack)[k] = stack[k]
    BY <1>1 DEF Below
  <1>3. DOMAIN Below(stack) = 1..(Len(stack) - 1) /\ Top(stack) \in D
    BY <1>1, <1>2 DEF Top
  <1>4. ASSUME NEW k \in 1..Len(stack) PROVE k = Len(stack) \/ k \in 1..(Len(stack) - 1)
    <2>1. PICK n \in Nat : n = Len(stack)
      BY <1>1
    <2> QED
      BY <2>1
  <1>5. Len(stack) \in 1..Len(stack) /\ \A k \in 1..(Len(stack) - 1) : k \in 1..Len(stack)
    BY <1>1
  <1>6. Items(stack) = Items(Below(stack)) \cup {Top(stack)}
    <2>1. ASSUME NEW x \in Items(stack) PROVE x \in Items(Below(stack)) \cup {Top(stack)}
      <3>1. PICK k \in 1..Len(stack) : x = stack[k]
        BY <1>1 DEF Items
      <3>2. CASE k = Len(stack)
        BY <3>1, <3>2 DEF Top
      <3>3. CASE k \in 1..(Len(stack) - 1)
        BY <3>1, <3>3, <1>2, <1>3, Zenon DEF Items
      <3> QED
        BY <1>4, <3>2, <3>3
    <2>2. Top(stack) \in Items(stack)
      BY <1>1, <1>5, Zenon DEF Items, Top
    <2>3. ASSUME NEW x \in Items(Below(stack)) PROVE x \in Items(stack)
      <3>1. PICK k \in 1..(Len(stack) - 1) : x = Below(stack)[k]
        BY <1>3, Zenon DEF Items
      <3> QED
        BY <3>1, <1>1, <1>2, <1>5, Zenon DEF Items
    <2> QED
      BY <2>1, <2>2, <2>3
  <1> QED
    BY <1>1, <1>2, <1>3, <1>6

\* The items of two sequences in a row.
LEMMA ItemsConcat ==
  ASSUME NEW D, NEW s \in Seq(D), NEW t \in Seq(D)
  PROVE  s \o t \in Seq(D) /\ Items(s \o t) = Items(s) \cup Items(t)
  <1>1. /\ Len(s) \in Nat /\ Len(t) \in Nat
        /\ DOMAIN s = 1..Len(s) /\ DOMAIN t = 1..Len(t)
    BY LenProperties
  <1>2. /\ s \o t \in Seq(D) /\ Len(s \o t) = Len(s) + Len(t) /\ DOMAIN (s \o t) = 1..(Len(s) + Len(t))
        /\ \A k \in 1..(Len(s) + Len(t)) :
             (s \o t)[k] = IF k <= Len(s) THEN s[k] ELSE t[k - Len(s)]
    BY <1>1, ConcatProperties
  <1>3. ASSUME NEW x \in Items(s \o t) PROVE x \in Items(s) \cup Items(t)
    <2>1. PICK k \in 1..(Len(s) + Len(t)) : x = (s \o t)[k]
      BY <1>2, Zenon DEF Items
    <2>2. CASE k <= Len(s)
      <3>1. k \in DOMAIN s /\ x = s[k]
        BY <1>1, <1>2, <2>1, <2>2
      <3> QED
        BY <3>1, Zenon DEF Items
    <2>3. CASE ~(k <= Len(s))
      <3>1. k - Len(s) \in DOMAIN t /\ x = t[k - Len(s)]
        BY <1>1, <1>2, <2>1, <2>3
      <3> QED
        BY <3>1, Zenon DEF Items
    <2> QED
      BY <2>2, <2>3
  <1>4. ASSUME NEW x \in Items(s) PROVE x \in Items(s \o t)
    <2>1. PICK k \in 1..Len(s) : x = s[k]
      BY <1>1, Zenon DEF Items
    <2>2. k \in DOMAIN (s \o t) /\ x = (s \o t)[k]
      BY <1>1, <1>2, <2>1
    <2> QED
      BY <2>2, Zenon DEF Items
  <1>5. ASSUME NEW x \in Items(t) PROVE x \in Items(s \o t)
    <2>1. PICK k \in 1..Len(t) : x = t[k]
      BY <1>1, Zenon DEF Items
    <2>2. k + Len(s) \in DOMAIN (s \o t) /\ x = (s \o t)[k + Len(s)]
      <3>1. k + Len(s) \in 1..(Len(s) + Len(t)) /\ ~(k + Len(s) <= Len(s)) /\ (k + Len(s)) - Len(s) = k
        BY <1>1
      <3> QED
        BY <3>1, <1>2, <2>1
    <2> QED
      BY <2>2, Zenon DEF Items
  <1> QED
    BY <1>2, <1>3, <1>4, <1>5

\* A walk begins with the heads.
LEMMA StackBegins ==
  ASSUME NEW i, O!IsDescription(i)
  PROVE  Stacked(i, {}, i.heads)
  BY ReachClosed DEF Stacked

\* It goes on with what is below an object that has been seen,
LEMMA StackSkips ==
  ASSUME NEW i, NEW seen, NEW stack, Stacked(i, seen, stack), stack # <<>>, Top(stack) \in seen
  PROVE  Stacked(i, seen, Below(stack))
  <1>1. stack \in Seq(Reach(i))
    BY DEF Stacked
  <1>2. Below(stack) \in Seq(Reach(i)) /\ Items(stack) = Items(Below(stack)) \cup {Top(stack)}
    BY <1>1, BelowTop
  <1> QED
    BY <1>2 DEF Stacked

\* with that and what the object uses, if it is a new one,
LEMMA StackSees ==
  ASSUME NEW i, O!IsDescription(i), NEW seen, NEW stack, Stacked(i, seen, stack), stack # <<>>
  PROVE  /\ Top(stack) \in Reach(i)
         /\ Stacked(i, seen \cup {Top(stack)}, Below(stack) \o i.children[Top(stack)])
  <1>1. stack \in Seq(Reach(i))
    BY DEF Stacked
  <1>2. /\ Below(stack) \in Seq(Reach(i)) /\ Items(stack) = Items(Below(stack)) \cup {Top(stack)}
        /\ Top(stack) \in Reach(i)
    BY <1>1, BelowTop
  <1> DEFINE next == Below(stack) \o i.children[Top(stack)]
  <1>3. i.children[Top(stack)] \in Seq(Reach(i))
    BY <1>2, ReachClosed
  <1>4. /\ next \in Seq(Reach(i))
        /\ Items(next) = Items(Below(stack)) \cup UsedBy(i, Top(stack))
    BY <1>2, <1>3, ItemsConcat DEF UsedBy
  <1> HIDE DEF next
  <1>5. Stacked(i, seen \cup {Top(stack)}, next)
    BY <1>2, <1>4 DEF Stacked
  <1> QED
    BY <1>2, <1>5 DEF next

\* and has seen all that is reachable when the stack is empty.
LEMMA StackEnds ==
  ASSUME NEW i, NEW seen, Stacked(i, seen, <<>>)
  PROVE  seen = Reach(i)
  <1>1. Items(<<>>) = {}
    BY DEF Items
  <1> QED
    BY <1>1, ReachLeast DEF Stacked

------------------------------------------------------------------------------
(* How often an object is used: its places on a stack, and in what a set   *)
(* of objects uses.                                                        *)

Places(s, o) == {k \in DOMAIN s : s[k] = o}
Uses(i, users, o) == {p \in users \X Nat : p[2] \in Places(i.children[p[1]], o)}

\* What a finite set is mapped onto one to one.
LEMMA OneToOne ==
  ASSUME NEW X, IsFiniteSet(X), NEW Y, NEW f \in [X -> Y],
         \A a, b \in X : f[a] = f[b] => a = b, \A y \in Y : \E a \in X : f[a] = y
  PROVE  IsFiniteSet(Y) /\ Cardinality(Y) = Cardinality(X)
  <1>1. f \in Injection(X, Y)
    BY DEF Injection, IsInjective
  <1>2. f \in Surjection(X, Y)
    BY DEF Surjection
  <1>3. ExistsBijection(X, Y)
    BY <1>1, <1>2 DEF ExistsBijection, Bijection
  <1> QED
    BY <1>3, FS_Bijection

\* There are finitely many places, and some for an item.
LEMMA PlacesFinite ==
  ASSUME NEW D, NEW s \in Seq(D), NEW o
  PROVE  /\ IsFiniteSet(Places(s, o)) /\ Cardinality(Places(s, o)) \in Nat
         /\ Places(s, o) \subseteq 1..Len(s)
         /\ Cardinality(Places(s, o)) = 0 <=> o \notin Items(s)
  <1>1. Len(s) \in Nat /\ DOMAIN s = 1..Len(s)
    BY LenProperties
  <1>2. Places(s, o) \subseteq 1..Len(s)
    BY <1>1 DEF Places
  <1>3. IsFiniteSet(1..Len(s))
    BY <1>1, FS_Interval
  <1>4. IsFiniteSet(Places(s, o))
    BY <1>2, <1>3, FS_Subset
  <1>5. Cardinality(Places(s, o)) \in Nat
    BY <1>4, FS_CardinalityType
  <1>6. Cardinality(Places(s, o)) = 0 <=> Places(s, o) = {}
    BY <1>4, FS_EmptySet
  <1>7. Places(s, o) = {} <=> o \notin Items(s)
    BY DEF Places, Items
  <1> QED
    BY <1>2, <1>4, <1>5, <1>6, <1>7

\* Taking the last item off.
LEMMA PlacesBelow ==
  ASSUME NEW D, NEW s \in Seq(D), s # <<>>, NEW o
  PROVE  Cardinality(Places(s, o)) =
           Cardinality(Places(Below(s), o)) + (IF o = Top(s) THEN 1 ELSE 0)
  <1>1. /\ Below(s) \in Seq(D) /\ DOMAIN Below(s) = 1..(Len(s) - 1) /\ Len(s) \in Nat \ {0}
        /\ DOMAIN s = 1..Len(s) /\ Len(Below(s)) = Len(s) - 1
        /\ \A k \in 1..(Len(s) - 1) : Below(s)[k] = s[k]
    BY BelowTop
  <1>2. PICK n \in Nat : n = Len(s) - 1 /\ Len(s) = n + 1
    <2>1. PICK l \in Nat \ {0} : l = Len(s)
      BY <1>1
    <2>2. l - 1 \in Nat /\ l = (l - 1) + 1
      OBVIOUS
    <2> QED
      BY <2>1, <2>2
  <1>3. \A k \in 1..(n + 1) : k \in 1..n \/ k = n + 1
    OBVIOUS
  <1>4. n + 1 \notin 1..n /\ n + 1 \in 1..(n + 1) /\ 1..n \subseteq 1..(n + 1)
    OBVIOUS
  <1>5. Places(s, o) = Places(Below(s), o) \cup (IF o = Top(s) THEN {n + 1} ELSE {})
    <2>1. Places(s, o) = {k \in 1..(n + 1) : s[k] = o}
      BY <1>1, <1>2 DEF Places
    <2>2. Places(Below(s), o) = {k \in 1..n : s[k] = o}
      BY <1>1, <1>2 DEF Places
    <2>3. Top(s) = s[n + 1]
      BY <1>2 DEF Top
    <2> QED
      BY <1>3, <1>4, <2>1, <2>2, <2>3, Zenon
  <1>6. n + 1 \notin Places(Below(s), o)
    BY <1>1, <1>2, <1>4 DEF Places
  <1>7. IsFiniteSet(Places(Below(s), o)) /\ Cardinality(Places(Below(s), o)) \in Nat
    BY <1>1, PlacesFinite
  <1>8. CASE o = Top(s)
    <2>1. Cardinality(Places(Below(s), o) \cup {n + 1}) = Cardinality(Places(Below(s), o)) + 1
      BY <1>6, <1>7, FS_AddElement
    <2> QED
      BY <1>5, <1>8, <2>1
  <1>9. CASE o # Top(s)
    <2>1. Places(s, o) = Places(Below(s), o)
      BY <1>5, <1>9, Zenon
    <2> QED
      BY <1>7, <1>9, <2>1
  <1> QED
    BY <1>8, <1>9

\* Putting two sequences in a row.
LEMMA PlacesConcat ==
  ASSUME NEW D, NEW s \in Seq(D), NEW t \in Seq(D), NEW o
  PROVE  Cardinality(Places(s \o t, o)) = Cardinality(Places(s, o)) + Cardinality(Places(t, o))
  <1>1. /\ Len(s) \in Nat /\ Len(t) \in Nat
        /\ DOMAIN s = 1..Len(s) /\ DOMAIN t = 1..Len(t)
    BY LenProperties
  <1>2. PICK m \in Nat, n \in Nat : m = Len(s) /\ n = Len(t)
    BY <1>1
  <1>3. /\ s \o t \in Seq(D) /\ DOMAIN (s \o t) = 1..(m + n)
        /\ \A k \in 1..(m + n) : (s \o t)[k] = IF k <= m THEN s[k] ELSE t[k - m]
    BY <1>1, <1>2, ConcatProperties
  <1> DEFINE Moved == {k + m : k \in Places(t, o)}
             Shift == [k \in Places(t, o) |-> k + m]
  <1>4. Places(s, o) \subseteq 1..m /\ Places(t, o) \subseteq 1..n
    BY <1>1, <1>2 DEF Places
  <1>5. IsFiniteSet(Places(t, o)) /\ Cardinality(Places(t, o)) \in Nat
    BY PlacesFinite
  <1>6. /\ Shift \in [Places(t, o) -> Moved]
        /\ \A a, b \in Places(t, o) : Shift[a] = Shift[b] => a = b
        /\ \A y \in Moved : \E a \in Places(t, o) : Shift[a] = y
    <2>1. Shift \in [Places(t, o) -> Moved]
      OBVIOUS
    <2>2. \A a, b \in Places(t, o) : Shift[a] = Shift[b] => a = b
      BY <1>4
    <2>3. \A y \in Moved : \E a \in Places(t, o) : Shift[a] = y
      OBVIOUS
    <2> HIDE DEF Shift, Moved
    <2> QED
      BY <2>1, <2>2, <2>3
  <1>7. IsFiniteSet(Moved) /\ Cardinality(Moved) = Cardinality(Places(t, o))
    <2> HIDE DEF Shift, Moved
    <2> QED
      BY <1>5, <1>6, OneToOne
  <1>8. Places(s \o t, o) = Places(s, o) \cup Moved
    <2>1. ASSUME NEW k \in Places(s \o t, o) PROVE k \in Places(s, o) \cup Moved
      <3>1. k \in 1..(m + n) /\ (s \o t)[k] = o
        BY <1>3, <2>1 DEF Places
      <3>2. CASE k <= m
        BY <1>1, <1>2, <1>3, <3>1, <3>2 DEF Places
      <3>3. CASE ~(k <= m)
        <4>1. k - m \in 1..n /\ t[k - m] = o /\ (k - m) + m = k
          BY <1>3, <3>1, <3>3
        <4>2. k - m \in Places(t, o)
          BY <1>1, <1>2, <4>1 DEF Places
        <4> QED
          BY <4>1, <4>2
      <3> QED
        BY <3>2, <3>3
    <2>2. ASSUME NEW k \in Places(s, o) PROVE k \in Places(s \o t, o)
      <3>1. k \in 1..m /\ s[k] = o
        BY <1>4, <2>2 DEF Places
      <3>2. k \in 1..(m + n) /\ k <= m
        BY <3>1
      <3> QED
        BY <1>3, <3>1, <3>2 DEF Places
    <2>3. ASSUME NEW k \in Places(t, o) PROVE k + m \in Places(s \o t, o)
      <3>1. k \in 1..n /\ t[k] = o
        BY <1>4, <2>3 DEF Places
      <3>2. k + m \in 1..(m + n) /\ ~(k + m <= m) /\ (k + m) - m = k
        BY <3>1
      <3> QED
        BY <1>3, <3>1, <3>2 DEF Places
    <2> QED
      BY <2>1, <2>2, <2>3
  <1>9. Places(s, o) \cap Moved = {}
    BY <1>4
  <1>10. IsFiniteSet(Places(s, o)) /\ Cardinality(Places(s, o)) \in Nat
    BY PlacesFinite
  <1> HIDE DEF Moved, Shift
  <1>11. Cardinality(Places(s, o) \cup Moved) =
           Cardinality(Places(s, o)) + Cardinality(Moved) - Cardinality(Places(s, o) \cap Moved)
    BY <1>7, <1>10, FS_Union
  <1>12. Cardinality(Places(s, o) \cap Moved) = 0
    BY <1>9, FS_EmptySet
  <1> QED
    BY <1>5, <1>7, <1>8, <1>10, <1>11, <1>12

\* One more user.
LEMMA UsesAdd ==
  ASSUME NEW i, NEW users, NEW u, u \notin users, NEW D, i.children[u] \in Seq(D), NEW o,
         IsFiniteSet(Uses(i, users, o))
  PROVE  /\ IsFiniteSet(Uses(i, users \cup {u}, o)) /\ Cardinality(Uses(i, users, o)) \in Nat
         /\ Cardinality(Uses(i, users \cup {u}, o)) =
              Cardinality(Uses(i, users, o)) + Cardinality(Places(i.children[u], o))
  <1> DEFINE P == Places(i.children[u], o)
             Own == {<<u, k>> : k \in P}
             Pairing == [k \in P |-> <<u, k>>]
  <1>1. IsFiniteSet(P) /\ Cardinality(P) \in Nat /\ P \subseteq Nat
    BY PlacesFinite
  <1>2. Pairing \in [P -> Own]
    OBVIOUS
  <1>3. IsFiniteSet(Own) /\ Cardinality(Own) = Cardinality(P)
    <2>1. \A a, b \in P : Pairing[a] = Pairing[b] => a = b
      OBVIOUS
    <2>2. \A y \in Own : \E a \in P : Pairing[a] = y
      OBVIOUS
    <2> HIDE DEF Pairing, Own, P
    <2> QED
      BY <1>1, <1>2, <2>1, <2>2, OneToOne
  <1>4. Uses(i, users \cup {u}, o) = Uses(i, users, o) \cup Own
    BY <1>1 DEF Uses
  <1>5. Uses(i, users, o) \cap Own = {}
    BY DEF Uses
  <1> HIDE DEF Own, Pairing, P
  <1>6. /\ IsFiniteSet(Uses(i, users, o) \cup Own)
        /\ Cardinality(Uses(i, users, o) \cup Own) =
             Cardinality(Uses(i, users, o)) + Cardinality(Own) - Cardinality(Uses(i, users, o) \cap Own)
    BY <1>3, FS_Union
  <1>7. Cardinality(Uses(i, users, o) \cap Own) = 0 /\ Cardinality(Uses(i, users, o)) \in Nat
    BY <1>5, FS_EmptySet, FS_CardinalityType
  <1> QED
    <2>1. PICK a, b \in Nat : a = Cardinality(Uses(i, users, o)) /\ b = Cardinality(P)
      BY <1>1, <1>7
    <2>2. /\ IsFiniteSet(Uses(i, users \cup {u}, o))
          /\ Cardinality(Uses(i, users \cup {u}, o)) = a + b - 0
      BY <1>3, <1>4, <1>6, <1>7, <2>1
    <2>3. a + b - 0 = a + b
      BY <2>1
    <2> QED
      BY <1>7, <2>1, <2>2, <2>3 DEF P

\* No use is left when all users are gone, and only then.
LEMMA UsesNone ==
  ASSUME NEW i, NEW users, NEW o, IsFiniteSet(Uses(i, users, o)),
         NEW D, \A u \in users : i.children[u] \in Seq(D)
  PROVE  Cardinality(Uses(i, users, o)) = 0 <=> \A u \in users : o \notin UsedBy(i, u)
  <1>1. Cardinality(Uses(i, users, o)) = 0 <=> Uses(i, users, o) = {}
    BY FS_EmptySet
  <1>2. ASSUME NEW u \in users, o \in UsedBy(i, u) PROVE Uses(i, users, o) # {}
    <2>1. PICK k \in DOMAIN i.children[u] : i.children[u][k] = o
      BY <1>2 DEF UsedBy, Items
    <2>2. DOMAIN i.children[u] = 1..Len(i.children[u]) /\ Len(i.children[u]) \in Nat
      BY LenProperties
    <2>3. <<u, k>> \in Uses(i, users, o)
      BY <2>1, <2>2 DEF Uses, Places
    <2> QED
      BY <2>3
  <1>3. ASSUME NEW p \in Uses(i, users, o) PROVE p[1] \in users /\ o \in UsedBy(i, p[1])
    BY DEF Uses, Places, UsedBy, Items
  <1> QED
    BY <1>1, <1>2, <1>3

\* Some position has the largest number.
LEMMA LargestExists ==
  ASSUME NEW n \in Nat \ {0}, NEW f \in [1..n -> Int]
  PROVE  \E a \in 1..n : \A k \in 1..n : f[k] <= f[a]
  <1> DEFINE H == {m \in Nat : m + 1 <= n => \E a \in 1..(m + 1) : \A k \in 1..(m + 1) : f[k] <= f[a]}
  <1>1. 0 \in H
    BY 1..(0 + 1) = {1}
  <1>2. ASSUME NEW m \in H PROVE m + 1 \in H
    <2>1. SUFFICES ASSUME (m + 1) + 1 <= n
                   PROVE  \E a \in 1..((m + 1) + 1) : \A k \in 1..((m + 1) + 1) : f[k] <= f[a]
      OBVIOUS
    <2>2. PICK a \in 1..(m + 1) : \A k \in 1..(m + 1) : f[k] <= f[a]
      BY <2>1
    <2>3. \A k \in 1..((m + 1) + 1) : k \in 1..(m + 1) \/ k = m + 2
      OBVIOUS
    <2>4. m + 2 \in 1..((m + 1) + 1) /\ a \in 1..((m + 1) + 1) /\ f[a] \in Int /\ f[m + 2] \in Int
          /\ \A k \in 1..(m + 1) : f[k] \in Int
      BY <2>1
    <2>5. CASE f[m + 2] <= f[a]
      BY <2>2, <2>3, <2>4, <2>5
    <2>6. CASE ~(f[m + 2] <= f[a])
      <3>1. \A k \in 1..((m + 1) + 1) : f[k] <= f[m + 2]
        BY <2>2, <2>3, <2>4, <2>6
      <3> QED
        BY <2>4, <3>1
    <2> QED
      BY <2>5, <2>6
  <1> HIDE DEF H
  <1>3. H = Nat
    BY <1>1, <1>2, SetInduction DEF H
  <1>4. n - 1 \in H /\ (n - 1) + 1 = n
    BY <1>3
  <1> QED
    BY <1>4 DEF H

Rises(f, p, n) == \A k, l \in 1..n : k < l => f[p[k]] <= f[p[l]]
OneEach(p, n) == p \in [1..n -> 1..n] /\ (\A k, l \in 1..n : p[k] = p[l] => k = l)
                 /\ \A m \in 1..n : \E k \in 1..n : p[k] = m

\* The largest goes to the end.
LEMMA SortOneMore ==
  ASSUME NEW n \in Nat, NEW f \in [1..(n + 1) -> Int],
         \A g \in [1..n -> Int] : \E q : OneEach(q, n) /\ Rises(g, q, n)
  PROVE  \E p : OneEach(p, n + 1) /\ Rises(f, p, n + 1)
  <1>1. PICK a \in 1..(n + 1) : \A k \in 1..(n + 1) : f[k] <= f[a]
    <2>1. n + 1 \in Nat \ {0}
      OBVIOUS
    <2> QED
      BY <2>1, LargestExists
  <1> DEFINE From(k) == IF k = a THEN n + 1 ELSE k
             g == [k \in 1..n |-> f[From(k)]]
  <1>2. \A k \in 1..n : From(k) \in 1..(n + 1) /\ From(k) # a
    OBVIOUS
  <1>3. g \in [1..n -> Int]
    BY <1>2
  <1>4. PICK q : OneEach(q, n) /\ Rises(g, q, n)
    BY <1>3
  <1> DEFINE p == [k \in 1..(n + 1) |-> IF k = n + 1 THEN a ELSE From(q[k])]
  <1>5. /\ q \in [1..n -> 1..n] /\ \A k, l \in 1..n : q[k] = q[l] => k = l
        /\ \A m \in 1..n : \E k \in 1..n : q[k] = m
    BY <1>4 DEF OneEach
  <1>6. \A k \in 1..(n + 1) : k \in 1..n \/ k = n + 1
    OBVIOUS
  <1>7. /\ p[n + 1] = a
        /\ \A k \in 1..n : p[k] = From(q[k]) /\ q[k] \in 1..n /\ k # n + 1
    <2>1. n + 1 \in 1..(n + 1) /\ \A k \in 1..n : k \in 1..(n + 1) /\ k # n + 1
      OBVIOUS
    <2>2. \A k \in 1..n : q[k] \in 1..n
      BY <1>5
    <2> HIDE DEF From
    <2> QED
      BY <2>1, <2>2
  <1>8. p \in [1..(n + 1) -> 1..(n + 1)]
    <2>1. \A k \in 1..n : From(q[k]) \in 1..(n + 1)
      BY <1>2, <1>5
    <2> HIDE DEF From
    <2> QED
      BY <1>6, <2>1
  <1> HIDE DEF p
  <1>9. ASSUME NEW k \in 1..(n + 1), NEW l \in 1..(n + 1), p[k] = p[l] PROVE k = l
    <2>1. \A x, y \in 1..n : From(x) = From(y) => x = y
      OBVIOUS
    <2> HIDE DEF From
    <2>2. CASE k \in 1..n /\ l \in 1..n
      <3>1. q[k] \in 1..n /\ q[l] \in 1..n /\ From(q[k]) = From(q[l])
        BY <1>7, <1>9, <2>2
      <3>2. q[k] = q[l]
        BY <2>1, <3>1
      <3> QED
        BY <1>5, <2>2, <3>2
    <2>3. CASE k = n + 1 \/ l = n + 1
      BY <1>2, <1>6, <1>7, <1>9, <2>3
    <2> QED
      BY <1>6, <2>2, <2>3
  <1>10. ASSUME NEW m \in 1..(n + 1) PROVE \E k \in 1..(n + 1) : p[k] = m
    <2>1. CASE m = a
      BY <1>7, <2>1
    <2>2. CASE m # a
      <3>1. PICK x \in 1..n : From(x) = m
        <4>1. CASE m = n + 1
          <5>1. a \in 1..n
            BY <2>2, <4>1
          <5> QED
            BY <4>1, <5>1
        <4>2. CASE m \in 1..n
          BY <2>2, <4>2
        <4> QED
          BY <1>6, <4>1, <4>2
      <3>2. PICK k \in 1..n : q[k] = x
        BY <1>5
      <3>3. k \in 1..(n + 1)
        OBVIOUS
      <3>4. p[k] = m
        BY <1>7, <3>1, <3>2, Zenon
      <3> QED
        BY <3>3, <3>4
    <2> QED
      BY <2>1, <2>2
  <1>11. ASSUME NEW k \in 1..(n + 1), NEW l \in 1..(n + 1), k < l PROVE f[p[k]] <= f[p[l]]
    <2>1. k \in 1..n
      BY <1>11
    <2>2. p[k] \in 1..(n + 1)
      BY <1>8
    <2>3. CASE l = n + 1
      BY <1>1, <1>7, <2>2, <2>3
    <2>4. CASE l \in 1..n
      <3>1. g[q[k]] <= g[q[l]]
        BY <1>4, <1>11, <2>1, <2>4 DEF Rises
      <3>2. g[q[k]] = f[p[k]] /\ g[q[l]] = f[p[l]]
        BY <1>7, <2>1, <2>4
      <3> QED
        BY <3>1, <3>2
    <2> QED
      BY <1>6, <2>3, <2>4
  <1>12. OneEach(p, n + 1)
    BY <1>8, <1>9, <1>10 DEF OneEach
  <1>13. Rises(f, p, n + 1)
    BY <1>11 DEF Rises
  <1> QED
    BY <1>12, <1>13

\* Any numbers can be sorted.
LEMMA SortExists ==
  ASSUME NEW n \in Nat, NEW f \in [1..n -> Int]
  PROVE  \E p : OneEach(p, n) /\ Rises(f, p, n)
  <1> DEFINE Sortable(m) == \A g \in [1..m -> Int] : \E p : OneEach(p, m) /\ Rises(g, p, m)
             H == {m \in Nat : Sortable(m)}
  <1>1. 0 \in H
    <2>1. 1..0 = {}
      OBVIOUS
    <2>2. \A g : OneEach(<<>>, 0) /\ Rises(g, <<>>, 0)
      BY <2>1 DEF OneEach, Rises
    <2> QED
      BY <2>2
  <1>2. ASSUME NEW m \in H PROVE m + 1 \in H
    <2>1. m \in Nat /\ m + 1 \in Nat /\ \A g \in [1..m -> Int] : \E p : OneEach(p, m) /\ Rises(g, p, m)
      OBVIOUS
    <2>2. ASSUME NEW g \in [1..(m + 1) -> Int] PROVE \E p : OneEach(p, m + 1) /\ Rises(g, p, m + 1)
      BY <2>1, SortOneMore, Zenon
    <2> QED
      BY <2>1, <2>2
  <1> HIDE DEF H
  <1>3. H = Nat
    BY <1>1, <1>2, SetInduction DEF H
  <1> QED
    BY <1>3 DEF H

\* sorted() keeps what is used, and how often.
LEMMA SortedKeeps ==
  ASSUME O!IsDescription(input), NEW u \in DOMAIN input.kind, NEW D, input.children[u] \in Seq(D)
  PROVE  /\ O!SortedChildren(u) \in Seq(D)
         /\ Items(O!SortedChildren(u)) = UsedBy(input, u)
         /\ \A o : Cardinality(Places(O!SortedChildren(u), o)) = Cardinality(Places(input.children[u], o))
  <1> DEFINE c == input.children[u]
             n == Len(c)
             Sorts(p) == \A k, l \in DOMAIN c : k < l => input.name[c[p[k]]] <= input.name[c[p[l]]]
             place == CHOOSE p \in O!Bijection(DOMAIN c, DOMAIN c) : Sorts(p)
             t == O!SortedChildren(u)
  <1>1. c \in Seq(D) /\ n \in Nat /\ DOMAIN c = 1..n /\ \A k \in 1..n : c[k] \in D
    BY LenProperties, ElementOfSeq
  <1>2. c \in Seq(DOMAIN input.kind) /\ input.name \in [DOMAIN input.kind -> Int]
    BY DEF O!IsDescription
  <1>3. t = [k \in DOMAIN c |-> c[place[k]]]
    BY DEF O!SortedChildren, O!get_children, O!get_name
  <1> HIDE DEF t
  <1>4. \E p \in O!Bijection(DOMAIN c, DOMAIN c) : Sorts(p)
    <2> DEFINE f == [k \in 1..n |-> input.name[c[k]]]
    <2>1. f \in [1..n -> Int]
      BY <1>1, <1>2
    <2>2. PICK p : OneEach(p, n) /\ Rises(f, p, n)
      BY <1>1, <2>1, SortExists
    <2>3. p \in O!Bijection(1..n, 1..n)
      BY <2>2 DEF OneEach, O!Bijection, O!Injection, O!Surjection, O!IsInjective
    <2>4. p \in [1..n -> 1..n]
      BY <2>2 DEF OneEach
    <2>5. Sorts(p)
      BY <1>1, <2>2, <2>4 DEF Rises
    <2> QED
      BY <1>1, <2>3, <2>5
  <1>5. place \in O!Bijection(1..n, 1..n)
    BY <1>1, <1>4
  <1>6. /\ place \in [1..n -> 1..n] /\ \A k, l \in 1..n : place[k] = place[l] => k = l
        /\ \A m \in 1..n : \E k \in 1..n : place[k] = m
    BY <1>5 DEF O!Bijection, O!Injection, O!Surjection, O!IsInjective
  <1> HIDE DEF place
  <1>7. t \in Seq(D) /\ DOMAIN t = 1..n
    <2>1. t \in [1..n -> D]
      BY <1>1, <1>3, <1>6
    <2> QED
      BY <1>1, <2>1, SeqDef
  <1>8. Items(t) = UsedBy(input, u)
    <2>1. ASSUME NEW k \in 1..n PROVE t[k] \in Items(c)
      BY <1>1, <1>3, <1>6 DEF Items
    <2>2. ASSUME NEW k \in 1..n PROVE c[k] \in Items(t)
      <3>1. PICK l \in 1..n : place[l] = k
        BY <1>6
      <3>2. t[l] = c[k]
        BY <1>3, <3>1
      <3> QED
        BY <1>7, <3>2 DEF Items
    <2> QED
      BY <1>1, <1>7, <2>1, <2>2 DEF Items, UsedBy
  <1>9. ASSUME NEW o PROVE Cardinality(Places(t, o)) = Cardinality(Places(c, o))
    <2> DEFINE f == [k \in Places(t, o) |-> place[k]]
    <2>1. Places(t, o) = {k \in 1..n : c[place[k]] = o} /\ Places(c, o) = {k \in 1..n : c[k] = o}
      BY <1>1, <1>3, <1>7 DEF Places
    <2>2. f \in [Places(t, o) -> Places(c, o)]
      BY <1>6, <2>1
    <2>3. \A a, b \in Places(t, o) : f[a] = f[b] => a = b
      BY <1>6, <2>1
    <2>4. \A y \in Places(c, o) : \E a \in Places(t, o) : f[a] = y
      BY <1>6, <2>1
    <2>5. IsFiniteSet(Places(t, o))
      BY <1>7, PlacesFinite
    <2> HIDE DEF f
    <2> QED
      BY <2>2, <2>3, <2>4, <2>5, OneToOne
  <1> QED
    BY <1>7, <1>8, <1>9 DEF t

------------------------------------------------------------------------------
(* The three walks: validating, counting, ordering.                        *)

\* Names are those of the objects seen, and none is an enum's.
Validating(i, names, stack) ==
  /\ Stacked(i, Items(names), stack)
  /\ \A n \in DOMAIN names : i.kind[names[n]] # "enum" /\ i.name[names[n]] = n

\* What validate_duplicates() leaves: an object is known by its name.
Distinct(i) ==
  /\ \A o, p \in Reach(i) : i.name[o] = i.name[p] => o = p
  /\ \A o \in Reach(i) : i.kind[o] # "enum"

\* An object of the name that was seen, or one of a new name.
LEMMA ValidateKeeps ==
  ASSUME NEW i, O!IsDescription(i), NEW names, NEW stack, Validating(i, names, stack),
         stack # <<>>, i.kind[Top(stack)] # "enum"
  PROVE  /\ i.name[Top(stack)] \in DOMAIN names /\ names[i.name[Top(stack)]] = Top(stack) =>
              Validating(i, names, Below(stack))
         /\ i.name[Top(stack)] \notin DOMAIN names =>
              Validating(i, O!With(names, i.name[Top(stack)], Top(stack)),
                         Below(stack) \o i.children[Top(stack)])
  <1> DEFINE o == Top(stack)
             n == i.name[o]
             more == O!With(names, n, o)
  <1>1. Stacked(i, Items(names), stack)
    BY DEF Validating
  <1>2. ASSUME n \in DOMAIN names, names[n] = o PROVE Validating(i, names, Below(stack))
    <2>1. o \in Items(names)
      BY <1>2 DEF Items
    <2> QED
      BY <1>1, <2>1, StackSkips DEF Validating
  <1>3. ASSUME n \notin DOMAIN names PROVE Validating(i, more, Below(stack) \o i.children[o])
    <2>1. Stacked(i, Items(names) \cup {o}, Below(stack) \o i.children[o])
      BY <1>1, StackSees
    <2>2. /\ Items(more) = Items(names) \cup {o} /\ DOMAIN more = DOMAIN names \cup {n}
          /\ \A k \in DOMAIN more : more[k] = IF k = n THEN o ELSE names[k]
      <3>1. more = [k \in DOMAIN names \cup {n} |-> IF k = n THEN o ELSE names[k]]
        BY DEF O!With
      <3> HIDE DEF more, n, o
      <3>2. /\ DOMAIN more = DOMAIN names \cup {n}
            /\ \A k \in DOMAIN more : more[k] = IF k = n THEN o ELSE names[k]
        BY <3>1
      <3>3. Items(more) = Items(names) \cup {o}
        BY <1>3, <3>2 DEF Items
      <3> QED
        BY <3>2, <3>3
    <2> HIDE DEF more
    <2>3. \A k \in DOMAIN more : i.kind[more[k]] # "enum" /\ i.name[more[k]] = k
      BY <2>2 DEF Validating
    <2> QED
      BY <2>1, <2>2, <2>3 DEF Validating
  <1> QED
    BY <1>2, <1>3

\* What a validation without an error has shown.
LEMMA ValidatedDistinct ==
  ASSUME NEW i, NEW names, Validating(i, names, <<>>)
  PROVE  Distinct(i)
  <1>1. Items(names) = Reach(i)
    BY StackEnds DEF Validating
  <1>2. \A o \in Reach(i) : \E n \in DOMAIN names : o = names[n]
    BY <1>1 DEF Items
  <1>3. \A o \in Reach(i) : i.kind[o] # "enum" /\ o = names[i.name[o]]
    BY <1>2 DEF Validating
  <1> QED
    BY <1>3 DEF Distinct

\* The objects counted, and what a count is: the uses by heads and by objects seen,
\* but for those still on the stack.
Counted(i, counts) == {o \in Reach(i) : i.name[o] \in DOMAIN counts}
CountOf(i, counts, o) == IF o \in Counted(i, counts) THEN counts[i.name[o]] ELSE 0
Counting(i, counts, stack) ==
  /\ Stacked(i, Counted(i, counts), stack)
  /\ \A o \in Reach(i) :
       /\ IsFiniteSet(Uses(i, Counted(i, counts), o))
       /\ o \in Counted(i, counts) => counts[i.name[o]] \in Nat \ {0}
       /\ CountOf(i, counts, o) + Cardinality(Places(stack, o)) =
            Cardinality(Places(i.heads, o)) + Cardinality(Uses(i, Counted(i, counts), o))

\* Counting begins with no counts.
LEMMA CountBegins ==
  ASSUME NEW i, O!IsDescription(i)
  PROVE  Counting(i, <<>>, i.heads)
  <1>1. Counted(i, <<>>) = {}
    BY DEF Counted
  <1>2. ASSUME NEW o PROVE IsFiniteSet(Uses(i, {}, o)) /\ Cardinality(Uses(i, {}, o)) = 0
    BY FS_EmptySet DEF Uses
  <1>3. ASSUME NEW o \in Reach(i)
        PROVE  CountOf(i, <<>>, o) = 0 /\ Cardinality(Places(i.heads, o)) \in Nat
    BY <1>1, ReachClosed, PlacesFinite DEF CountOf
  <1>4. Stacked(i, Counted(i, <<>>), i.heads)
    BY <1>1, StackBegins
  <1>5. ASSUME NEW o \in Reach(i)
        PROVE  /\ IsFiniteSet(Uses(i, Counted(i, <<>>), o)) /\ o \notin Counted(i, <<>>)
               /\ CountOf(i, <<>>, o) + Cardinality(Places(i.heads, o)) =
                    Cardinality(Places(i.heads, o)) + Cardinality(Uses(i, Counted(i, <<>>), o))
    <2>1. PICK h \in Nat : h = Cardinality(Places(i.heads, o))
      BY <1>3
    <2>2. Cardinality(Uses(i, Counted(i, <<>>), o)) = 0 /\ IsFiniteSet(Uses(i, Counted(i, <<>>), o))
      BY <1>1, <1>2
    <2> QED
      BY <1>1, <1>3, <2>1, <2>2
  <1> QED
    BY <1>4, <1>5 DEF Counting

\* One more use of an object that has been seen, or one of a new object.
LEMMA CountKeeps ==
  ASSUME NEW i, O!IsDescription(i), Distinct(i), NEW counts, NEW stack,
         Counting(i, counts, stack), stack # <<>>
  PROVE  /\ i.name[Top(stack)] \in DOMAIN counts =>
              Counting(i, [counts EXCEPT ![i.name[Top(stack)]] = @ + 1], Below(stack))
         /\ i.name[Top(stack)] \notin DOMAIN counts =>
              Counting(i, O!With(counts, i.name[Top(stack)], 1),
                       Below(stack) \o i.children[Top(stack)])
  <1> DEFINE t == Top(stack)
             n == i.name[t]
             seen == Counted(i, counts)
  <1>1. Stacked(i, seen, stack) /\ t \in Reach(i) /\ stack \in Seq(Reach(i))
    BY StackSees DEF Counting, Stacked
  <1>2. /\ Below(stack) \in Seq(Reach(i))
        /\ i.children[t] \in Seq(Reach(i)) /\ i.heads \in Seq(Reach(i))
    BY <1>1, BelowTop, ReachClosed
  <1>3. ASSUME NEW o \in Reach(i)
        PROVE  /\ Cardinality(Places(stack, o)) \in Nat /\ Cardinality(Places(Below(stack), o)) \in Nat
               /\ Cardinality(Places(i.heads, o)) \in Nat /\ Cardinality(Places(i.children[t], o)) \in Nat
               /\ Cardinality(Places(stack, o)) =
                    Cardinality(Places(Below(stack), o)) + (IF o = t THEN 1 ELSE 0)
               /\ Cardinality(Uses(i, seen, o)) \in Nat /\ IsFiniteSet(Uses(i, seen, o))
    <2>1. IsFiniteSet(Uses(i, seen, o))
      BY DEF Counting
    <2> QED
      BY <1>1, <1>2, <2>1, PlacesFinite, PlacesBelow, FS_CardinalityType
  <1>4. ASSUME n \in DOMAIN counts
        PROVE  Counting(i, [counts EXCEPT ![n] = @ + 1], Below(stack))
    <2> DEFINE more == [counts EXCEPT ![n] = @ + 1]
    <2>1. /\ DOMAIN more = DOMAIN counts
          /\ \A k \in DOMAIN counts : more[k] = IF k = n THEN counts[k] + 1 ELSE counts[k]
      BY <1>4
    <2> HIDE DEF more
    <2>2. Counted(i, more) = seen /\ t \in seen
      BY <1>1, <1>4, <2>1 DEF Counted
    <2>3. Stacked(i, seen, Below(stack))
      BY <1>1, <2>2, StackSkips
    <2>4. ASSUME NEW o \in Reach(i)
          PROVE  /\ o \in seen => more[i.name[o]] \in Nat \ {0}
                 /\ CountOf(i, more, o) + Cardinality(Places(Below(stack), o)) =
                      Cardinality(Places(i.heads, o)) + Cardinality(Uses(i, seen, o))
      <3>1. o \in seen => i.name[o] \in DOMAIN counts /\ counts[i.name[o]] \in Nat \ {0}
        BY DEF Counting, Counted
      <3>2. CountOf(i, counts, o) + Cardinality(Places(stack, o)) =
              Cardinality(Places(i.heads, o)) + Cardinality(Uses(i, seen, o))
        BY DEF Counting
      <3>3. i.name[o] = n <=> o = t
        BY <1>1 DEF Distinct
      <3>4. o \in seen => more[i.name[o]] = counts[i.name[o]] + (IF o = t THEN 1 ELSE 0)
        BY <2>1, <3>1, <3>3
      <3>5. CountOf(i, counts, o) \in Nat
        BY <3>1 DEF CountOf
      <3>6. CountOf(i, more, o) = CountOf(i, counts, o) + (IF o = t THEN 1 ELSE 0)
        BY <2>2, <3>1, <3>4, <3>5 DEF CountOf
      <3>7. o \in seen => more[i.name[o]] \in Nat \ {0}
        BY <3>1, <3>4
      <3>8. CountOf(i, more, o) + Cardinality(Places(Below(stack), o)) =
              Cardinality(Places(i.heads, o)) + Cardinality(Uses(i, seen, o))
        BY <1>3, <3>2, <3>5, <3>6
      <3> QED
        BY <3>7, <3>8
    <2>5. Counting(i, more, Below(stack))
      BY <1>3, <2>2, <2>3, <2>4 DEF Counting
    <2> QED
      BY <2>5 DEF more
  <1>5. ASSUME n \notin DOMAIN counts
        PROVE  Counting(i, O!With(counts, n, 1), Below(stack) \o i.children[t])
    <2> DEFINE more == O!With(counts, n, 1)
               next == Below(stack) \o i.children[t]
    <2>1. /\ DOMAIN more = DOMAIN counts \cup {n}
          /\ \A k \in DOMAIN more : more[k] = IF k = n THEN 1 ELSE counts[k]
      <3>1. more = [k \in DOMAIN counts \cup {n} |-> IF k = n THEN 1 ELSE counts[k]]
        BY DEF O!With
      <3> HIDE DEF more, n
      <3> QED
        BY <3>1
    <2> HIDE DEF more
    <2>2. Counted(i, more) = seen \cup {t} /\ t \notin seen
      BY <1>1, <1>5, <2>1 DEF Counted, Distinct
    <2>3. Stacked(i, seen \cup {t}, next)
      BY <1>1, StackSees
    <2>4. ASSUME NEW o \in Reach(i)
          PROVE  /\ IsFiniteSet(Uses(i, seen \cup {t}, o))
                 /\ o \in seen \cup {t} => more[i.name[o]] \in Nat \ {0}
                 /\ CountOf(i, more, o) + Cardinality(Places(next, o)) =
                      Cardinality(Places(i.heads, o)) + Cardinality(Uses(i, seen \cup {t}, o))
      <3>1. o \in seen => i.name[o] \in DOMAIN counts /\ counts[i.name[o]] \in Nat \ {0}
        BY DEF Counting, Counted
      <3>2. CountOf(i, counts, o) + Cardinality(Places(stack, o)) =
              Cardinality(Places(i.heads, o)) + Cardinality(Uses(i, seen, o))
        BY DEF Counting
      <3>3. i.name[o] = n <=> o = t
        BY <1>1 DEF Distinct
      <3>4. /\ o \in seen => o # t /\ more[i.name[o]] = counts[i.name[o]]
            /\ o = t => more[i.name[o]] = 1
        BY <2>1, <2>2, <3>1, <3>3
      <3>5. CountOf(i, counts, o) \in Nat
        BY <3>1 DEF CountOf
      <3>6. CountOf(i, more, o) = CountOf(i, counts, o) + (IF o = t THEN 1 ELSE 0)
        BY <2>2, <3>1, <3>4, <3>5 DEF CountOf
      <3>7. o \in seen \cup {t} => more[i.name[o]] \in Nat \ {0}
        BY <3>1, <3>4
      <3>8. Cardinality(Places(next, o)) =
              Cardinality(Places(Below(stack), o)) + Cardinality(Places(i.children[t], o))
        BY <1>2, PlacesConcat
      <3>9. /\ IsFiniteSet(Uses(i, seen \cup {t}, o))
            /\ Cardinality(Uses(i, seen \cup {t}, o)) =
                 Cardinality(Uses(i, seen, o)) + Cardinality(Places(i.children[t], o))
        BY <1>2, <1>3, <2>2, UsesAdd
      <3> HIDE DEF next
      <3>10. CountOf(i, more, o) + Cardinality(Places(next, o)) =
              Cardinality(Places(i.heads, o)) + Cardinality(Uses(i, seen \cup {t}, o))
        <4>1. PICK a, b, c, d, e \in Nat :
                /\ a = Cardinality(Places(Below(stack), o)) /\ b = Cardinality(Places(i.children[t], o))
                /\ c = Cardinality(Uses(i, seen, o)) /\ d = Cardinality(Places(i.heads, o))
                /\ e = CountOf(i, counts, o)
          BY <1>3, <3>5
        <4>2. PICK m \in {0, 1} : m = IF o = t THEN 1 ELSE 0
          OBVIOUS
        <4>3. e + (a + m) = d + c
          BY <1>3, <3>2, <4>1, <4>2
        <4>4. (e + m) + (a + b) = d + (c + b)
          BY <4>3
        <4> QED
          BY <3>6, <3>8, <3>9, <4>1, <4>2, <4>4
      <3> QED
        BY <3>7, <3>9, <3>10
    <2> HIDE DEF next
    <2>5. Counting(i, more, next)
      BY <2>2, <2>3, <2>4 DEF Counting
    <2> QED
      BY <2>5 DEF more, next
  <1> QED
    BY <1>4, <1>5

\* The countdown of an object: its uses by the stack and by objects not in the order.
Remaining(i, ord) == Reach(i) \ Items(ord)
Ordering(i, counts, stack, ord) ==
  /\ stack \in Seq(Reach(i))
  /\ \A o \in Reach(i) :
       /\ IsFiniteSet(Uses(i, Remaining(i, ord), o))
       /\ i.name[o] \in DOMAIN counts
       /\ counts[i.name[o]] =
            Cardinality(Places(stack, o)) + Cardinality(Uses(i, Remaining(i, ord), o))
       /\ counts[i.name[o]] = 0 <=> o \in Items(ord)

\* Every object is in the order once, behind all that use it.
UsersFirst(i, ord) ==
  /\ ord \in Seq(Reach(i))
  /\ \A k, l \in DOMAIN ord : ord[k] = ord[l] => k = l
  /\ \A k \in DOMAIN ord, u \in Reach(i) :
       ord[k] \in UsedBy(i, u) => \E l \in 1..(k - 1) : ord[l] = u

\* Complete counts are what the countdown begins with.
LEMMA OrderBegins ==
  ASSUME NEW i, O!IsDescription(i), NEW counts, Counting(i, counts, <<>>)
  PROVE  Ordering(i, counts, i.heads, <<>>) /\ UsersFirst(i, <<>>)
  <1>1. Counted(i, counts) = Reach(i)
    BY StackEnds DEF Counting
  <1>2. Items(<<>>) = {} /\ Remaining(i, <<>>) = Reach(i)
    BY DEF Items, Remaining
  <1>3. i.heads \in Seq(Reach(i))
    BY ReachClosed
  <1>4. ASSUME NEW o \in Reach(i)
        PROVE  /\ IsFiniteSet(Uses(i, Reach(i), o))
               /\ i.name[o] \in DOMAIN counts /\ counts[i.name[o]] \in Nat \ {0}
               /\ counts[i.name[o]] =
                    Cardinality(Places(i.heads, o)) + Cardinality(Uses(i, Reach(i), o))
    <2>1. /\ i.name[o] \in DOMAIN counts /\ counts[i.name[o]] \in Nat \ {0}
          /\ IsFiniteSet(Uses(i, Reach(i), o)) /\ CountOf(i, counts, o) = counts[i.name[o]]
      BY <1>1 DEF Counting, Counted, CountOf
    <2>2. CountOf(i, counts, o) + Cardinality(Places(<<>>, o)) =
            Cardinality(Places(i.heads, o)) + Cardinality(Uses(i, Reach(i), o))
      BY <1>1 DEF Counting
    <2>3. Cardinality(Places(<<>>, o)) = 0
      BY FS_EmptySet DEF Places
    <2> QED
      BY <2>1, <2>2, <2>3
  <1>5. Ordering(i, counts, i.heads, <<>>)
    BY <1>2, <1>3, <1>4 DEF Ordering
  <1>6. UsersFirst(i, <<>>)
    BY DEF UsersFirst
  <1> QED
    BY <1>5, <1>6

\* The countdown of the object on top, after which it is not in the order yet.
LEMMA CountDown ==
  ASSUME NEW i, O!IsDescription(i), Distinct(i), NEW counts, NEW stack, NEW ord,
         Ordering(i, counts, stack, ord), stack # <<>>, NEW less,
         less = [counts EXCEPT ![i.name[Top(stack)]] = @ - 1]
  PROVE  /\ Top(stack) \in Remaining(i, ord) /\ Below(stack) \in Seq(Reach(i))
         /\ less[i.name[Top(stack)]] \in Nat
         /\ \A o \in Reach(i) :
              /\ i.name[o] \in DOMAIN less /\ Cardinality(Places(Below(stack), o)) \in Nat
              /\ Cardinality(Uses(i, Remaining(i, ord), o)) \in Nat
              /\ less[i.name[o]] =
                   Cardinality(Places(Below(stack), o)) + Cardinality(Uses(i, Remaining(i, ord), o))
              /\ o # Top(stack) => less[i.name[o]] = counts[i.name[o]]
  <1> DEFINE t == Top(stack)
  <1>1. /\ stack \in Seq(Reach(i)) /\ t \in Reach(i) /\ Below(stack) \in Seq(Reach(i))
        /\ Items(stack) = Items(Below(stack)) \cup {t}
    BY BelowTop DEF Ordering
  <1>2. ASSUME NEW o \in Reach(i)
        PROVE  /\ i.name[o] \in DOMAIN less /\ Cardinality(Places(Below(stack), o)) \in Nat
               /\ Cardinality(Uses(i, Remaining(i, ord), o)) \in Nat
               /\ less[i.name[o]] =
                    Cardinality(Places(Below(stack), o)) + Cardinality(Uses(i, Remaining(i, ord), o))
               /\ o # t => less[i.name[o]] = counts[i.name[o]]
    <2>1. i.name[o] = i.name[t] <=> o = t
      BY <1>1 DEF Distinct
    <2>2. i.name[o] \in DOMAIN counts /\ IsFiniteSet(Uses(i, Remaining(i, ord), o))
      BY DEF Ordering
    <2>3. less[i.name[o]] = IF o = t THEN counts[i.name[o]] - 1 ELSE counts[i.name[o]]
      BY <2>1, <2>2
    <2>4. PICK a \in Nat, b \in Nat :
            a = Cardinality(Places(Below(stack), o)) /\ b = Cardinality(Uses(i, Remaining(i, ord), o))
      BY <1>1, <2>2, PlacesFinite, FS_CardinalityType
    <2>5. Cardinality(Places(stack, o)) = a + (IF o = t THEN 1 ELSE 0)
      BY <1>1, <2>4, PlacesBelow
    <2>6. counts[i.name[o]] = (a + (IF o = t THEN 1 ELSE 0)) + b
      BY <2>4, <2>5 DEF Ordering
    <2>7. less[i.name[o]] = a + b
      BY <2>3, <2>6
    <2> QED
      BY <2>2, <2>3, <2>4, <2>7
  <1>3. t \notin Items(ord)
    <2>1. /\ counts[i.name[t]] = Cardinality(Places(stack, t)) + Cardinality(Uses(i, Remaining(i, ord), t))
          /\ counts[i.name[t]] = 0 <=> t \in Items(ord)
      BY <1>1 DEF Ordering
    <2>2. Cardinality(Places(stack, t)) \in Nat /\ Cardinality(Places(stack, t)) # 0
      BY <1>1, PlacesFinite
    <2>3. Cardinality(Uses(i, Remaining(i, ord), t)) \in Nat
      BY <1>1, <1>2
    <2>4. PICK a \in Nat \ {0}, b \in Nat :
            a = Cardinality(Places(stack, t)) /\ b = Cardinality(Uses(i, Remaining(i, ord), t))
      BY <2>2, <2>3
    <2>5. counts[i.name[t]] # 0
      BY <2>1, <2>4
    <2> QED
      BY <2>1, <2>5
  <1>4. less[i.name[t]] \in Nat
    BY <1>1, <1>2
  <1> QED
    BY <1>1, <1>2, <1>3, <1>4 DEF Remaining

\* An object that is used by others still.
LEMMA OrderSkips ==
  ASSUME NEW i, O!IsDescription(i), Distinct(i), NEW counts, NEW stack, NEW ord,
         Ordering(i, counts, stack, ord), stack # <<>>, NEW less,
         less = [counts EXCEPT ![i.name[Top(stack)]] = @ - 1],
         less[i.name[Top(stack)]] # 0
  PROVE  Ordering(i, less, Below(stack), ord)
  <1>1. Top(stack) \in Remaining(i, ord) /\ Below(stack) \in Seq(Reach(i))
    BY CountDown
  <1>2. ASSUME NEW o \in Reach(i)
        PROVE  /\ IsFiniteSet(Uses(i, Remaining(i, ord), o))
               /\ i.name[o] \in DOMAIN less
               /\ less[i.name[o]] =
                    Cardinality(Places(Below(stack), o)) + Cardinality(Uses(i, Remaining(i, ord), o))
               /\ less[i.name[o]] = 0 <=> o \in Items(ord)
    <2>1. /\ i.name[o] \in DOMAIN less
          /\ less[i.name[o]] =
               Cardinality(Places(Below(stack), o)) + Cardinality(Uses(i, Remaining(i, ord), o))
          /\ o # Top(stack) => less[i.name[o]] = counts[i.name[o]]
      BY CountDown
    <2>2. /\ IsFiniteSet(Uses(i, Remaining(i, ord), o))
          /\ counts[i.name[o]] = 0 <=> o \in Items(ord)
      BY DEF Ordering
    <2> QED
      BY <1>1, <2>1, <2>2 DEF Remaining
  <1> QED
    BY <1>1, <1>2 DEF Ordering

\* The last use of an object: all its users are in the order, and it comes next.
LEMMA OrderEmits ==
  ASSUME O!IsDescription(input), Distinct(input), NEW counts, NEW stack, NEW ord,
         Ordering(input, counts, stack, ord), UsersFirst(input, ord), stack # <<>>, NEW less,
         less = [counts EXCEPT ![input.name[Top(stack)]] = @ - 1],
         less[input.name[Top(stack)]] = 0
  PROVE  /\ Top(stack) \in Remaining(input, ord)
         /\ \A u \in Reach(input) : Top(stack) \in UsedBy(input, u) => u \in Items(ord)
         /\ Ordering(input, less, Below(stack) \o O!SortedChildren(Top(stack)), Append(ord, Top(stack)))
         /\ UsersFirst(input, Append(ord, Top(stack)))
  <1> DEFINE t == Top(stack)
             next == Below(stack) \o O!SortedChildren(t)
             more == Append(ord, t)
             rest == Remaining(input, ord)
             left_over == Remaining(input, more)
  <1>1. /\ t \in rest /\ Below(stack) \in Seq(Reach(input))
        /\ \A o \in Reach(input) :
             /\ input.name[o] \in DOMAIN less /\ Cardinality(Places(Below(stack), o)) \in Nat
             /\ Cardinality(Uses(input, rest, o)) \in Nat
             /\ less[input.name[o]] =
                  Cardinality(Places(Below(stack), o)) + Cardinality(Uses(input, rest, o))
             /\ o # t => less[input.name[o]] = counts[input.name[o]]
    BY CountDown
  <1>2. t \in Reach(input) /\ t \notin Items(ord) /\ Reach(input) \subseteq DOMAIN input.kind
        /\ \A u \in Reach(input) : input.children[u] \in Seq(Reach(input))
    BY <1>1, ReachClosed DEF Remaining
  <1>3. ASSUME NEW u \in Reach(input), t \in UsedBy(input, u) PROVE u \in Items(ord)
    <2>1. Cardinality(Uses(input, rest, t)) = 0
      <3>1. PICK a \in Nat, b \in Nat :
              a = Cardinality(Places(Below(stack), t)) /\ b = Cardinality(Uses(input, rest, t))
        BY <1>1, <1>2
      <3>2. a + b = 0
        BY <1>1, <1>2, <3>1
      <3> QED
        BY <3>1, <3>2
    <2>2. IsFiniteSet(Uses(input, rest, t)) /\ rest \subseteq Reach(input)
      BY <1>2 DEF Ordering, Remaining
    <2>3. \A v \in rest : t \notin UsedBy(input, v)
      BY <1>2, <2>1, <2>2, UsesNone
    <2> QED
      BY <1>3, <2>3 DEF Remaining
  <1>4. /\ ord \in Seq(Reach(input)) /\ Len(ord) \in Nat /\ DOMAIN ord = 1..Len(ord)
        /\ more \in Seq(Reach(input)) /\ DOMAIN more = 1..(Len(ord) + 1)
        /\ more[Len(ord) + 1] = t /\ \A k \in 1..Len(ord) : more[k] = ord[k]
    BY <1>2, LenProperties, AppendProperties DEF UsersFirst
  <1>5. \A k \in 1..(Len(ord) + 1) : k \in 1..Len(ord) \/ k = Len(ord) + 1
    <2>1. PICK n \in Nat : n = Len(ord)
      BY <1>4
    <2> QED
      BY <2>1
  <1>6. Len(ord) + 1 \in 1..(Len(ord) + 1) /\ \A k \in 1..Len(ord) : k \in 1..(Len(ord) + 1)
    <2>1. PICK n \in Nat : n = Len(ord)
      BY <1>4
    <2> QED
      BY <2>1
  <1> HIDE DEF more
  <1>7. Items(more) = Items(ord) \cup {t}
    <2>1. ASSUME NEW k \in 1..Len(ord) PROVE more[k] \in Items(ord)
      BY <1>4 DEF Items
    <2>2. ASSUME NEW x \in Items(more) PROVE x \in Items(ord) \cup {t}
      <3>1. PICK k \in 1..(Len(ord) + 1) : x = more[k]
        BY <1>4 DEF Items
      <3> QED
        BY <1>4, <1>5, <2>1, <3>1
    <2>3. ASSUME NEW x \in Items(ord) PROVE x \in Items(more)
      <3>1. PICK k \in 1..Len(ord) : x = ord[k]
        BY <1>4 DEF Items
      <3>2. k \in DOMAIN more /\ x = more[k]
        BY <1>4, <1>6, <3>1
      <3> QED
        BY <3>2 DEF Items
    <2>4. t \in Items(more)
      BY <1>4, <1>6 DEF Items
    <2> QED
      BY <2>2, <2>3, <2>4
  <1>8. /\ left_over \cup {t} = rest /\ t \notin left_over /\ left_over \subseteq Reach(input)
    BY <1>1, <1>7 DEF Remaining
  <1>9. /\ O!SortedChildren(t) \in Seq(Reach(input)) /\ next \in Seq(Reach(input))
        /\ \A o : Cardinality(Places(O!SortedChildren(t), o)) = Cardinality(Places(input.children[t], o))
    BY <1>1, <1>2, SortedKeeps, ItemsConcat
  <1>10. ASSUME NEW o \in Reach(input)
         PROVE  /\ IsFiniteSet(Uses(input, left_over, o))
                /\ input.name[o] \in DOMAIN less
                /\ less[input.name[o]] =
                     Cardinality(Places(next, o)) + Cardinality(Uses(input, left_over, o))
                /\ less[input.name[o]] = 0 <=> o \in Items(more)
    <2>1. IsFiniteSet(Uses(input, left_over, o))
      <3>1. Uses(input, left_over, o) \subseteq Uses(input, rest, o)
        BY <1>8 DEF Uses
      <3>2. IsFiniteSet(Uses(input, rest, o))
        BY DEF Ordering
      <3> QED
        BY <3>1, <3>2, FS_Subset
    <2>2. /\ Cardinality(Uses(input, left_over, o)) \in Nat
          /\ Cardinality(Uses(input, rest, o)) =
               Cardinality(Uses(input, left_over, o)) + Cardinality(Places(input.children[t], o))
      <3>1. input.children[t] \in Seq(Reach(input))
        BY <1>2
      <3>2. t \notin left_over /\ rest = left_over \cup {t}
        BY <1>8
      <3> HIDE DEF t, rest, left_over
      <3>3. /\ Cardinality(Uses(input, left_over, o)) \in Nat
            /\ Cardinality(Uses(input, left_over \cup {t}, o)) =
                 Cardinality(Uses(input, left_over, o)) + Cardinality(Places(input.children[t], o))
        BY <2>1, <3>1, <3>2, UsesAdd
      <3> QED
        BY <3>2, <3>3
    <2>3. Cardinality(Places(next, o)) =
            Cardinality(Places(Below(stack), o)) + Cardinality(Places(input.children[t], o))
      BY <1>1, <1>9, PlacesConcat
    <2>4. Cardinality(Places(input.children[t], o)) \in Nat
      BY <1>2, PlacesFinite
    <2>5. less[input.name[o]] = Cardinality(Places(next, o)) + Cardinality(Uses(input, left_over, o))
      <3>1. PICK a, b, c \in Nat :
              /\ a = Cardinality(Places(Below(stack), o)) /\ b = Cardinality(Places(input.children[t], o))
              /\ c = Cardinality(Uses(input, left_over, o))
        BY <1>1, <2>2, <2>4
      <3>2. less[input.name[o]] = a + (c + b)
        BY <1>1, <2>2, <3>1
      <3>3. a + (c + b) = (a + b) + c
        OBVIOUS
      <3> QED
        BY <2>3, <3>1, <3>2, <3>3
    <2>6. less[input.name[o]] = 0 <=> o \in Items(more)
      <3>1. counts[input.name[o]] = 0 <=> o \in Items(ord)
        BY DEF Ordering
      <3> QED
        BY <1>1, <1>7, <3>1
    <2> QED
      BY <1>1, <2>1, <2>5, <2>6
  <1>11. Ordering(input, less, next, more)
    BY <1>9, <1>10 DEF Ordering
  <1>12. ASSUME NEW k \in DOMAIN more, NEW l \in DOMAIN more, more[k] = more[l] PROVE k = l
    <2>1. \A m \in 1..Len(ord) : ord[m] # t
      BY <1>2, <1>4 DEF Items
    <2>2. \A m, n \in 1..Len(ord) : ord[m] = ord[n] => m = n
      BY <1>4 DEF UsersFirst
    <2> QED
      BY <1>4, <1>5, <1>12, <2>1, <2>2
  <1>13. ASSUME NEW k \in DOMAIN more, NEW u \in Reach(input), more[k] \in UsedBy(input, u)
         PROVE  \E l \in 1..(k - 1) : more[l] = u
    <2>1. CASE k \in 1..Len(ord)
      <3>1. PICK l \in 1..(k - 1) : ord[l] = u
        BY <1>4, <1>13, <2>1 DEF UsersFirst
      <3>2. l \in 1..Len(ord)
        <4>1. PICK n \in Nat : n = Len(ord)
          BY <1>4
        <4> QED
          BY <2>1, <4>1
      <3>3. more[l] = u
        BY <1>4, <3>1, <3>2
      <3> QED
        BY <3>3
    <2>2. CASE k = Len(ord) + 1
      <3>1. u \in Items(ord)
        BY <1>3, <1>4, <1>13, <2>2
      <3>2. PICK l \in 1..Len(ord) : ord[l] = u
        BY <1>4, <3>1 DEF Items
      <3>3. l \in 1..(k - 1)
        <4>1. PICK n \in Nat : n = Len(ord)
          BY <1>4
        <4> QED
          BY <2>2, <3>2, <4>1
      <3>4. more[l] = u
        BY <1>4, <3>2
      <3> QED
        BY <3>3, <3>4
    <2> QED
      BY <1>4, <1>5, <1>13, <2>1, <2>2
  <1>14. UsersFirst(input, more)
    BY <1>4, <1>12, <1>13 DEF UsersFirst
  <1> QED
    BY <1>1, <1>3, <1>11, <1>14 DEF more

\* When the stack is empty nothing is missing: an object that is used by no other
\* that is missing would have a countdown of 0.
LEMMA OrderEnds ==
  ASSUME NEW i, O!IsDescription(i), NEW counts, NEW ord,
         Ordering(i, counts, <<>>, ord), UsersFirst(i, ord)
  PROVE  Items(ord) = Reach(i)
  <1>1. SUFFICES ASSUME Remaining(i, ord) # {} PROVE FALSE
    BY DEF Remaining, UsersFirst, Items
  <1>2. Reach(i) \subseteq DOMAIN i.kind /\ \A u \in Reach(i) : i.children[u] \in Seq(Reach(i))
    BY ReachClosed
  <1>3. Remaining(i, ord) \in (SUBSET DOMAIN i.kind) \ {{}}
    BY <1>1, <1>2 DEF Remaining
  <1>4. PICK o \in Remaining(i, ord) : \A u \in Remaining(i, ord) : o \notin UsedBy(i, u)
    <2>1. \A used \in (SUBSET DOMAIN i.kind) \ {{}} :
            \E o \in used : \A user \in used : o \notin UsedBy(i, user)
      BY DEF O!IsDescription, O!ToSet, UsedBy, Items
    <2> QED
      BY <1>3, <2>1
  <1>5. o \in Reach(i) /\ o \notin Items(ord)
    BY DEF Remaining
  <1>6. Cardinality(Uses(i, Remaining(i, ord), o)) = 0
    <2>1. IsFiniteSet(Uses(i, Remaining(i, ord), o)) /\ Remaining(i, ord) \subseteq Reach(i)
      BY <1>5 DEF Ordering, Remaining
    <2> QED
      BY <1>2, <1>4, <2>1, UsesNone
  <1>7. Cardinality(Places(<<>>, o)) = 0
    BY FS_EmptySet DEF Places
  <1>8. counts[i.name[o]] = 0
    BY <1>5, <1>6, <1>7 DEF Ordering
  <1> QED
    BY <1>5, <1>8 DEF Ordering

------------------------------------------------------------------------------
(* The rendering, from the end of the order.                               *)

\* The objects of the order behind the first n are rendered, and only they.
Definitions(i, o) == IF i.kind[o] = "struct" THEN {o} ELSE IF i.kind[o] = "field" THEN UsedBy(i, o) ELSE {}
Rendering(i, ord, n, done) ==
  /\ Items(ord) = Reach(i) /\ n \in 0..Len(ord)
  /\ \A k \in (n + 1)..Len(ord) : Definitions(i, ord[k]) \subseteq Items(done)
  /\ \A m \in DOMAIN done : \E k \in (n + 1)..Len(ord) : done[m] \in Definitions(i, ord[k])

\* What a definition mentions.
MentionedBy(i, o) == UNION {IF i.kind[c] = "field" THEN UsedBy(i, c) ELSE {c} : c \in UsedBy(i, o)}

\* Definitions so far are in order, and of a structure there is one.
InOrder(i, done) ==
  /\ done \in Seq(Reach(i))
  /\ \A m \in DOMAIN done : MentionedBy(i, done[m]) \subseteq {done[k] : k \in 1..(m - 1)}
  /\ \A m, k \in DOMAIN done : done[m] = done[k] /\ i.kind[done[m]] = "struct" => m = k

\* What the definitions of an object mention is rendered when it is next.
LEMMA MentionedDone ==
  ASSUME NEW i, O!IsDescription(i), Distinct(i), NEW ord, UsersFirst(i, ord),
         NEW n, NEW done, Rendering(i, ord, n, done), n # 0, NEW o \in Definitions(i, ord[n])
  PROVE  MentionedBy(i, o) \subseteq Items(done)
  <1>1. /\ ord \in Seq(Reach(i)) /\ Len(ord) \in Nat /\ DOMAIN ord = 1..Len(ord)
        /\ \A k \in 1..Len(ord) : ord[k] \in Reach(i)
    BY LenProperties, ElementOfSeq DEF UsersFirst
  <1>2. n \in Nat /\ n \in 1..Len(ord) /\ Reach(i) = {ord[k] : k \in 1..Len(ord)}
    BY <1>1 DEF Rendering, Items
  <1>3. /\ \A u \in Reach(i) : UsedBy(i, u) \subseteq Reach(i)
        /\ Reach(i) \subseteq DOMAIN i.kind
    BY ReachClosed
  <1>4. \A u \in Reach(i) :
          /\ i.kind[u] \in {"struct", "field", "union"}
          /\ i.kind[u] = "struct" => \A c \in UsedBy(i, u) : i.kind[c] \in {"struct", "field"}
          /\ i.kind[u] = "field" => \A c \in UsedBy(i, u) : i.kind[c] = "union"
          /\ i.kind[u] = "union" => \A c \in UsedBy(i, u) : i.kind[c] = "struct"
    <2>1. \A u \in DOMAIN i.kind :
            /\ i.kind[u] \in {"struct", "field", "union", "enum"}
            /\ i.kind[u] = "struct" => \A c \in UsedBy(i, u) : i.kind[c] \in {"struct", "field", "enum"}
            /\ i.kind[u] = "field" => \A c \in UsedBy(i, u) : i.kind[c] = "union"
            /\ i.kind[u] = "union" => \A c \in UsedBy(i, u) : i.kind[c] = "struct"
      <3>1. /\ i.kind \in [DOMAIN i.kind -> {"struct", "field", "union", "enum"}]
            /\ \A u \in DOMAIN i.kind :
                 /\ i.kind[u] = "struct" =>
                      {i.kind[c] : c \in UsedBy(i, u)} \subseteq {"struct", "field", "enum"}
                 /\ i.kind[u] = "field" => {i.kind[c] : c \in UsedBy(i, u)} = {"union"}
                 /\ i.kind[u] = "union" => {i.kind[c] : c \in UsedBy(i, u)} \subseteq {"struct"}
        BY DEF O!IsDescription, O!ToSet, UsedBy, Items
      <3> QED
        BY <3>1
    <2>2. \A u \in Reach(i) : i.kind[u] # "enum"
      BY DEF Distinct
    <2>3. \A u \in Reach(i) : \A c \in UsedBy(i, u) : i.kind[c] # "enum"
      BY <1>3, <2>2
    <2> QED
      BY <1>3, <2>1, <2>2, <2>3
  \* What the k-th object uses comes behind it.
  <1>5. ASSUME NEW k \in 1..Len(ord), NEW c \in UsedBy(i, ord[k])
        PROVE  \E l \in (k + 1)..Len(ord) : c = ord[l]
    <2>1. PICK l \in 1..Len(ord) : c = ord[l]
      BY <1>1, <1>2, <1>3
    <2>2. PICK m \in 1..(l - 1) : ord[m] = ord[k]
      BY <1>1, <2>1 DEF UsersFirst
    <2>3. m \in 1..Len(ord)
      BY <1>1
    <2>4. m = k
      BY <1>1, <2>2, <2>3 DEF UsersFirst
    <2>5. l \in (k + 1)..Len(ord)
      BY <1>1, <2>2, <2>4
    <2> QED
      BY <2>1, <2>5
  <1>6. \A l \in (n + 1)..Len(ord) : Definitions(i, ord[l]) \subseteq Items(done)
    BY DEF Rendering
  <1>7. ASSUME NEW l \in (n + 1)..Len(ord), i.kind[ord[l]] = "struct" PROVE ord[l] \in Items(done)
    BY <1>6, <1>7 DEF Definitions
  <1>8. SUFFICES ASSUME NEW c \in UsedBy(i, o)
                 PROVE  (IF i.kind[c] = "field" THEN UsedBy(i, c) ELSE {c}) \subseteq Items(done)
    BY Zenon DEF MentionedBy
  <1>9. CASE i.kind[ord[n]] = "struct"
    <2>1. o = ord[n]
      BY <1>9 DEF Definitions
    <2>2. PICK l \in (n + 1)..Len(ord) : c = ord[l]
      BY <1>2, <1>5, <2>1
    <2>3. c \in Reach(i) /\ i.kind[c] \in {"struct", "field"}
      BY <1>1, <1>2, <1>3, <1>4, <1>9, <2>1
    <2>4. CASE i.kind[c] = "field"
      BY <1>6, <2>2, <2>4 DEF Definitions
    <2>5. CASE i.kind[c] = "struct"
      BY <1>7, <2>2, <2>5
    <2> QED
      BY <2>3, <2>4, <2>5
  <1>10. CASE i.kind[ord[n]] = "field"
    <2>1. o \in UsedBy(i, ord[n]) /\ o \in Reach(i)
      BY <1>1, <1>2, <1>3, <1>10 DEF Definitions
    <2>2. PICK k \in (n + 1)..Len(ord) : o = ord[k]
      BY <1>2, <1>5, <2>1
    <2>3. k \in 1..Len(ord)
      BY <1>1, <1>2
    <2>4. PICK l \in (k + 1)..Len(ord) : c = ord[l]
      BY <1>5, <2>2, <2>3
    <2>5. l \in (n + 1)..Len(ord)
      BY <1>1, <1>2
    <2>6. i.kind[c] = "struct"
      BY <1>1, <1>2, <1>4, <1>10, <2>1
    <2> QED
      BY <1>7, <2>4, <2>5, <2>6
  <1> QED
    BY <1>1, <1>2, <1>4, <1>9, <1>10 DEF Definitions

\* The next object of the order is rendered.
LEMMA RenderKeeps ==
  ASSUME NEW i, O!IsDescription(i), Distinct(i), NEW ord, UsersFirst(i, ord),
         NEW n, NEW done, Rendering(i, ord, n, done), InOrder(i, done), n # 0,
         NEW new, new \in Seq(Reach(i)), Items(new) = Definitions(i, ord[n]),
         i.kind[ord[n]] = "struct" => Len(new) = 1
  PROVE  Rendering(i, ord, n - 1, done \o new) /\ InOrder(i, done \o new)
  <1> DEFINE more == done \o new
  <1>1. /\ ord \in Seq(Reach(i)) /\ Len(ord) \in Nat /\ DOMAIN ord = 1..Len(ord) /\ done \in Seq(Reach(i))
        /\ Len(done) \in Nat /\ DOMAIN done = 1..Len(done)
        /\ Len(new) \in Nat /\ DOMAIN new = 1..Len(new)
    BY LenProperties DEF UsersFirst, InOrder
  <1>2. n \in 1..Len(ord) /\ Items(ord) = Reach(i)
    BY <1>1 DEF Rendering
  <1>3. PICK d \in Nat, e \in Nat, f \in Nat : d = Len(done) /\ e = Len(new) /\ f = Len(ord)
    BY <1>1
  <1>4. /\ more \in Seq(Reach(i)) /\ DOMAIN more = 1..(d + e)
        /\ \A k \in 1..(d + e) : more[k] = IF k <= d THEN done[k] ELSE new[k - d]
    BY <1>1, <1>3, ConcatProperties
  <1>5. Items(more) = Items(done) \cup Definitions(i, ord[n])
    BY <1>1, ItemsConcat
  <1> HIDE DEF more
  <1>6. ASSUME NEW m \in DOMAIN more
        PROVE  \/ m \in 1..d /\ more[m] = done[m]
               \/ m > d /\ more[m] \in Definitions(i, ord[n])
    <2>1. CASE m <= d
      BY <1>4, <2>1
    <2>2. CASE ~(m <= d)
      <3>1. m > d /\ m - d \in 1..e /\ more[m] = new[m - d]
        BY <1>4, <2>2
      <3>2. new[m - d] \in Items(new)
        BY <1>1, <1>3, <3>1 DEF Items
      <3> QED
        BY <3>1, <3>2
    <2> QED
      BY <2>1, <2>2
  <1>7. (n - 1) + 1 = n /\ n - 1 \in 0..Len(ord)
    BY <1>2, <1>3
  <1>8. \A k \in n..Len(ord) : k = n \/ k \in (n + 1)..Len(ord)
    BY <1>2, <1>3
  <1>9. n \in n..Len(ord) /\ \A k \in (n + 1)..Len(ord) : k \in n..Len(ord)
    BY <1>2, <1>3
  <1>10. Rendering(i, ord, n - 1, more)
    <2>1. ASSUME NEW k \in n..Len(ord) PROVE Definitions(i, ord[k]) \subseteq Items(more)
      BY <1>5, <1>8 DEF Rendering
    <2>2. ASSUME NEW m \in DOMAIN more PROVE \E k \in n..Len(ord) : more[m] \in Definitions(i, ord[k])
      <3>1. CASE m \in 1..d /\ more[m] = done[m]
        <4>1. PICK k \in (n + 1)..Len(ord) : done[m] \in Definitions(i, ord[k])
          BY <1>1, <1>3, <3>1 DEF Rendering
        <4> QED
          BY <1>9, <3>1, <4>1
      <3> QED
        BY <1>6, <1>9, <3>1
    <2> QED
      BY <1>2, <1>7, <2>1, <2>2 DEF Rendering
  <1>11. ASSUME NEW m \in DOMAIN more
         PROVE  MentionedBy(i, more[m]) \subseteq {more[k] : k \in 1..(m - 1)}
    <2>1. CASE m \in 1..d /\ more[m] = done[m]
      <3>1. MentionedBy(i, done[m]) \subseteq {done[k] : k \in 1..(m - 1)}
        BY <1>1, <1>3, <2>1 DEF InOrder
      <3>2. \A k \in 1..(m - 1) : more[k] = done[k]
        <4>1. \A k \in 1..(m - 1) : k \in 1..(d + e) /\ k <= d
          BY <2>1
        <4> QED
          BY <1>4, <4>1
      <3> QED
        BY <2>1, <3>1, <3>2
    <2>2. CASE m > d /\ more[m] \in Definitions(i, ord[n])
      <3>1. MentionedBy(i, more[m]) \subseteq Items(done)
        BY <2>2, MentionedDone
      <3>2. ASSUME NEW k \in 1..d PROVE k \in 1..(m - 1) /\ more[k] = done[k]
        <4>1. m \in Nat
          BY <1>4
        <4>2. k \in 1..(m - 1) /\ k \in 1..(d + e) /\ k <= d
          BY <2>2, <4>1
        <4> QED
          BY <1>4, <4>2
      <3>3. Items(done) \subseteq {more[k] : k \in 1..(m - 1)}
        BY <1>1, <1>3, <3>2 DEF Items
      <3> QED
        BY <3>1, <3>3
    <2> QED
      BY <1>6, <2>1, <2>2
  <1>12. \A k \in (n + 1)..Len(ord) : ord[k] # ord[n]
    <2>1. \A k \in (n + 1)..Len(ord) : k \in 1..Len(ord) /\ k # n
      BY <1>2, <1>3
    <2> QED
      BY <1>1, <1>2, <2>1 DEF UsersFirst
  \* A structure among the definitions is the object itself, or there is none.
  <1>13. ASSUME NEW k \in 1..Len(ord), NEW o \in Definitions(i, ord[k]), i.kind[o] = "struct"
         PROVE  o = ord[k] /\ i.kind[ord[k]] = "struct"
    <2>1. ord[k] \in Reach(i)
      BY <1>1, ElementOfSeq
    <2>2. ord[k] \in DOMAIN i.kind
      BY <2>1, ReachClosed
    <2>3. i.kind[ord[k]] = "field" => \A c \in UsedBy(i, ord[k]) : i.kind[c] = "union"
      <3>1. i.kind[ord[k]] = "field" => {i.kind[c] : c \in UsedBy(i, ord[k])} = {"union"}
        BY <2>2 DEF O!IsDescription, O!ToSet, UsedBy, Items
      <3> QED
        BY <3>1
    <2> QED
      BY <1>13, <2>3 DEF Definitions
  <1>14. ASSUME NEW m \in 1..d, i.kind[done[m]] = "struct" PROVE done[m] # ord[n]
    <2>1. PICK k \in (n + 1)..Len(ord) : done[m] \in Definitions(i, ord[k])
      BY <1>1, <1>3 DEF Rendering
    <2>2. k \in 1..Len(ord)
      BY <1>2, <1>3
    <2>3. done[m] = ord[k]
      BY <1>13, <1>14, <2>1, <2>2
    <2> QED
      BY <1>12, <2>3
  <1>15. ASSUME NEW m \in DOMAIN more, NEW k \in DOMAIN more,
                more[m] = more[k], i.kind[more[m]] = "struct"
         PROVE  m = k
    <2>1. CASE m > d /\ k > d
      <3>1. more[m] \in Definitions(i, ord[n])
        BY <1>6, <2>1
      <3>2. i.kind[ord[n]] = "struct"
        BY <1>2, <1>13, <1>15, <3>1
      <3>3. e = 1
        BY <1>3, <3>2
      <3> QED
        BY <1>4, <2>1, <3>3
    <2>2. CASE m \in 1..d /\ k \in 1..d
      <3>1. more[m] = done[m] /\ more[k] = done[k]
        BY <1>6, <2>2
      <3> QED
        BY <1>1, <1>3, <1>15, <2>2, <3>1 DEF InOrder
    <2>3. ASSUME NEW x \in 1..d, NEW y \in DOMAIN more, y > d, x \in DOMAIN more,
                 more[x] = more[y], i.kind[more[x]] = "struct"
          PROVE  FALSE
      <3>1. more[x] = done[x] /\ more[y] \in Definitions(i, ord[n])
        BY <1>6, <2>3
      <3>2. more[y] = ord[n]
        BY <1>2, <1>13, <2>3, <3>1
      <3> QED
        BY <1>14, <2>3, <3>1, <3>2
    <2>4. m \in 1..d \/ m > d
      BY <1>4
    <2>5. k \in 1..d \/ k > d
      BY <1>4
    <2> QED
      BY <1>15, <2>1, <2>2, <2>3, <2>4, <2>5
  <1>16. InOrder(i, more)
    BY <1>4, <1>11, <1>15 DEF InOrder
  <1> QED
    BY <1>10, <1>16 DEF more

------------------------------------------------------------------------------
(* The phases of render_proto().                                           *)

\* The stack holds what is left of the order.
Unrendered ==
  /\ objs_stack \in Seq(Reach(input)) /\ \A k \in 1..Len(objs_stack) : objs_stack[k] = order[k]
  /\ Rendering(input, order, Len(objs_stack), rendered) /\ InOrder(input, rendered)

\* What each phase works on, and what the phases before it have shown.
OrderInv ==
  /\ progress \in {"idle", "validate", "count", "order", "render", "rendered", "raised"}
  /\ progress # "idle" => input \in Inputs
  /\ progress = "idle" => objs_by_name = <<>>
  /\ progress \in {"idle", "validate"} => entries_count = <<>>
  /\ progress \in {"idle", "validate", "count", "raised"} => order = <<>>
  /\ progress \in {"idle", "validate", "count", "raised", "order"} => rendered = <<>>
  /\ progress = "validate" => Validating(input, objs_by_name, objs_stack)
  /\ progress \in {"count", "order", "render", "rendered"} => Distinct(input)
  /\ progress = "count" => Counting(input, entries_count, objs_stack)
  /\ progress = "order" => Ordering(input, entries_count, objs_stack, order)
  /\ progress \in {"order", "render", "rendered"} => UsersFirst(input, order)
  /\ progress \in {"render", "rendered"} => Unrendered
  /\ progress = "rendered" => objs_stack = <<>>

\* A call begins with nothing but what it is given.
LEMMA RenderProtoKeeps ==
  ASSUME OrderInv, NEW i \in Inputs, O!render_proto(i)
  PROVE  OrderInv'
  <1>1. /\ progress = "idle" /\ progress' = "validate" /\ input' = i /\ objs_stack' = i.heads
        /\ objs_by_name' = <<>> /\ entries_count' = <<>> /\ order' = <<>> /\ rendered' = <<>>
    BY DEF O!render_proto, OrderInv
  <1>2. O!IsDescription(i)
    BY InputsAreDescriptions
  <1>3. Items(<<>>) = {} /\ DOMAIN <<>> = {}
    BY DEF Items
  <1>4. Validating(i, <<>>, i.heads)
    BY <1>2, <1>3, StackBegins DEF Validating
  <1>5. Validating(input', objs_by_name', objs_stack')
    BY <1>1, <1>4
  <1> QED
    BY <1>1, <1>5 DEF OrderInv

\* An object is validated.
LEMMA ValidateDuplicatesKeeps ==
  ASSUME OrderInv, O!validate_duplicates
  PROVE  OrderInv'
  <1>1. /\ progress = "validate" /\ progress' = "validate" /\ input' = input /\ objs_stack # <<>>
        /\ entries_count' = entries_count /\ order' = order /\ rendered' = rendered
        /\ input.kind[Top(objs_stack)] # "enum"
        /\ IF input.name[Top(objs_stack)] \in DOMAIN objs_by_name
           THEN /\ objs_by_name[input.name[Top(objs_stack)]] = Top(objs_stack)
                /\ objs_stack' = Below(objs_stack) /\ objs_by_name' = objs_by_name
           ELSE /\ objs_by_name' = O!With(objs_by_name, input.name[Top(objs_stack)], Top(objs_stack))
                /\ objs_stack' = Below(objs_stack) \o input.children[Top(objs_stack)]
    BY DEF O!validate_duplicates, O!HasName, O!get_name, O!get_children, O!popped, O!rest,
           O!Last, O!Front, Top, Below
  <1>2. input \in Inputs /\ Validating(input, objs_by_name, objs_stack)
    BY <1>1 DEF OrderInv
  <1>3. O!IsDescription(input)
    BY <1>2, InputsAreDescriptions
  <1>4. Validating(input, objs_by_name', objs_stack')
    BY <1>1, <1>2, <1>3, ValidateKeeps
  <1>5. Validating(input', objs_by_name', objs_stack')
    BY <1>1, <1>4
  <1> QED
    BY <1>1, <1>5 DEF OrderInv

\* All are validated.
LEMMA ValidatedKeeps ==
  ASSUME OrderInv, O!validated
  PROVE  OrderInv'
  <1>1. /\ progress = "validate" /\ progress' = "count" /\ input' = input /\ objs_stack = <<>>
        /\ objs_stack' = input.heads
        /\ entries_count' = entries_count /\ order' = order /\ rendered' = rendered
    BY DEF O!validated
  <1>2. input \in Inputs /\ Validating(input, objs_by_name, objs_stack) /\ entries_count = <<>>
    BY <1>1 DEF OrderInv
  <1>3. O!IsDescription(input)
    BY <1>2, InputsAreDescriptions
  <1>4. Distinct(input)
    BY <1>1, <1>2, ValidatedDistinct
  <1>5. Counting(input, entries_count', objs_stack')
    BY <1>1, <1>2, <1>3, CountBegins
  <1>6. Distinct(input') /\ Counting(input', entries_count', objs_stack')
    BY <1>1, <1>4, <1>5
  <1> QED
    BY <1>1, <1>6 DEF OrderInv

\* An object is counted.
LEMMA CountEntriesKeeps ==
  ASSUME OrderInv, O!count_entries
  PROVE  OrderInv'
  <1>1. /\ progress = "count" /\ progress' = "count" /\ input' = input /\ objs_stack # <<>>
        /\ order' = order /\ rendered' = rendered
        /\ IF input.name[Top(objs_stack)] \in DOMAIN entries_count
           THEN /\ entries_count' = [entries_count EXCEPT ![input.name[Top(objs_stack)]] = @ + 1]
                /\ objs_stack' = Below(objs_stack)
           ELSE /\ entries_count' = O!With(entries_count, input.name[Top(objs_stack)], 1)
                /\ objs_stack' = Below(objs_stack) \o input.children[Top(objs_stack)]
    BY DEF O!count_entries, O!get_name, O!get_children, O!popped, O!rest,
           O!Last, O!Front, Top, Below
  <1>2. input \in Inputs /\ Counting(input, entries_count, objs_stack) /\ Distinct(input)
    BY <1>1 DEF OrderInv
  <1>3. O!IsDescription(input)
    BY <1>2, InputsAreDescriptions
  <1>4. Counting(input, entries_count', objs_stack')
    <2>1. CASE input.name[Top(objs_stack)] \in DOMAIN entries_count
      <3>1. Counting(input, [entries_count EXCEPT ![input.name[Top(objs_stack)]] = @ + 1],
                     Below(objs_stack))
        BY <1>1, <1>2, <1>3, <2>1, CountKeeps
      <3> QED
        BY <1>1, <2>1, <3>1
    <2>2. CASE input.name[Top(objs_stack)] \notin DOMAIN entries_count
      <3>1. Counting(input, O!With(entries_count, input.name[Top(objs_stack)], 1),
                     Below(objs_stack) \o input.children[Top(objs_stack)])
        BY <1>1, <1>2, <1>3, <2>2, CountKeeps
      <3> QED
        BY <1>1, <2>2, <3>1
    <2> QED
      BY <2>1, <2>2
  <1>5. Distinct(input') /\ Counting(input', entries_count', objs_stack')
    BY <1>1, <1>2, <1>4
  <1> QED
    BY <1>1, <1>5 DEF OrderInv

\* All are counted.
LEMMA CountedKeeps ==
  ASSUME OrderInv, O!counted
  PROVE  OrderInv'
  <1>1. /\ progress = "count" /\ progress' = "order" /\ input' = input /\ objs_stack = <<>>
        /\ objs_stack' = input.heads
        /\ entries_count' = entries_count /\ order' = order /\ rendered' = rendered
    BY DEF O!counted
  <1>2. /\ input \in Inputs /\ Counting(input, entries_count, objs_stack) /\ Distinct(input)
        /\ order = <<>>
    BY <1>1 DEF OrderInv
  <1>3. O!IsDescription(input)
    BY <1>2, InputsAreDescriptions
  <1>4. Ordering(input, entries_count, input.heads, <<>>) /\ UsersFirst(input, <<>>)
    BY <1>1, <1>2, <1>3, OrderBegins
  <1>5. /\ Distinct(input') /\ Ordering(input', entries_count', objs_stack', order')
        /\ UsersFirst(input', order')
    BY <1>1, <1>2, <1>4
  <1> QED
    BY <1>1, <1>5 DEF OrderInv

\* What order_descrs() does to the object on top of its stack.
LEMMA OrderDescrsDoes ==
  ASSUME OrderInv, O!order_descrs
  PROVE  /\ progress = "order" /\ progress' = "order" /\ input' = input /\ objs_stack # <<>>
         /\ rendered' = rendered
         /\ entries_count' = [entries_count EXCEPT ![input.name[Top(objs_stack)]] = @ - 1]
         /\ IF entries_count'[input.name[Top(objs_stack)]] # 0
            THEN objs_stack' = Below(objs_stack) /\ order' = order
            ELSE /\ order' = Append(order, Top(objs_stack))
                 /\ objs_stack' = Below(objs_stack) \o O!SortedChildren(Top(objs_stack))
         /\ input \in Inputs /\ O!IsDescription(input) /\ Distinct(input)
         /\ Ordering(input, entries_count, objs_stack, order) /\ UsersFirst(input, order)
  <1>1. /\ progress = "order" /\ progress' = "order" /\ input' = input /\ objs_stack # <<>>
        /\ rendered' = rendered
        /\ entries_count' = [entries_count EXCEPT ![input.name[Top(objs_stack)]] = @ - 1]
        /\ IF entries_count'[input.name[Top(objs_stack)]] # 0
           THEN objs_stack' = Below(objs_stack) /\ order' = order
           ELSE /\ order' = Append(order, Top(objs_stack))
                /\ objs_stack' = Below(objs_stack) \o O!SortedChildren(Top(objs_stack))
    BY DEF O!order_descrs, O!get_name, O!popped, O!rest, O!Last, O!Front, Top, Below
  <1>2. /\ input \in Inputs /\ Distinct(input)
        /\ Ordering(input, entries_count, objs_stack, order) /\ UsersFirst(input, order)
    BY <1>1 DEF OrderInv
  <1> QED
    BY <1>1, <1>2, InputsAreDescriptions

\* An object is counted down, and ordered if that was its last use.
LEMMA OrderDescrsKeeps ==
  ASSUME OrderInv, O!order_descrs
  PROVE  OrderInv'
  <1>1. /\ progress = "order" /\ progress' = "order" /\ input' = input /\ objs_stack # <<>>
        /\ rendered' = rendered /\ input \in Inputs /\ O!IsDescription(input) /\ Distinct(input)
        /\ Ordering(input, entries_count, objs_stack, order) /\ UsersFirst(input, order)
        /\ entries_count' = [entries_count EXCEPT ![input.name[Top(objs_stack)]] = @ - 1]
    BY OrderDescrsDoes
  <1>2. CASE entries_count'[input.name[Top(objs_stack)]] # 0
    <2>1. objs_stack' = Below(objs_stack) /\ order' = order
      BY <1>2, OrderDescrsDoes
    <2>2. Ordering(input, entries_count', Below(objs_stack), order)
      BY <1>1, <1>2, OrderSkips
    <2>3. Ordering(input', entries_count', objs_stack', order') /\ UsersFirst(input', order')
          /\ Distinct(input')
      BY <1>1, <2>1, <2>2
    <2> QED
      BY <1>1, <2>3 DEF OrderInv
  <1>3. CASE entries_count'[input.name[Top(objs_stack)]] = 0
    <2>1. /\ order' = Append(order, Top(objs_stack))
          /\ objs_stack' = Below(objs_stack) \o O!SortedChildren(Top(objs_stack))
      BY <1>3, OrderDescrsDoes
    <2>2. /\ Ordering(input, entries_count', Below(objs_stack) \o O!SortedChildren(Top(objs_stack)),
                      Append(order, Top(objs_stack)))
          /\ UsersFirst(input, Append(order, Top(objs_stack)))
      BY <1>1, <1>3, OrderEmits
    <2>3. Ordering(input', entries_count', objs_stack', order') /\ UsersFirst(input', order')
          /\ Distinct(input')
      BY <1>1, <2>1, <2>2
    <2> QED
      BY <1>1, <2>3 DEF OrderInv
  <1> QED
    BY <1>2, <1>3

\* The order is complete.
LEMMA OrderedKeeps ==
  ASSUME OrderInv, O!ordered
  PROVE  OrderInv'
  <1>1. /\ progress = "order" /\ progress' = "render" /\ input' = input /\ objs_stack = <<>>
        /\ objs_stack' = order
        /\ entries_count' = entries_count /\ order' = order /\ rendered' = rendered
    BY DEF O!ordered
  <1>2. /\ input \in Inputs /\ Distinct(input) /\ rendered = <<>>
        /\ Ordering(input, entries_count, <<>>, order) /\ UsersFirst(input, order)
    BY <1>1 DEF OrderInv
  <1>3. O!IsDescription(input)
    BY <1>2, InputsAreDescriptions
  <1>4. Items(order) = Reach(input)
    BY <1>2, <1>3, OrderEnds
  <1>5. order \in Seq(Reach(input)) /\ Len(order) \in Nat
    BY <1>2, LenProperties DEF UsersFirst
  <1>6. Len(order) \in 0..Len(order) /\ (Len(order) + 1)..Len(order) = {}
    BY <1>5
  <1>7. Rendering(input, order, Len(order), <<>>)
    BY <1>4, <1>6 DEF Rendering
  <1>8. InOrder(input, <<>>)
    BY DEF InOrder
  <1>9. /\ objs_stack' \in Seq(Reach(input)) /\ \A k \in 1..Len(objs_stack') : objs_stack'[k] = order'[k]
        /\ Rendering(input, order', Len(objs_stack'), rendered') /\ InOrder(input, rendered')
    BY <1>1, <1>2, <1>5, <1>7, <1>8
  <1>10. Unrendered'
    BY <1>1, <1>9 DEF Unrendered
  <1>11. Distinct(input') /\ UsersFirst(input', order')
    BY <1>1, <1>2
  <1> QED
    BY <1>1, <1>10, <1>11 DEF OrderInv

\* An object is rendered.
LEMMA RenderStepKeeps ==
  ASSUME OrderInv, O!render
  PROVE  OrderInv'
  <1> DEFINE n == Len(objs_stack)
             new == O!Definition(Top(objs_stack))
  <1>1. /\ progress = "render" /\ progress' = "render" /\ input' = input /\ objs_stack # <<>>
        /\ objs_stack' = Below(objs_stack) /\ rendered' = rendered \o new
        /\ order' = order
    BY DEF O!render, O!popped, O!rest, O!Last, O!Front, Top, Below
  <1>2. input \in Inputs /\ Distinct(input) /\ UsersFirst(input, order) /\ Unrendered
    BY <1>1 DEF OrderInv
  <1>3. O!IsDescription(input)
    BY <1>2, InputsAreDescriptions
  <1>4. /\ objs_stack \in Seq(Reach(input)) /\ \A k \in 1..n : objs_stack[k] = order[k]
        /\ Rendering(input, order, n, rendered) /\ InOrder(input, rendered)
    BY <1>2 DEF Unrendered
  <1>5. /\ Below(objs_stack) \in Seq(Reach(input)) /\ Len(Below(objs_stack)) = n - 1
        /\ n \in Nat \ {0} /\ Top(objs_stack) \in Reach(input)
        /\ \A k \in 1..(n - 1) : Below(objs_stack)[k] = objs_stack[k]
    BY <1>1, <1>4, BelowTop
  <1>6. Top(objs_stack) = order[n]
    BY <1>4, <1>5 DEF Top
  <1>7. /\ new \in Seq(Reach(input)) /\ Items(new) = Definitions(input, order[n])
        /\ input.kind[order[n]] = "struct" => Len(new) = 1
    <2> DEFINE o == Top(objs_stack)
    <2>1. input.kind[o] \in {"struct", "field", "union"}
      <3>1. input.kind[o] \in {"struct", "field", "union", "enum"}
        BY <1>3, <1>5, ReachClosed DEF O!IsDescription
      <3>2. input.kind[o] # "enum"
        BY <1>2, <1>5 DEF Distinct
      <3> QED
        BY <3>1, <3>2
    <2>2. CASE input.kind[o] = "struct"
      <3>1. new = <<o>>
        BY <2>2 DEF O!Definition
      <3>2. <<o>> \in Seq(Reach(input)) /\ Len(<<o>>) = 1 /\ Items(<<o>>) = {o}
        BY <1>5 DEF Items
      <3> QED
        BY <1>6, <2>2, <3>1, <3>2 DEF Definitions
    <2>3. CASE input.kind[o] = "field"
      <3>1. new = input.children[o]
        BY <2>3 DEF O!Definition, O!get_children
      <3>2. input.children[o] \in Seq(Reach(input))
        BY <1>3, <1>5, ReachClosed
      <3> QED
        BY <1>6, <2>3, <3>1, <3>2 DEF Definitions, UsedBy
    <2>4. CASE input.kind[o] = "union"
      <3>1. new = <<>>
        BY <2>4 DEF O!Definition
      <3>2. Items(<<>>) = {}
        BY DEF Items
      <3> QED
        BY <1>6, <2>4, <3>1, <3>2 DEF Definitions
    <2> QED
      BY <2>1, <2>2, <2>3, <2>4
  <1> HIDE DEF n, new
  <1>8. Rendering(input, order, n - 1, rendered \o new) /\ InOrder(input, rendered \o new)
    BY <1>2, <1>3, <1>4, <1>5, <1>7, RenderKeeps
  <1>9. \A k \in 1..(n - 1) : Below(objs_stack)[k] = order[k]
    <2>1. \A k \in 1..(n - 1) : k \in 1..n
      BY <1>5
    <2> QED
      BY <1>4, <1>5, <2>1
  <1>10. Unrendered'
    BY <1>1, <1>5, <1>8, <1>9 DEF Unrendered
  <1>11. Distinct(input') /\ UsersFirst(input', order')
    BY <1>1, <1>2
  <1> QED
    BY <1>1, <1>2, <1>10, <1>11 DEF OrderInv

\* An error, the end and the return, and steps of others.
LEMMA RestKeeps ==
  ASSUME OrderInv,
         O!validate_raises \/ O!rendering_ends \/ O!return \/ UNCHANGED O!vars
  PROVE  OrderInv'
  <1>1. CASE O!validate_raises
    BY <1>1 DEF O!validate_raises, OrderInv
  <1>2. CASE O!rendering_ends
    <2>1. /\ progress = "render" /\ progress' = "rendered" /\ input' = input /\ objs_stack = <<>>
          /\ objs_stack' = objs_stack /\ order' = order /\ rendered' = rendered
      BY <1>2 DEF O!rendering_ends
    <2>2. input \in Inputs /\ Distinct(input) /\ UsersFirst(input, order) /\ Unrendered
      BY <2>1 DEF OrderInv
    <2>3. Distinct(input') /\ UsersFirst(input', order')
      BY <2>1, <2>2
    <2>4. Unrendered'
      BY <2>1, <2>2 DEF Unrendered
    <2> QED
      BY <2>1, <2>2, <2>3, <2>4 DEF OrderInv
  <1>3. CASE O!return
    BY <1>3 DEF O!return, OrderInv
  <1>4. CASE UNCHANGED O!vars
    BY <1>4 DEF O!vars, OrderInv, Unrendered
  <1> QED
    BY <1>1, <1>2, <1>3, <1>4

LEMMA OrderStep ==
  ASSUME OrderInv, [O!Next]_O!vars
  PROVE  OrderInv'
  BY RenderProtoKeeps, ValidateDuplicatesKeeps, ValidatedKeeps, CountEntriesKeeps, CountedKeeps,
     OrderDescrsKeeps, OrderedKeeps, RenderStepKeeps, RestKeeps DEF O!Next

LEMMA OrderInit == O!Init => OrderInv
  BY DEF O!Init, OrderInv

\* What ProtoOrder calls uses, nodes and mentions.
LEMMA ChildrenAre ==
  ASSUME O!IsDescription(input)
  PROVE  /\ O!Reachable = Reach(input)
         /\ \A u \in Reach(input) :
              O!Children[u] = UsedBy(input, u) /\ O!Mentions(u) = MentionedBy(input, u)
  <1>1. O!Reachable = Reach(input)
    BY ReachIs
  <1>2. \A u \in DOMAIN input.kind : O!Children[u] = UsedBy(input, u)
    BY DEF O!Children, O!Objects, O!get_children, O!ToSet, UsedBy, Items
  <1>3. /\ Reach(input) \subseteq DOMAIN input.kind
        /\ \A u \in Reach(input) : UsedBy(input, u) \subseteq Reach(input)
    BY ReachClosed
  <1>4. ASSUME NEW u \in Reach(input) PROVE O!Mentions(u) = MentionedBy(input, u)
    <2>1. /\ O!Children[u] = UsedBy(input, u)
          /\ \A c \in UsedBy(input, u) : O!Children[c] = UsedBy(input, c)
      BY <1>2, <1>3
    <2> QED
      BY <2>1 DEF O!Mentions, MentionedBy
  <1> QED
    BY <1>1, <1>2, <1>3, <1>4

\* The invariant is stronger than ProtoOrder!DefinedBeforeUse.
LEMMA OrderInvDefines ==
  ASSUME OrderInv
  PROVE  DefinedBeforeUse
  <1>1. CASE progress \notin {"render", "rendered"}
    <2>1. rendered = <<>> /\ progress # "rendered"
      BY <1>1 DEF OrderInv
    <2> QED
      BY <2>1 DEF DefinedBeforeUse, O!DefinedBeforeUse
  <1>2. CASE progress \in {"render", "rendered"}
    <2>1. /\ input \in Inputs /\ InOrder(input, rendered) /\ UsersFirst(input, order)
          /\ Rendering(input, order, Len(objs_stack), rendered)
          /\ progress = "rendered" => objs_stack = <<>>
      BY <1>2 DEF OrderInv, Unrendered
    <2>2. O!IsDescription(input)
      BY <2>1, InputsAreDescriptions
    <2>3. /\ O!Reachable = Reach(input)
          /\ \A u \in Reach(input) : O!Mentions(u) = MentionedBy(input, u)
      BY <2>2, ChildrenAre
    <2>4. /\ Len(rendered) \in Nat /\ DOMAIN rendered = 1..Len(rendered)
          /\ \A m \in DOMAIN rendered : rendered[m] \in Reach(input)
      BY <2>1, LenProperties, ElementOfSeq DEF InOrder
    <2>5. ASSUME NEW m \in DOMAIN rendered
          PROVE  O!Mentions(rendered[m]) \subseteq {rendered[j] : j \in 1..(m - 1)}
      BY <2>1, <2>3, <2>4 DEF InOrder
    <2>6. ASSUME NEW m \in DOMAIN rendered, NEW j \in DOMAIN rendered,
                 rendered[m] = rendered[j], input.kind[rendered[m]] = "struct"
          PROVE  m = j
      BY <2>1, <2>6 DEF InOrder
    <2>7. ASSUME progress = "rendered", NEW o \in Reach(input), input.kind[o] = "struct"
          PROVE  o \in O!ToSet(rendered)
      <3>1. /\ order \in Seq(Reach(input)) /\ Len(order) \in Nat /\ DOMAIN order = 1..Len(order)
        BY <2>1, LenProperties DEF UsersFirst
      <3>2. PICK k \in 1..Len(order) : o = order[k]
        BY <2>1, <3>1 DEF Rendering, Items
      <3>3. Len(objs_stack) = 0 /\ k \in (0 + 1)..Len(order)
        BY <2>1, <2>7
      <3>4. Definitions(input, o) \subseteq Items(rendered)
        BY <2>1, <3>2, <3>3 DEF Rendering
      <3> QED
        BY <2>7, <3>4 DEF Definitions, Items, O!ToSet
    <2> QED
      BY <2>3, <2>5, <2>6, <2>7 DEF DefinedBeforeUse, O!DefinedBeforeUse
  <1> QED
    BY <1>1, <1>2

\* Whatever descriptions are given, every structure and union of the header is
\* defined after all it mentions, a structure once, and nothing is missing
\* (render_all.py:60-112, 132-153).
THEOREM ProtoDefinedBeforeUse == O!Spec => []DefinedBeforeUse
  <1>1. O!Init => OrderInv
    BY OrderInit
  <1>2. OrderInv /\ [O!Next]_O!vars => OrderInv'
    BY OrderStep
  <1>3. OrderInv => DefinedBeforeUse
    BY OrderInvDefines
  <1> QED
    BY <1>1, <1>2, <1>3, PTL DEF O!Spec

\* A step of ProtoOrder is one of DependencyOrder, or changes nothing of it.
LEMMA OrderMaps ==
  ASSUME OrderInv, [O!Next]_O!vars
  PROVE  [O!Dependencies!Next]_<<O!Reachable, O!Children, order>>
  <1>1. ASSUME input' = input
        PROVE  O!Reachable' = O!Reachable /\ O!Children' = O!Children
    BY <1>1 DEF O!Reachable, O!Children, O!Objects, O!get_children
  <1>2. ASSUME input' = input, order' = order
        PROVE  UNCHANGED <<O!Reachable, O!Children, order>>
    BY <1>1, <1>2
  <1>3. ASSUME NEW i \in Inputs, O!render_proto(i)
        PROVE  O!Dependencies!Restart
    BY <1>3 DEF O!render_proto, OrderInv, O!Dependencies!Restart
  <1>4. CASE O!order_descrs
    <2>1. /\ input' = input /\ O!IsDescription(input) /\ Distinct(input) /\ objs_stack # <<>>
          /\ Ordering(input, entries_count, objs_stack, order) /\ UsersFirst(input, order)
          /\ entries_count' = [entries_count EXCEPT ![input.name[Top(objs_stack)]] = @ - 1]
      BY <1>4, OrderDescrsDoes
    <2>2. CASE entries_count'[input.name[Top(objs_stack)]] # 0
      <3>1. order' = order
        BY <1>4, <2>2, OrderDescrsDoes
      <3> QED
        BY <1>2, <2>1, <3>1
    <2>3. CASE entries_count'[input.name[Top(objs_stack)]] = 0
      <3>1. order' = Append(order, Top(objs_stack))
        BY <1>4, <2>3, OrderDescrsDoes
      <3>2. /\ Top(objs_stack) \in Remaining(input, order)
            /\ \A u \in Reach(input) : Top(objs_stack) \in UsedBy(input, u) => u \in Items(order)
        BY <2>1, <2>3, OrderEmits
      <3>3. /\ O!Reachable = Reach(input)
            /\ \A u \in Reach(input) : O!Children[u] = UsedBy(input, u)
        BY <2>1, ChildrenAre
      <3>4. O!Dependencies!ToSet(order) = Items(order)
        BY DEF O!Dependencies!ToSet, Items
      <3>5. Top(objs_stack) \in O!Reachable \ O!Dependencies!ToSet(order)
        BY <3>2, <3>3, <3>4 DEF Remaining
      <3>6. \A user \in O!Reachable :
              Top(objs_stack) \in O!Children[user] => user \in O!Dependencies!ToSet(order)
        BY <3>2, <3>3, <3>4
      <3>7. O!Dependencies!Emit
        BY <1>1, <2>1, <3>1, <3>5, <3>6 DEF O!Dependencies!Emit
      <3> QED
        BY <3>7 DEF O!Dependencies!Next
    <2> QED
      BY <2>2, <2>3
  <1>5. CASE O!return
    <2>1. order' = <<>>
      BY <1>5 DEF O!return
    <2>2. order = <<>> \/ O!Dependencies!ToSet(order) = O!Reachable
      <3>1. CASE progress = "raised"
        BY <3>1 DEF OrderInv
      <3>2. CASE progress = "rendered"
        <4>1. Items(order) = Reach(input)
          BY <3>2 DEF OrderInv, Unrendered, Rendering
        <4> QED
          BY <4>1, ReachIs DEF O!Dependencies!ToSet, Items
      <3> QED
        BY <1>5, <3>1, <3>2 DEF O!return
    <2>3. O!Dependencies!Restart
      BY <2>1, <2>2 DEF O!Dependencies!Restart
    <2> QED
      BY <2>3 DEF O!Dependencies!Next
  <1>6. CASE O!validate_duplicates \/ O!validate_raises \/ O!validated
    BY <1>2, <1>6 DEF O!validate_duplicates, O!validate_raises, O!validated
  <1>7. CASE O!count_entries \/ O!counted \/ O!ordered
    BY <1>2, <1>7 DEF O!count_entries, O!counted, O!ordered
  <1>8. CASE O!render \/ O!rendering_ends \/ UNCHANGED O!vars
    BY <1>2, <1>8 DEF O!render, O!rendering_ends, O!vars
  <1>9. CASE \E i \in Inputs : O!render_proto(i)
    BY <1>3, <1>9 DEF O!Dependencies!Next
  <1> QED
    BY <1>4, <1>5, <1>6, <1>7, <1>8, <1>9 DEF O!Next

\* order_descrs() implements DependencyOrder, for any descriptions: each reachable
\* one is emitted once, when all its users have been, and a complete order is what
\* render_proto() takes (render_all.py:92-112).
THEOREM ProtoOrderImplements == O!Spec => OrderSpec
  <1>1. O!Init => OrderInv
    BY OrderInit
  <1>2. OrderInv /\ [O!Next]_O!vars => OrderInv'
    BY OrderStep
  <1>3. OrderInv /\ [O!Next]_O!vars => [O!Dependencies!Next]_<<O!Reachable, O!Children, order>>
    BY OrderMaps
  <1>4. O!Init => O!Dependencies!Init
    BY DEF O!Init, O!Dependencies!Init
  <1> QED
    BY <1>1, <1>2, <1>3, <1>4, PTL DEF O!Spec, OrderSpec, O!OrderSpec, O!Dependencies!Spec
================================================================================
