------------------------- MODULE PacketTransportProofs -------------------------
(***************************************************************************)
(* Proofs about what happens to packets: the queues of PacketTransport, for *)
(* any number of sequence numbers, any window below it, any packet sizes   *)
(* and behaviours of any length, and the block encryption of BlockCrypt,   *)
(* for any size of a block and of the data.                                *)
(***************************************************************************)
EXTENDS PacketTransport, Sequential, SequenceTheorems, FiniteSetTheorems,
        WellFoundedInduction, TLAPS

------------------------------------------------------------------------------
(* Arithmetic modulo m.                                                    *)

LEMMA Division ==
  ASSUME NEW a \in Int, NEW m \in Nat \ {0}
  PROVE  /\ a % m \in 0..(m - 1) /\ a \div m \in Int
         /\ a = (m * (a \div m)) + (a % m)
  OBVIOUS

LEMMA Remainder ==
  ASSUME NEW m \in Nat \ {0}, NEW q \in Int, NEW r \in 0..(m - 1),
         NEW a \in Int, a = (m * q) + r
  PROVE  a % m = r
  <1>1. PICK p \in Int, z \in 0..(m - 1) : z = a % m /\ a = (m * p) + z
    <2>1. /\ a % m \in 0..(m - 1) /\ a \div m \in Int
          /\ a = (m * (a \div m)) + (a % m)
      BY Division, Zenon
    <2> QED
      BY <2>1, Zenon
  <1>2. PICK x \in Int, y \in Int : x = m * p /\ y = m * q
    OBVIOUS
  <1>3. x + z = y + r
    BY <1>1, <1>2
  <1>4. ASSUME p >= q + 1 PROVE FALSE
    <2>1. m * (p - q) >= m
      BY <1>4
    <2>2. x - y >= m
      BY <2>1, <1>2
    <2> QED
      BY <2>2, <1>3
  <1>5. ASSUME q >= p + 1 PROVE FALSE
    <2>1. m * (q - p) >= m
      BY <1>5
    <2>2. y - x >= m
      BY <2>1, <1>2
    <2> QED
      BY <2>2, <1>3
  <1>6. p = q
    BY <1>4, <1>5
  <1> QED
    BY <1>1, <1>2, <1>3, <1>6

LEMMA SmallMod ==
  ASSUME NEW m \in Nat \ {0}, NEW r \in 0..(m - 1) PROVE r % m = r
  <1>1. r = (m * 0) + r
    OBVIOUS
  <1> QED
    BY <1>1, Remainder, 0 \in Int

LEMMA ModPlus ==
  ASSUME NEW m \in Nat \ {0}, NEW a \in Int, NEW b \in Int
  PROVE  ((a % m) + b) % m = (a + b) % m
  <1>1. PICK p \in Int, z \in 0..(m - 1) : z = a % m /\ a = (m * p) + z
    <2>1. /\ a % m \in 0..(m - 1) /\ a \div m \in Int
          /\ a = (m * (a \div m)) + (a % m)
      BY Division, Zenon
    <2> QED
      BY <2>1, Zenon
  <1>2. PICK q \in Int, r \in 0..(m - 1) : r = (z + b) % m /\ z + b = (m * q) + r
    BY Division, z + b \in Int
  <1>3. PICK t \in Int : t = p + q
    OBVIOUS
  <1>4. PICK x \in Int, y \in Int : x = m * p /\ y = m * q /\ m * t = x + y
    BY <1>3
  <1>5. PICK c \in Int : c = a + b
    OBVIOUS
  <1>6. a = x + z /\ z + b = y + r
    BY <1>1, <1>2, <1>4
  <1>7. c = (x + y) + r
    BY <1>5, <1>6
  <1>8. c % m = r
    BY <1>4, <1>7, Remainder
  <1> QED
    BY <1>1, <1>2, <1>5, <1>8

LEMMA ModMinus ==
  ASSUME NEW m \in Nat \ {0}, NEW a \in Int, NEW b \in Int
  PROVE  ((a % m) - (b % m)) % m = (a - b) % m
  <1>1. PICK p \in Int, z \in 0..(m - 1) : z = b % m /\ b = (m * p) + z
    BY Division
  <1>2. PICK y \in 0..(m - 1) : y = a % m
    BY Division
  <1>3. (y + (-z)) % m = (a + (-z)) % m
    BY <1>2, ModPlus, -z \in Int
  <1>4. y + (-z) = y - z /\ a + (-z) = a - z
    OBVIOUS
  <1>5. PICK q \in Int, r \in 0..(m - 1) : r = (a - b) % m /\ a - b = (m * q) + r
    BY Division, a - b \in Int
  <1>6. PICK t \in Int : t = p + q
    OBVIOUS
  <1>7. PICK u \in Int, v \in Int : u = m * p /\ v = m * q /\ m * t = u + v
    BY <1>6
  <1>8. PICK c \in Int : c = a - z
    OBVIOUS
  <1>9. b = u + z /\ a - b = v + r
    BY <1>1, <1>5, <1>7
  <1>10. c = (u + v) + r
    BY <1>8, <1>9
  <1>11. c % m = r
    BY <1>7, <1>10, Remainder
  <1> QED
    BY <1>1, <1>2, <1>3, <1>4, <1>5, <1>8, <1>11

LEMMA ModInjective ==
  ASSUME NEW m \in Nat \ {0}, NEW a \in Int, NEW b \in Int,
         a % m = b % m, a - b < m, b - a < m
  PROVE  a = b
  <1>1. PICK z \in 0..(m - 1) : z = a % m /\ z = b % m
    BY Division
  <1>2. z - z = 0 /\ 0 % m = 0
    BY SmallMod, 0 \in 0..(m - 1)
  <1>3. (a - b) % m = 0
    BY <1>1, <1>2, ModMinus
  <1>4. (b - a) % m = 0
    BY <1>1, <1>2, ModMinus
  <1>5. a - b >= 0 => a - b = 0
    BY <1>3, SmallMod
  <1>6. b - a >= 0 => b - a = 0
    BY <1>4, SmallMod
  <1> QED
    BY <1>5, <1>6

------------------------------------------------------------------------------
(* What Among() selects.  Its recursion is followed with sets of natural   *)
(* numbers that hold 0 and are closed under successor.                     *)

LEMMA SetInduction ==
  ASSUME NEW H \in SUBSET Nat, 0 \in H, \A n \in H : n + 1 \in H
  PROVE  H = Nat
  <1> DEFINE Less == OpToRel(<, Nat)
             Rest == Nat \ H
  <1>1. SUFFICES ASSUME Rest # {} PROVE FALSE
    OBVIOUS
  <1>2. IsWellFoundedOn(Less, Nat)
    BY NatLessThanWellFounded
  <1>3. \A x, y \in Nat : y < x => <<y, x>> \in Less
    BY DEF OpToRel
  <1> HIDE DEF Less
  <1>4. PICK n \in Rest : \A k \in Rest : <<k, n>> \notin Less
    BY <1>1, <1>2, WFMin, Rest \subseteq Nat
  <1>5. n \in Nat /\ n # 0 /\ n - 1 \in Nat /\ n - 1 < n
    OBVIOUS
  <1>6. n - 1 \in H
    BY <1>3, <1>4, <1>5
  <1>7. (n - 1) + 1 \in H /\ (n - 1) + 1 = n
    BY <1>5, <1>6
  <1> QED
    BY <1>7

\* Concatenation over R is associative.
Associates(R) == \A v, w \in Seq(R) : \A e \in R : Append(v \o w, e) = v \o Append(w, e)

\* Appending to a concatenation appends to its second part.
LEMMA AppendToConcat == \A R : Associates(R)
  <1> TAKE R
  <1> USE DEF Associates
  <1> TAKE v, w \in Seq(R)
  <1> TAKE e \in R
  <1>1. PICK y \in Seq(R) : y = <<e>>
    <2>1. e \in R => <<e>> \in Seq(R)
      OBVIOUS
    <2> QED
      BY <2>1, Zenon
  <1>2. Append(w, e) = w \o y
    BY <1>1, AppendIsConcat, Zenon
  <1>3. v \o w \in Seq(R)
    BY ConcatProperties
  <1>4. Append(v \o w, e) = (v \o w) \o y
    BY <1>1, <1>3, AppendIsConcat, Zenon
  <1>5. (v \o w) \o y = v \o (w \o y)
    BY <1>1, ConcatAssociative, SMTT(20)
  <1> QED
    BY <1>2, <1>4, <1>5, Zenon

\* What the recursive function inside Among(s, D) satisfies up to n.
Chooses(c, s, D, n) ==
  c = [k \in 0..n |-> IF k = 0 THEN <<>>
                      ELSE IF s[k] \in D THEN Append(c[k - 1], s[k]) ELSE c[k - 1]]

\* One turn of the recursion.
LEMMA ChoosesAt ==
  ASSUME NEW s, NEW D, NEW n \in Nat, NEW c, Chooses(c, s, D, n), NEW k \in 1..n
  PROVE  c[k] = IF s[k] \in D THEN Append(c[k - 1], s[k]) ELSE c[k - 1]
  <1>1. k \in 0..n /\ k # 0
    OBVIOUS
  <1>2. c[k] = IF k = 0 THEN <<>>
               ELSE IF s[k] \in D THEN Append(c[k - 1], s[k]) ELSE c[k - 1]
    BY <1>1, Zenon DEF Chooses
  <1> QED
    BY <1>1, <1>2, Zenon

\* The recursion has a solution, by induction on the length.
LEMMA ChoosesExists ==
  ASSUME NEW s, NEW D, NEW n \in Nat PROVE \E c : Chooses(c, s, D, n)
  <1> DEFINE H == {k \in Nat : \E c : Chooses(c, s, D, k)}
  <1>1. 0 \in H
    <2>1. Chooses([k \in 0..0 |-> <<>>], s, D, 0)
      BY DEF Chooses
    <2> QED
      BY <2>1
  <1>2. ASSUME NEW k \in H PROVE k + 1 \in H
    <2>1. PICK c : Chooses(c, s, D, k)
      OBVIOUS
    <2> DEFINE d == [i \in 0..(k + 1) |-> IF i <= k THEN c[i]
                       ELSE IF s[k + 1] \in D THEN Append(c[k], s[k + 1]) ELSE c[k]]
    <2>2. \A i \in 0..(k + 1) :
            d[i] = IF i = 0 THEN <<>>
                   ELSE IF s[i] \in D THEN Append(d[i - 1], s[i]) ELSE d[i - 1]
      <3> SUFFICES ASSUME NEW i \in 0..(k + 1)
                   PROVE  d[i] = IF i = 0 THEN <<>>
                          ELSE IF s[i] \in D THEN Append(d[i - 1], s[i]) ELSE d[i - 1]
        OBVIOUS
      <3>1. CASE i = k + 1
        BY <3>1
      <3>2. CASE i = 0
        BY <3>2, <2>1 DEF Chooses
      <3>3. CASE i \in 1..k
        <4>1. d[i] = c[i] /\ d[i - 1] = c[i - 1]
          BY <3>3
        <4>2. c[i] = IF s[i] \in D THEN Append(c[i - 1], s[i]) ELSE c[i - 1]
          BY <3>3, <2>1, ChoosesAt
        <4> QED
          BY <3>3, <4>1, <4>2
      <3> QED
        BY <3>1, <3>2, <3>3
    <2>3. Chooses(d, s, D, k + 1)
      BY <2>2 DEF Chooses
    <2> QED
      BY <2>3
  <1>3. H = Nat
    BY <1>1, <1>2, SetInduction
  <1> QED
    BY <1>3

\* Among() by its values on the prefixes of the sequence.
LEMMA AmongUnfold ==
  ASSUME NEW s, NEW D, Len(s) \in Nat
  PROVE  \E c : /\ Among(s, D) = c[Len(s)] /\ c[0] = <<>>
                /\ \A k \in 1..Len(s) :
                     c[k] = IF s[k] \in D THEN Append(c[k - 1], s[k]) ELSE c[k - 1]
  <1> DEFINE c == CHOOSE c : Chooses(c, s, D, Len(s))
  <1>1. Chooses(c, s, D, Len(s))
    BY ChoosesExists
  <1>2. Among(s, D) = c[Len(s)]
    BY Zenon DEF Among, Chooses
  <1> HIDE DEF c
  <1>3. c[0] = <<>>
    BY <1>1 DEF Chooses
  <1>4. \A k \in 1..Len(s) :
          c[k] = IF s[k] \in D THEN Append(c[k - 1], s[k]) ELSE c[k - 1]
    BY <1>1, ChoosesAt
  <1> QED
    BY <1>2, <1>3, <1>4

\* Among() selects elements of the sequence that are in the set.
LEMMA AmongType ==
  ASSUME NEW X, NEW D, NEW s \in Seq(X) PROVE Among(s, D) \in Seq(X \cap D)
  <1>1. PICK c : /\ Among(s, D) = c[Len(s)] /\ c[0] = <<>>
                 /\ \A k \in 1..Len(s) :
                      c[k] = IF s[k] \in D THEN Append(c[k - 1], s[k]) ELSE c[k - 1]
    BY AmongUnfold
  <1> DEFINE H == {k \in Nat : k <= Len(s) => c[k] \in Seq(X \cap D)}
  <1>2. 0 \in H
    BY <1>1, EmptySeq, <<>> \in Seq(X \cap D)
  <1>3. ASSUME NEW k \in H PROVE k + 1 \in H
    <2>1. SUFFICES ASSUME k + 1 <= Len(s) PROVE c[k + 1] \in Seq(X \cap D)
      OBVIOUS
    <2>2. c[k] \in Seq(X \cap D) /\ s[k + 1] \in X
      BY <2>1
    <2>3. c[k + 1] = IF s[k + 1] \in D THEN Append(c[k], s[k + 1]) ELSE c[k]
      BY <1>1, <2>1
    <2> QED
      BY <2>2, <2>3
  <1>4. H = Nat
    BY <1>2, <1>3, SetInduction
  <1> QED
    BY <1>1, <1>4

\* The choice from a concatenation is the concatenation of the choices.
LEMMA AmongConcat ==
  ASSUME NEW X, NEW D, NEW s \in Seq(X), NEW t \in Seq(X)
  PROVE  Among(s \o t, D) = Among(s, D) \o Among(t, D)
  <1>1. PICK a : /\ Among(s, D) = a[Len(s)] /\ a[0] = <<>>
                 /\ \A k \in 1..Len(s) :
                      a[k] = IF s[k] \in D THEN Append(a[k - 1], s[k]) ELSE a[k - 1]
    BY AmongUnfold
  <1>2. PICK b : /\ Among(t, D) = b[Len(t)] /\ b[0] = <<>>
                 /\ \A k \in 1..Len(t) :
                      b[k] = IF t[k] \in D THEN Append(b[k - 1], t[k]) ELSE b[k - 1]
    BY AmongUnfold
  <1> DEFINE u == s \o t
  <1>3. /\ u \in Seq(X) /\ Len(u) = Len(s) + Len(t)
        /\ \A k \in 1..Len(s) : u[k] = s[k]
        /\ \A k \in 1..Len(t) : u[Len(s) + k] = t[k]
    OBVIOUS
  <1> HIDE DEF u
  <1>4. PICK c : /\ Among(u, D) = c[Len(u)] /\ c[0] = <<>>
                 /\ \A k \in 1..Len(u) :
                      c[k] = IF u[k] \in D THEN Append(c[k - 1], u[k]) ELSE c[k - 1]
    BY AmongUnfold
  <1> DEFINE First == {k \in Nat : k <= Len(s) => c[k] = a[k]}
  <1>5. First = Nat
    <2>1. 0 \in First
      BY <1>1, <1>4
    <2>2. ASSUME NEW k \in First, k + 1 <= Len(s) PROVE c[k + 1] = a[k + 1]
      <3>1. c[k] = a[k] /\ u[k + 1] = s[k + 1] /\ k + 1 \in 1..Len(s) /\ k + 1 \in 1..Len(u)
        BY <1>3, <2>2
      <3>2. c[k + 1] = IF u[k + 1] \in D THEN Append(c[k], u[k + 1]) ELSE c[k]
        BY <1>4, <3>1
      <3>3. a[k + 1] = IF s[k + 1] \in D THEN Append(a[k], s[k + 1]) ELSE a[k]
        BY <1>1, <3>1
      <3> QED
        BY <3>1, <3>2, <3>3
    <2>3. \A k \in First : k + 1 \in First
      BY <2>2
    <2> QED
      BY <2>1, <2>3, SetInduction
  <1>6. c[Len(s)] = Among(s, D) /\ Among(s, D) \in Seq(X \cap D)
    BY <1>1, <1>5, AmongType
  <1> HIDE DEF First
  <1>assoc. Associates(X \cap D)
    BY AppendToConcat, Zenon
  <1> DEFINE m == Len(s)
             x == Among(s, D)
             Second == {k \in Nat : k <= Len(t) => /\ b[k] \in Seq(X \cap D)
                                                   /\ c[m + k] = x \o b[k]}
  <1>7. Second = Nat
    <2>1. 0 \in Second
      BY <1>2, <1>6, EmptySeq, ConcatEmptySeq, m + 0 = m
    <2>2. ASSUME NEW k \in Second PROVE k + 1 \in Second
      <3>1. SUFFICES ASSUME k + 1 <= Len(t)
                     PROVE  b[k + 1] \in Seq(X \cap D) /\ c[m + (k + 1)] = x \o b[k + 1]
        OBVIOUS
      <3>2. /\ b[k] \in Seq(X \cap D) /\ c[m + k] = x \o b[k]
            /\ u[m + (k + 1)] = t[k + 1] /\ t[k + 1] \in X /\ k + 1 \in 1..Len(t)
            /\ m + (k + 1) \in 1..Len(u) /\ (m + (k + 1)) - 1 = m + k /\ (k + 1) - 1 = k
        BY <1>3, <3>1
      <3>3. c[m + (k + 1)] = IF t[k + 1] \in D THEN Append(c[m + k], t[k + 1]) ELSE c[m + k]
        BY <1>4, <3>2
      <3>4. b[k + 1] = IF t[k + 1] \in D THEN Append(b[k], t[k + 1]) ELSE b[k]
        BY <1>2, <3>2
      <3>5. CASE t[k + 1] \in D
        <4>1. x \in Seq(X \cap D) /\ b[k] \in Seq(X \cap D) /\ t[k + 1] \in X \cap D
          BY <1>6, <3>2, <3>5
        <4>2. Append(x \o b[k], t[k + 1]) = x \o Append(b[k], t[k + 1])
          BY <1>assoc, <4>1, Zenon DEF Associates
        <4>3. Append(b[k], t[k + 1]) \in Seq(X \cap D)
          BY <3>2, <3>5, AppendProperties, t[k + 1] \in X \cap D
        <4> QED
          BY <3>2, <3>3, <3>4, <3>5, <4>2, <4>3, Zenon
      <3>6. CASE t[k + 1] \notin D
        BY <3>2, <3>3, <3>4, <3>6
      <3> QED
        BY <3>5, <3>6
    <2> QED
      BY <2>1, <2>2, SetInduction
  <1>8. c[m + Len(t)] = x \o b[Len(t)]
    <2>1. Len(t) \in Second
      BY <1>7, LenProperties
    <2> QED
      BY <2>1
  <1> QED
    BY <1>2, <1>3, <1>4, <1>8 DEF u

\* The elements of a concatenation.
LEMMA ConcatParts ==
  ASSUME NEW X, NEW s \in Seq(X), NEW t \in Seq(X), NEW u, u = s \o t
  PROVE  /\ u \in Seq(X) /\ Len(u) = Len(s) + Len(t)
         /\ \A k \in 1..Len(s) : u[k] = s[k]
         /\ \A k \in 1..Len(t) : u[Len(s) + k] = t[k]
  OBVIOUS

\* What is chosen of a single element.
One(x, D) == IF x \in D THEN <<x>> ELSE <<>>

Two(x, y, D) == One(x, D) \o One(y, D)

\* Among() of a single element.
LEMMA AmongOne == ASSUME NEW x, NEW D PROVE Among(<<x>>, D) = One(x, D)
  <1>1. Len(<<x>>) = 1 /\ <<x>>[1] = x
    OBVIOUS
  <1>2. PICK s : s = <<x>> /\ Len(s) = 1 /\ s[1] = x /\ Len(s) \in Nat
    <2>1. 1 \in Nat
      OBVIOUS
    <2> QED
      BY <1>1, <2>1, Zenon
  <1>3. PICK c : /\ Among(s, D) = c[Len(s)] /\ c[0] = <<>>
                 /\ \A k \in 1..Len(s) :
                      c[k] = IF s[k] \in D THEN Append(c[k - 1], s[k]) ELSE c[k - 1]
    <2>1. Len(s) \in Nat
      BY <1>2
    <2> QED
      BY <2>1, AmongUnfold, SMTT(20)
  <1>4. c[1] = IF x \in D THEN Append(<<>>, x) ELSE <<>>
    <2>1. 1 \in 1..Len(s) /\ 1 - 1 = 0
      BY <1>2
    <2>2. c[1] = IF s[1] \in D THEN Append(c[1 - 1], s[1]) ELSE c[1 - 1]
      BY <1>3, <2>1, Zenon
    <2> QED
      BY <1>2, <1>3, <2>1, <2>2, Zenon
  <1>5. Append(<<>>, x) = <<x>>
    OBVIOUS
  <1> QED
    BY <1>2, <1>3, <1>4, <1>5, Zenon DEF One

\* Two single elements make a pair.
LEMMA Pair == ASSUME NEW x, NEW y PROVE <<x>> \o <<y>> = <<x, y>>
  <1>1. PICK X : x \in X /\ y \in X
    BY x \in {x, y} /\ y \in {x, y}
  <1>2. <<x>> \in Seq(X) /\ <<y>> \in Seq(X)
    BY <1>1
  <1>3. PICK v \in Seq(X), w \in Seq(X) : v = <<x>> /\ w = <<y>>
    BY <1>2, Zenon
  <1>4. Len(v) = 1 /\ Len(w) = 1 /\ v[1] = x /\ w[1] = y
    BY <1>3
  <1>5. PICK u : u = v \o w
    OBVIOUS
  <1>6. /\ u \in Seq(X) /\ Len(u) = Len(v) + Len(w)
        /\ \A i \in 1..Len(v) : u[i] = v[i]
        /\ \A i \in 1..Len(w) : u[Len(v) + i] = w[i]
    BY <1>5, ConcatParts
  <1>7. Len(u) = 2 /\ u[1] = x /\ u[1 + 1] = y
    BY <1>4, <1>6, 1 \in 1..1
  <1>8. u = [i \in 1..2 |-> u[i]]
    <2>1. u \in Seq(X) /\ Len(u) = 2
      BY <1>6, <1>7
    <2> QED
      BY <2>1
  <1>9. \A i \in 1..2 : i = 1 \/ i = 2
    OBVIOUS
  <1>10. u = <<x, y>>
    BY <1>7, <1>8, <1>9
  <1> QED
    BY <1>3, <1>5, <1>10, Zenon

\* What two more elements add to the choice.
ChoosesTwo(X) ==
  \A s \in Seq(X), x, y \in X : \A u, D : u = s \o <<x, y>> =>
    /\ u \in Seq(X)
    /\ Among(u, D) = Among(s, D) \o Two(x, y, D)

\* Among() of a sequence that grew by two elements.
LEMMA AmongTwo == \A X : ChoosesTwo(X)
  <1> TAKE X
  <1> USE DEF ChoosesTwo
  <1> TAKE s \in Seq(X), x, y \in X
  <1> TAKE u, D
  <1> HAVE u = s \o <<x, y>>
  <1>1. <<x>> \in Seq(X) /\ <<y>> \in Seq(X)
    OBVIOUS
  <1>2. PICK v \in Seq(X), w \in Seq(X) : v = <<x>> /\ w = <<y>>
    BY <1>1, Zenon
  <1>3. Among(v \o w, D) = Among(v, D) \o Among(w, D)
    BY AmongConcat, Zenon
  <1>4. Among(<<x, y>>, D) = Two(x, y, D)
    BY <1>2, <1>3, Pair, AmongOne, Zenon DEF Two
  <1>5. <<x, y>> \in Seq(X) /\ s \o <<x, y>> \in Seq(X)
    OBVIOUS
  <1>6. Among(s \o <<x, y>>, D) = Among(s, D) \o Among(<<x, y>>, D)
    BY <1>5, AmongConcat
  <1> QED
    BY <1>4, <1>5, <1>6, Zenon

\* Only which elements of the sequence are in the set matters.
LEMMA AmongSame ==
  ASSUME NEW X, NEW D, NEW F, NEW s \in Seq(X), X \cap D = X \cap F
  PROVE  Among(s, D) = Among(s, F)
  <1>1. PICK a : /\ Among(s, D) = a[Len(s)] /\ a[0] = <<>>
                 /\ \A k \in 1..Len(s) :
                      a[k] = IF s[k] \in D THEN Append(a[k - 1], s[k]) ELSE a[k - 1]
    BY AmongUnfold
  <1>2. PICK b : /\ Among(s, F) = b[Len(s)] /\ b[0] = <<>>
                 /\ \A k \in 1..Len(s) :
                      b[k] = IF s[k] \in F THEN Append(b[k - 1], s[k]) ELSE b[k - 1]
    BY AmongUnfold
  <1> DEFINE H == {k \in Nat : k <= Len(s) => a[k] = b[k]}
  <1>3. 0 \in H
    BY <1>1, <1>2
  <1>4. ASSUME NEW k \in H, k + 1 <= Len(s) PROVE a[k + 1] = b[k + 1]
    <2>1. a[k] = b[k] /\ (s[k + 1] \in D <=> s[k + 1] \in F) /\ k + 1 \in 1..Len(s)
      BY <1>4
    <2>2. a[k + 1] = IF s[k + 1] \in D THEN Append(a[k], s[k + 1]) ELSE a[k]
      BY <1>1, <2>1
    <2>3. b[k + 1] = IF s[k + 1] \in F THEN Append(b[k], s[k + 1]) ELSE b[k]
      BY <1>2, <2>1
    <2> QED
      BY <2>1, <2>2, <2>3
  <1>5. H = Nat
    <2>1. \A k \in H : k + 1 \in H
      BY <1>4
    <2> QED
      BY <1>3, <2>1, SetInduction
  <1> QED
    BY <1>1, <1>2, <1>5

------------------------------------------------------------------------------
(* The inductive invariant.                                                *)

Sized == {p \in Data : p.size > 0}

\* Every packet pushed has a body of at least one byte.
Types ==
  /\ used \in Nat /\ consumed \in Nat /\ forgotten \in Nat /\ disturbed \in BOOLEAN
  /\ s_end \in Seqs /\ r_start \in Seqs
  /\ pushed \in Seq({p \in Packets : p.size > 0}) /\ delivered \in Seq(Packets)
  /\ forgotten <= consumed /\ used - forgotten <= Window

\* Wherever a packet is, it was pushed or has been moved from.
Known == ToSet(pushed) \cup {Empty}
Integrity ==
  /\ \A i \in DOMAIN s_packets : s_packets[i] \in Known
  /\ \A d \in net : d.packet \in Known
  /\ \A i \in DOMAIN r_packets : r_packets[i] \in Known
  /\ ToSet(delivered) \subseteq ToSet(pushed)

\* The send queue is the window of numbers not yet forgotten, each with its
\* packet; a datagram carries the packet of its number; the receive queue holds
\* packets of numbers used and not yet consumed; what was consumed is delivered.
SendWindow ==
  /\ Len(pushed) = used /\ s_end = used % SeqCount
  /\ DOMAIN s_packets = {n % SeqCount : n \in (forgotten + 1)..used}
  /\ \A n \in (forgotten + 1)..used : s_packets[n % SeqCount] = pushed[n]
NetWindow ==
  \A d \in net : /\ d.number \in 1..used /\ d.id = d.number % SeqCount
                 /\ d.packet = pushed[d.number]
RecvWindow ==
  /\ consumed <= used /\ r_start = (consumed + 1) % SeqCount
  /\ \A i \in DOMAIN r_packets :
       \E n \in (consumed + 1)..used : i = n % SeqCount /\ r_packets[i] = pushed[n]
Consumed == delivered = Among(SubSeq(pushed, 1, consumed), Data)

TransportInv ==
  /\ Types /\ Integrity
  /\ ~disturbed => SendWindow /\ NetWindow /\ RecvWindow /\ Consumed

LEMMA SamePrefix ==
  ASSUME NEW X, NEW s \in Seq(X), NEW t \in Seq(X), NEW n \in Nat,
         n <= Len(s), n <= Len(t), \A k \in 1..n : s[k] = t[k]
  PROVE  SubSeq(s, 1, n) = SubSeq(t, 1, n)
  <1> DEFINE p == SubSeq(s, 1, n)
             q == SubSeq(t, 1, n)
  <1>1. p \in Seq(X) /\ q \in Seq(X) /\ Len(p) = n /\ Len(q) = n
    OBVIOUS
  <1>2. \A k \in 1..n : p[k] = q[k]
    OBVIOUS
  <1> HIDE DEF p, q
  <1>3. p = q
    BY <1>1, <1>2, SeqEqual
  <1> QED
    BY <1>3 DEF p, q

LEMMA Modulus == SeqCount \in Nat \ {0} /\ Window \in Nat /\ Window < SeqCount
  BY TransportAssumption

\* The loop from the number a to the number b visits the numbers between them.
LEMMA RangeOfNumbers ==
  ASSUME NEW a \in Int, NEW b \in Int, a <= b, b - a < SeqCount
  PROVE  /\ SeqRange(a % SeqCount, b % SeqCount)
              = [k \in 1..(b - a) |-> (a + (k - 1)) % SeqCount]
         /\ ToSet(SeqRange(a % SeqCount, b % SeqCount)) = {n % SeqCount : n \in a..(b - 1)}
  <1>1. ((b % SeqCount) - (a % SeqCount)) % SeqCount = b - a
    BY Modulus, ModMinus, SmallMod, b - a \in 0..(SeqCount - 1)
  <1>2. ASSUME NEW k \in 1..(b - a)
        PROVE  ((a % SeqCount) + k - 1) % SeqCount = (a + (k - 1)) % SeqCount
    <2>1. PICK z \in Int : z = a % SeqCount
      BY Modulus, Division
    <2>2. (z + (k - 1)) % SeqCount = (a + (k - 1)) % SeqCount
      BY <2>1, Modulus, ModPlus, k - 1 \in Int
    <2>3. z + k - 1 = z + (k - 1)
      OBVIOUS
    <2> QED
      BY <2>1, <2>2, <2>3
  <1>3. SeqRange(a % SeqCount, b % SeqCount) = [k \in 1..(b - a) |-> (a + (k - 1)) % SeqCount]
    BY <1>1, <1>2 DEF SeqRange
  <1>4. ToSet([k \in 1..(b - a) |-> (a + (k - 1)) % SeqCount])
          = {n % SeqCount : n \in a..(b - 1)}
    <2>1. ASSUME NEW n \in a..(b - 1) PROVE \E k \in 1..(b - a) : n = a + (k - 1)
      <3>1. n - a + 1 \in 1..(b - a) /\ n = a + ((n - a + 1) - 1)
        OBVIOUS
      <3> QED
        BY <3>1
    <2>2. \A k \in 1..(b - a) : a + (k - 1) \in a..(b - 1)
      OBVIOUS
    <2> QED
      BY <2>1, <2>2 DEF ToSet
  <1> QED
    BY <1>3, <1>4

\* push_packets() with sizes that are not 0.
LEMMA PushStep ==
  ASSUME TransportInv, NEW sizes \in Seq(Nat \ {0}), push_packets(sizes)
  PROVE  TransportInv'
  <1> DEFINE n == Len(sizes)
             packet(k) == [size |-> sizes[k], body |-> Len(pushed) + k]
             seq(k) == (s_end + k) % SeqCount
             new == [k \in 1..n |-> packet(k)]
             Pushable == {p \in Packets : p.size > 0}
  <1>1. /\ used + n - forgotten <= Window
        /\ s_packets' = emplace(s_packets, [i \in {seq(k) : k \in 1..n} |->
                                              packet(CHOOSE k \in 1..n : seq(k) = i)])
        /\ s_end' = seq(n) /\ used' = used + n
        /\ pushed' = pushed \o new
        /\ UNCHANGED <<forgotten, net, r_packets, r_start, delivered, consumed, disturbed>>
    BY DEF push_packets, receiver
  <1>2. n \in Nat /\ pushed \in Seq(Pushable) /\ used \in Nat /\ forgotten \in Nat /\ s_end \in Int
    BY Modulus DEF TransportInv, Types, Seqs
  <1>3. \A k \in 1..n : packet(k) \in Pushable
    BY <1>2 DEF Packets
  <1>4. new \in Seq(Pushable) /\ Len(new) = n
    BY <1>2, <1>3
  <1> DEFINE old == Len(pushed)
  <1>5. /\ old \in Nat /\ pushed' \in Seq(Pushable) /\ Len(pushed') = old + n
        /\ \A k \in 1..old : pushed'[k] = pushed[k]
        /\ \A k \in 1..n : pushed'[old + k] = packet(k)
    <2> HIDE DEF packet
    <2>1. \A k \in 1..n : new[k] = packet(k)
      OBVIOUS
    <2> HIDE DEF new, n, Pushable
    <2>2. /\ pushed' \in Seq(Pushable) /\ Len(pushed') = Len(pushed) + Len(new)
          /\ \A k \in 1..Len(pushed) : pushed'[k] = pushed[k]
          /\ \A k \in 1..Len(new) : pushed'[Len(pushed) + k] = new[k]
      <3>1. PICK u : u = pushed'
        OBVIOUS
      <3>2. u = pushed \o new /\ pushed \in Seq(Pushable) /\ new \in Seq(Pushable)
        BY <1>1, <1>2, <1>4, <3>1
      <3>3. /\ u \in Seq(Pushable) /\ Len(u) = Len(pushed) + Len(new)
            /\ \A k \in 1..Len(pushed) : u[k] = pushed[k]
            /\ \A k \in 1..Len(new) : u[Len(pushed) + k] = new[k]
        BY <3>2, ConcatParts
      <3> QED
        BY <3>1, <3>3
    <2> QED
      BY <1>2, <1>4, <2>1, <2>2
  <1>6. ToSet(pushed) \subseteq ToSet(pushed') /\ \A k \in 1..n : packet(k) \in ToSet(pushed')
    <2> HIDE DEF packet
    <2>1. DOMAIN pushed = 1..old /\ DOMAIN pushed' = 1..(old + n)
      BY <1>2, <1>5
    <2>2. \A k \in 1..n : old + k \in 1..(old + n)
      BY <1>2, <1>5
    <2>3. 1..old \subseteq 1..(old + n)
      BY <1>2, <1>5
    <2> QED
      BY <1>5, <2>1, <2>2, <2>3 DEF ToSet
  <1> HIDE DEF packet
  <1>7. Types'
    <2>1. s_end' \in Seqs
      BY <1>1, <1>2, Modulus, Division DEF Seqs
    <2>2. used' \in Nat /\ forgotten' <= consumed' /\ used' - forgotten' <= Window
      BY <1>1, <1>2 DEF TransportInv, Types
    <2>3. pushed' \in Seq(Pushable)
      BY <1>5
    <2> QED
      BY <1>1, <2>1, <2>2, <2>3 DEF TransportInv, Types
  <1>8. ASSUME NEW i \in DOMAIN s_packets'
        PROVE  \/ i \in DOMAIN s_packets /\ s_packets'[i] = s_packets[i]
               \/ /\ i \notin DOMAIN s_packets
                  /\ \E k \in 1..n : i = seq(k) /\ s_packets'[i] = packet(k)
    <2>1. CASE i \in DOMAIN s_packets
      BY <1>1, <2>1 DEF emplace
    <2>2. CASE i \notin DOMAIN s_packets
      <3>1. i \in {seq(k) : k \in 1..n}
        BY <1>1, <2>2 DEF emplace
      <3>2. PICK k : k = CHOOSE j \in 1..n : seq(j) = i
        OBVIOUS
      <3>3. k \in 1..n /\ seq(k) = i
        BY <3>1, <3>2
      <3>4. s_packets'[i] = packet(k)
        BY <1>1, <2>2, <3>1, <3>2 DEF emplace
      <3> QED
        BY <2>2, <3>3, <3>4
    <2> QED
      BY <2>1, <2>2
  <1>9. DOMAIN s_packets' = DOMAIN s_packets \cup {seq(k) : k \in 1..n}
    BY <1>1 DEF emplace
  <1>10. Integrity'
    BY <1>1, <1>6, <1>8 DEF TransportInv, Integrity, Known
  <1>11. ASSUME ~disturbed' PROVE SendWindow' /\ NetWindow' /\ RecvWindow' /\ Consumed'
    <2>1. ~disturbed /\ SendWindow /\ NetWindow /\ RecvWindow /\ Consumed /\ old = used
      BY <1>1, <1>11 DEF TransportInv, SendWindow
    <2>2. \A k \in Int : seq(k) = (used + k) % SeqCount
      <3>1. ASSUME NEW k \in Int
            PROVE  ((used % SeqCount) + k) % SeqCount = (used + k) % SeqCount
        BY <1>2, Modulus, ModPlus, used \in Int
      <3> QED
        BY <2>1, <3>1, Zenon DEF SendWindow
    <2>3. SendWindow'
      <3>1. Len(pushed') = used' /\ s_end' = used' % SeqCount
        BY <1>1, <1>2, <1>5, <2>1, <2>2
      <3>2. {m % SeqCount : m \in (forgotten + 1)..(used + n)}
              = {m % SeqCount : m \in (forgotten + 1)..used} \cup {(used + k) % SeqCount : k \in 1..n}
        <4>1. \A m \in (forgotten + 1)..(used + n) :
                m \in (forgotten + 1)..used \/ (m - used \in 1..n /\ m = used + (m - used))
          BY <1>2
        <4>2. \A m \in (forgotten + 1)..used : m \in (forgotten + 1)..(used + n)
          BY <1>2
        <4>3. \A k \in 1..n : used + k \in (forgotten + 1)..(used + n)
          BY <1>2, <2>1 DEF TransportInv, Types, RecvWindow
        <4> QED
          BY <4>1, <4>2, <4>3
      <3>3. DOMAIN s_packets' = {m % SeqCount : m \in (forgotten' + 1)..used'}
        <4>1. {seq(k) : k \in 1..n} = {(used + k) % SeqCount : k \in 1..n}
          BY <2>2
        <4>2. DOMAIN s_packets = {m % SeqCount : m \in (forgotten + 1)..used}
          BY <2>1 DEF SendWindow
        <4> QED
          BY <1>1, <1>9, <3>2, <4>1, <4>2
      <3>4. ASSUME NEW m \in (forgotten + 1)..(used + n)
            PROVE  s_packets'[m % SeqCount] = pushed'[m]
        <4>1. CASE m <= used
          <5>1. m % SeqCount \in DOMAIN s_packets /\ s_packets[m % SeqCount] = pushed[m]
            BY <1>2, <2>1, <4>1 DEF SendWindow
          <5>2. pushed'[m] = pushed[m]
            BY <1>2, <1>5, <2>1, <4>1
          <5> QED
            BY <1>8, <1>9, <5>1, <5>2
        <4>2. CASE m > used
          <5>1. m - used \in 1..n /\ m = used + (m - used)
            BY <1>2, <4>2
          <5>2. m % SeqCount \notin DOMAIN s_packets
            <6>1. SUFFICES ASSUME NEW l \in (forgotten + 1)..used, l % SeqCount = m % SeqCount
                           PROVE  FALSE
              BY <2>1 DEF SendWindow
            <6>2. m - l < SeqCount /\ l - m < SeqCount /\ m \in Int /\ l \in Int
              <7>1. (used + n) - forgotten <= Window /\ Window < SeqCount /\ Window \in Nat
                BY <1>1, <1>2, Modulus
              <7>2. m \in Int /\ l \in Int /\ m <= used + n /\ l >= forgotten + 1 /\ l < m
                BY <1>2, <4>2
              <7> QED
                BY <1>2, <7>1, <7>2, Modulus
            <6>3. l = m
              BY <6>1, <6>2, Modulus, ModInjective
            <6> QED
              BY <1>2, <4>2, <6>3
          <5>3. m % SeqCount \in DOMAIN s_packets'
            BY <1>1, <3>3
          <5>4. PICK k \in 1..n : m % SeqCount = seq(k) /\ s_packets'[m % SeqCount] = packet(k)
            BY <1>8, <5>2, <5>3
          <5>5. m = used + k
            <6>1. (used + k) % SeqCount = m % SeqCount
              BY <2>2, <5>4
            <6>2. m - (used + k) < SeqCount /\ (used + k) - m < SeqCount
                  /\ m \in Int /\ used + k \in Int
              <7>1. m - used \in 1..n /\ k \in 1..n /\ n < SeqCount /\ m \in Int
                <8>1. (used + n) - forgotten <= Window /\ Window < SeqCount /\ Window \in Nat
                  BY <1>1, <1>2, Modulus
                <8>2. forgotten <= used
                  BY <1>2, <2>1 DEF TransportInv, Types, RecvWindow
                <8> QED
                  BY <1>2, <5>1, <8>1, <8>2, Modulus
              <7> QED
                BY <1>2, <7>1, Modulus
            <6> QED
              BY <6>1, <6>2, Modulus, ModInjective
          <5> QED
            BY <1>5, <2>1, <5>4, <5>5
        <4> QED
          BY <1>2, <4>1, <4>2
      <3> QED
        BY <1>1, <3>1, <3>3, <3>4 DEF SendWindow
    <2>4. NetWindow'
      BY <1>1, <1>2, <1>5, <2>1 DEF NetWindow
    <2>5. RecvWindow'
      <3>1. ASSUME NEW i \in DOMAIN r_packets
            PROVE  \E m \in (consumed + 1)..(used + n) :
                     i = m % SeqCount /\ r_packets[i] = pushed'[m]
        <4>1. PICK m \in (consumed + 1)..used : i = m % SeqCount /\ r_packets[i] = pushed[m]
          BY <2>1 DEF RecvWindow
        <4>2. m \in (consumed + 1)..(used + n) /\ m \in 1..old
          BY <1>2, <2>1 DEF TransportInv, Types
        <4> QED
          BY <1>5, <4>1, <4>2
      <3>2. consumed <= used + n
        BY <1>2, <2>1 DEF RecvWindow, TransportInv, Types
      <3> QED
        BY <1>1, <2>1, <3>1, <3>2 DEF RecvWindow
    <2>6. Consumed'
      <3>1. SubSeq(pushed', 1, consumed) = SubSeq(pushed, 1, consumed)
        <4>1. consumed \in Nat /\ consumed <= old /\ consumed <= Len(pushed')
          BY <1>2, <1>5, <2>1 DEF RecvWindow, TransportInv, Types
        <4> QED
          BY <1>2, <1>5, <4>1, SamePrefix
      <3> QED
        BY <1>1, <2>1, <3>1 DEF Consumed
    <2> QED
      BY <2>3, <2>4, <2>5, <2>6
  <1> QED
    BY <1>7, <1>10, <1>11 DEF TransportInv

\* The packets push_buffer() makes are not empty.
LEMMA BufferSplit ==
  ASSUME NEW bytes \in BufferSizes, NEW n, n = (bytes + mtu - 1) \div mtu
  PROVE  [k \in 1..n |-> IF k < n THEN mtu ELSE bytes - (n - 1) * mtu] \in Seq(Nat \ {0})
  <1>1. bytes \in Nat \ {0} /\ mtu \in Nat \ {0}
    BY TransportAssumption
  <1>2. PICK a \in Nat : a = bytes + mtu - 1
    BY <1>1
  <1>3. PICK r \in 0..(mtu - 1) : n \in Int /\ a = (mtu * n) + r
    <2>1. n = a \div mtu /\ a \in Int
      BY <1>2
    <2>2. /\ a % mtu \in 0..(mtu - 1) /\ a \div mtu \in Int
          /\ a = (mtu * (a \div mtu)) + (a % mtu)
      BY <1>1, <2>1, Division
    <2> QED
      BY <2>1, <2>2
  <1>4. n >= 0
    <2>1. SUFFICES ASSUME n <= -1 PROVE FALSE
      BY <1>3
    <2>2. mtu * (-1 - n) >= 0
      BY <1>1, <1>3, <2>1
    <2>3. PICK x \in Int : x = mtu * n /\ x <= -mtu
      BY <1>1, <1>3, <2>2
    <2> QED
      BY <1>1, <1>2, <1>3, <2>3
  <1>5. PICK y \in Int : y = (n - 1) * mtu /\ y = (mtu * n) - mtu
    BY <1>1, <1>3
  <1>6. bytes - y >= 1
    <2>1. PICK x \in Int : x = mtu * n
      BY <1>1, <1>3
    <2>2. y = x - mtu /\ a = x + r
      BY <1>3, <1>5, <2>1
    <2> QED
      BY <1>1, <1>2, <2>2
  <1>7. bytes - (n - 1) * mtu \in Nat \ {0}
    BY <1>1, <1>5, <1>6
  <1> QED
    BY <1>1, <1>3, <1>4, <1>7

LEMMA MoveStep ==
  ASSUME TransportInv, NEW seq \in DOMAIN s_packets, move_packet_up(seq)
  PROVE  TransportInv'
  <1>1. disturbed' = TRUE
    BY DEF move_packet_up
  <1>2. Types'
    <2>1. s_end' = (s_end + 1) % SeqCount /\ s_end \in Int
      BY Modulus DEF TransportInv, Types, Seqs, move_packet_up
    <2>2. s_end' \in Seqs
      BY <2>1, Modulus, Division, s_end + 1 \in Int DEF Seqs
    <2>3. used - forgotten < Window /\ used' = used + 1
          /\ UNCHANGED <<pushed, forgotten, r_start, delivered, consumed>>
      BY DEF move_packet_up, receiver
    <2> QED
      BY <1>1, <2>2, <2>3, Modulus DEF TransportInv, Types
  <1>3. Known' = Known
    BY DEF Known, move_packet_up
  <1>4. ASSUME NEW i \in DOMAIN s_packets' PROVE s_packets'[i] \in Known
    <2> DEFINE new_seq == (s_end + 1) % SeqCount
               old == [s_packets EXCEPT ![seq] = IF new_seq \in DOMAIN s_packets THEN @ ELSE Empty]
    <2>1. s_packets' = emplace(old, [j \in {new_seq} |-> s_packets[seq]])
      BY DEF move_packet_up
    <2>2. \A j \in DOMAIN s_packets : s_packets[j] \in Known
      BY DEF TransportInv, Integrity
    <2>3. DOMAIN old = DOMAIN s_packets /\ \A j \in DOMAIN old : old[j] \in Known
      BY <2>2 DEF Known
    <2> HIDE DEF old
    <2> QED
      BY <2>1, <2>2, <2>3 DEF emplace
  <1>5. Integrity'
    BY <1>3, <1>4 DEF Integrity, TransportInv, move_packet_up, receiver
  <1> QED
    BY <1>1, <1>2, <1>5 DEF TransportInv

LEMMA ForgetStep ==
  ASSUME TransportInv, forget_consumed
  PROVE  TransportInv'
  <1> DEFINE start == (r_start - (consumed - forgotten)) % SeqCount
  <1>1. /\ s_packets' = clear_range(s_packets, start, r_start)
        /\ forgotten' = consumed /\ forgotten < consumed
        /\ UNCHANGED <<s_end, pushed, used, net, r_packets, r_start, delivered, consumed, disturbed>>
    BY DEF forget_consumed, receiver
  <1>2. used \in Nat /\ consumed \in Nat /\ forgotten \in Nat /\ used - forgotten <= Window
    BY DEF TransportInv, Types
  <1>3. Types'
    BY <1>1, <1>2, Modulus DEF TransportInv, Types
  <1>4. /\ DOMAIN s_packets' = DOMAIN s_packets \ ToSet(SeqRange(start, r_start))
        /\ \A i \in DOMAIN s_packets' : s_packets'[i] = s_packets[i]
    BY <1>1 DEF clear_range
  <1>5. Integrity'
    BY <1>1, <1>4 DEF TransportInv, Integrity, Known
  <1>6. ASSUME ~disturbed' PROVE SendWindow' /\ NetWindow' /\ RecvWindow' /\ Consumed'
    <2>1. ~disturbed /\ SendWindow /\ NetWindow /\ RecvWindow /\ Consumed /\ consumed <= used
      BY <1>1, <1>6 DEF TransportInv, RecvWindow
    <2>2. start = (forgotten + 1) % SeqCount
      <3>1. PICK d \in Int : d = -(consumed - forgotten)
        BY <1>2
      <3>2. (((consumed + 1) % SeqCount) + d) % SeqCount = (consumed + 1 + d) % SeqCount
        BY <1>2, Modulus, ModPlus, consumed + 1 \in Int
      <3>3. r_start \in Int /\ r_start = (consumed + 1) % SeqCount
        BY <2>1, Modulus DEF TransportInv, Types, Seqs, RecvWindow
      <3>4. r_start - (consumed - forgotten) = r_start + d /\ consumed + 1 + d = forgotten + 1
        BY <1>2, <3>1, <3>3
      <3> QED
        BY <3>2, <3>3, <3>4
    <2>3. ToSet(SeqRange(start, r_start)) = {n % SeqCount : n \in (forgotten + 1)..consumed}
      <3>1. /\ forgotten + 1 \in Int /\ consumed + 1 \in Int /\ forgotten + 1 <= consumed + 1
            /\ (consumed + 1) - (forgotten + 1) < SeqCount /\ (consumed + 1) - 1 = consumed
        BY <1>1, <1>2, <2>1, Modulus
      <3> QED
        BY <2>1, <2>2, <3>1, RangeOfNumbers DEF RecvWindow
    <2>4. DOMAIN s_packets' = {n % SeqCount : n \in (consumed + 1)..used}
      <3>1. DOMAIN s_packets = {n % SeqCount : n \in (forgotten + 1)..used}
        BY <2>1 DEF SendWindow
      <3>2. \A n \in (consumed + 1)..used, l \in (forgotten + 1)..consumed :
              n % SeqCount # l % SeqCount
        <4> SUFFICES ASSUME NEW n \in (consumed + 1)..used, NEW l \in (forgotten + 1)..consumed,
                            n % SeqCount = l % SeqCount
                     PROVE  FALSE
          OBVIOUS
        <4>1. n - l < SeqCount /\ l - n < SeqCount /\ n \in Int /\ l \in Int /\ n # l
          BY <1>2, Modulus
        <4> QED
          BY <4>1, Modulus, ModInjective
      <3>3. \A n \in (forgotten + 1)..used :
              n \in (forgotten + 1)..consumed \/ n \in (consumed + 1)..used
        BY <1>2
      <3>4. \A n \in (consumed + 1)..used : n \in (forgotten + 1)..used
        BY <1>1, <1>2
      <3> QED
        BY <1>4, <2>3, <3>1, <3>2, <3>3, <3>4
    <2>5. \A n \in (consumed + 1)..used : n \in (forgotten + 1)..used
      BY <1>1, <1>2
    <2>6. SendWindow'
      BY <1>1, <1>4, <2>1, <2>4, <2>5 DEF SendWindow
    <2> QED
      BY <1>1, <2>1, <2>6 DEF NetWindow, RecvWindow, Consumed
  <1> QED
    BY <1>3, <1>5, <1>6 DEF TransportInv

LEMMA SendStep ==
  ASSUME TransportInv, NEW seq \in DOMAIN s_packets, send_packet(seq)
  PROVE  TransportInv'
  <1> DEFINE d == [id |-> seq, packet |-> s_packets[seq], number |-> number(seq)]
  <1>1. /\ net' = net \cup {d}
        /\ UNCHANGED <<s_packets, s_end, pushed, used, forgotten>>
        /\ UNCHANGED <<r_packets, r_start, delivered, consumed, disturbed>>
    BY DEF send_packet, sender, receiver
  <1>2. Types'
    BY <1>1 DEF TransportInv, Types
  <1>3. Integrity'
    BY <1>1 DEF TransportInv, Integrity, Known
  <1>4. ASSUME ~disturbed' PROVE SendWindow' /\ NetWindow' /\ RecvWindow' /\ Consumed'
    <2>1. ~disturbed /\ SendWindow /\ NetWindow /\ RecvWindow /\ Consumed
      BY <1>1, <1>4 DEF TransportInv
    <2>2. PICK n \in (forgotten + 1)..used : seq = n % SeqCount /\ s_packets[seq] = pushed[n]
      BY <2>1 DEF SendWindow
    <2>3. /\ used \in Nat /\ forgotten \in Nat /\ used - n \in 0..(SeqCount - 1)
          /\ n \in Int /\ n \in 1..used
      BY Modulus DEF TransportInv, Types
    <2>4. (s_end - seq) % SeqCount = used - n
      <3>1. ((used % SeqCount) - (n % SeqCount)) % SeqCount = (used - n) % SeqCount
        BY <2>3, Modulus, ModMinus, used \in Int
      <3> QED
        BY <2>1, <2>2, <2>3, <3>1, Modulus, SmallMod DEF SendWindow
    <2>5. number(seq) = n
      BY <2>3, <2>4 DEF number
    <2>6. NetWindow'
      BY <1>1, <2>1, <2>2, <2>3, <2>5 DEF NetWindow
    <2> QED
      BY <1>1, <2>1, <2>6 DEF SendWindow, RecvWindow, Consumed
  <1> QED
    BY <1>2, <1>3, <1>4 DEF TransportInv

LEMMA RecvStep ==
  ASSUME TransportInv, NEW d \in net, recv_packet(d)
  PROVE  TransportInv'
  <1>1. /\ disturbed' = (disturbed \/ d.number <= consumed)
        /\ r_packets' = emplace(r_packets, [i \in {d.id} |-> d.packet])
        /\ UNCHANGED <<s_packets, s_end, pushed, used, forgotten>>
        /\ UNCHANGED <<net, r_start, delivered, consumed>>
    BY DEF recv_packet, sender
  <1>2. Types'
    BY <1>1 DEF TransportInv, Types
  <1>3. ASSUME NEW i \in DOMAIN r_packets'
        PROVE  \/ i \in DOMAIN r_packets /\ r_packets'[i] = r_packets[i]
               \/ i = d.id /\ r_packets'[i] = d.packet
    BY <1>1 DEF emplace
  <1>4. Integrity'
    BY <1>1, <1>3 DEF TransportInv, Integrity, Known
  <1>5. ASSUME ~disturbed' PROVE SendWindow' /\ NetWindow' /\ RecvWindow' /\ Consumed'
    <2>1. ~disturbed /\ ~(d.number <= consumed)
      BY <1>1, <1>5 DEF TransportInv, Types
    <2>2. SendWindow /\ NetWindow /\ RecvWindow /\ Consumed
      BY <2>1 DEF TransportInv
    <2>3. d.number \in (consumed + 1)..used /\ d.id = d.number % SeqCount
          /\ d.packet = pushed[d.number]
      BY <2>1, <2>2 DEF NetWindow, TransportInv, Types
    <2>4. RecvWindow'
      BY <1>1, <1>3, <2>2, <2>3 DEF RecvWindow
    <2> QED
      BY <1>1, <2>2, <2>4 DEF SendWindow, NetWindow, Consumed
  <1> QED
    BY <1>2, <1>4, <1>5 DEF TransportInv

LEMMA ReadStep ==
  ASSUME TransportInv, NEW end \in Seqs, read(end)
  PROVE  TransportInv'
  <1> DEFINE range == SeqRange(r_start, end)
             L == Len(range)
             packets == [k \in DOMAIN range |-> r_packets[range[k]]]
             copied == Among(packets, Sized)
  <1>1. /\ find_missing_packets(r_start, end) = {}
        /\ delivered' = delivered \o copied
        /\ r_packets' = clear_range(r_packets, r_start, end)
        /\ r_start' = end /\ consumed' = consumed + L
        /\ UNCHANGED <<s_packets, s_end, pushed, used, forgotten, net, disturbed>>
    <2>1. compute_range_size(r_start, end) >= 0
      BY DEF read
    <2>2. find_missing_packets(r_start, end) # {} => compute_range_size(r_start, end) = -1
      BY Zenon DEF compute_range_size
    <2>3. find_missing_packets(r_start, end) = {}
      BY <2>1, <2>2
    <2> QED
      BY <2>3 DEF read, copy_data, Sized, sender
  <1>2. /\ used \in Nat /\ consumed \in Nat /\ forgotten \in Nat /\ used - forgotten <= Window
        /\ forgotten <= consumed /\ r_start \in Int /\ end \in Int
        /\ pushed \in Seq({p \in Packets : p.size > 0}) /\ delivered \in Seq(Packets)
    BY Modulus DEF TransportInv, Types, Seqs
  <1>3. L = (end - r_start) % SeqCount /\ L \in 0..(SeqCount - 1) /\ DOMAIN range = 1..L
    <2>1. PICK l \in 0..(SeqCount - 1) : l = (end - r_start) % SeqCount
      BY <1>2, Modulus, Division, end - r_start \in Int
    <2>2. range = [k \in 1..l |-> (r_start + k - 1) % SeqCount]
      BY <2>1 DEF SeqRange
    <2> QED
      BY <2>1, <2>2
  <1>4. \A k \in 1..L : range[k] \in DOMAIN r_packets
    BY <1>1, <1>3 DEF find_missing_packets, ToSet
  <1> HIDE DEF range, L
  <1>5. packets \in Seq(Known) /\ Len(packets) = L
    <2>1. \A k \in 1..L : packets[k] \in Known
      BY <1>3, <1>4 DEF TransportInv, Integrity
    <2>2. packets \in [1..L -> Known]
      <3>1. packets = [k \in 1..L |-> packets[k]]
        BY <1>3, Zenon
      <3> HIDE DEF packets
      <3> QED
        BY <2>1, <3>1
    <2>3. L \in Nat
      BY <1>3, Modulus
    <2> HIDE DEF packets
    <2> QED
      BY <2>2, <2>3
  <1> HIDE DEF packets
  <1>6. copied \in Seq(Known \cap Sized)
    BY <1>5, AmongType
  <1>7. Known \cap Sized \subseteq ToSet(pushed) /\ Known \cap Sized \subseteq Packets
    BY DEF Known, Sized, Data, Empty
  <1> HIDE DEF copied
  <1>8. Types'
    <2>1. copied \in Seq(Packets)
      BY <1>6, <1>7
    <2>2. delivered' \in Seq(Packets)
      BY <1>1, <1>2, <2>1
    <2>3. r_start' \in Seqs /\ consumed' \in Nat /\ forgotten' <= consumed'
      <3>1. r_start' \in Seqs
        BY <1>1 DEF TransportInv, Types
      <3>2. consumed' = consumed + L /\ L \in Nat /\ forgotten' = forgotten
        BY <1>1, <1>3, Modulus
      <3> QED
        BY <1>2, <3>1, <3>2
    <2> QED
      BY <1>1, <2>2, <2>3 DEF TransportInv, Types
  <1>9. \A i \in DOMAIN r_packets' : i \in DOMAIN r_packets \ ToSet(range) /\ r_packets'[i] = r_packets[i]
    BY <1>1 DEF clear_range, range
  <1>10. Integrity'
    <2>1. ToSet(delivered') \subseteq ToSet(pushed)
      <3>1. PICK X : X = ToSet(pushed)
        OBVIOUS
      <3>2. delivered \in Seq(X)
        BY <1>2, <3>1 DEF TransportInv, Integrity, ToSet
      <3>3. copied \in Seq(X)
        BY <1>6, <1>7, <3>1
      <3>4. delivered' \in Seq(X)
        BY <1>1, <3>2, <3>3
      <3> QED
        BY <3>1, <3>4 DEF ToSet
    <2> QED
      BY <1>1, <1>9, <2>1 DEF TransportInv, Integrity, Known
  <1>11. ASSUME ~disturbed' PROVE SendWindow' /\ NetWindow' /\ RecvWindow' /\ Consumed'
    <2>1. ~disturbed /\ SendWindow /\ NetWindow /\ RecvWindow /\ Consumed
      BY <1>1, <1>11 DEF TransportInv
    <2>2. end = (consumed + 1 + L) % SeqCount
      <3>1. PICK c \in Int : c = consumed + 1 /\ r_start = c % SeqCount
        BY <1>2, <2>1 DEF RecvWindow
      <3>2. (L + r_start) % SeqCount = ((end - r_start) + r_start) % SeqCount
        BY <1>2, <1>3, Modulus, ModPlus, end - r_start \in Int
      <3>3. (end - r_start) + r_start = end /\ end % SeqCount = end
        <4>1. end \in 0..(SeqCount - 1)
          BY DEF Seqs
        <4>2. end % SeqCount = end
          BY <4>1, Modulus, SmallMod
        <4> QED
          BY <1>2, <4>2
      <3>4. (r_start + L) % SeqCount = (c + L) % SeqCount
        BY <1>3, <3>1, Modulus, ModPlus, L \in Int
      <3>5. L + r_start = r_start + L /\ c + L = consumed + 1 + L
        BY <1>2, <1>3, <3>1
      <3> QED
        BY <3>2, <3>3, <3>4, <3>5
    <2>3. range = [k \in 1..L |-> (consumed + k) % SeqCount]
      <3> DEFINE a == consumed + 1
                 b == consumed + 1 + L
      <3>1. a \in Int /\ b \in Int /\ a <= b /\ b - a < SeqCount /\ b - a = L
        BY <1>2, <1>3, Modulus
      <3>2. range = [k \in 1..(b - a) |-> (a + (k - 1)) % SeqCount]
        BY <2>1, <2>2, <3>1, RangeOfNumbers DEF range, RecvWindow
      <3>3. \A k \in 1..L : a + (k - 1) = consumed + k
        BY <1>2, <1>3, <3>1
      <3> QED
        BY <3>1, <3>2, <3>3
    <2>4. ASSUME NEW k \in 1..L
          PROVE  consumed + k <= used /\ r_packets[range[k]] = pushed[consumed + k]
      <3>1. PICK n \in (consumed + 1)..used :
              range[k] = n % SeqCount /\ r_packets[range[k]] = pushed[n]
        BY <1>4, <2>1 DEF RecvWindow
      <3>2. (consumed + k) % SeqCount = n % SeqCount
        BY <2>3, <3>1
      <3>3. /\ consumed + k \in Int /\ n \in Int
            /\ (consumed + k) - n < SeqCount /\ n - (consumed + k) < SeqCount
        BY <1>2, <1>3, Modulus
      <3>4. consumed + k = n
        BY <3>2, <3>3, Modulus, ModInjective
      <3> QED
        BY <3>1, <3>4
    <2>5. consumed + L <= used
      <3>1. CASE L = 0
        BY <1>2, <2>1, <3>1 DEF RecvWindow
      <3>2. CASE L # 0
        BY <1>3, <2>4, <3>2, L \in 1..L
      <3> QED
        BY <3>1, <3>2
    <2>6. RecvWindow'
      <3>1. ASSUME NEW i \in DOMAIN r_packets'
            PROVE  \E n \in (consumed + L + 1)..used : i = n % SeqCount /\ r_packets'[i] = pushed[n]
        <4>1. i \in DOMAIN r_packets /\ i \notin ToSet(range) /\ r_packets'[i] = r_packets[i]
          BY <1>9
        <4>2. PICK n \in (consumed + 1)..used : i = n % SeqCount /\ r_packets[i] = pushed[n]
          BY <2>1, <4>1 DEF RecvWindow
        <4>3. n > consumed + L
          <5>1. SUFFICES ASSUME n <= consumed + L PROVE FALSE
            BY <1>2, <1>3
          <5>2. PICK k \in 1..L : n = consumed + k
            <6>1. n - consumed \in 1..L /\ n = consumed + (n - consumed)
              BY <1>2, <1>3, <5>1
            <6> QED
              BY <6>1
          <5>3. range[k] = i
            BY <2>3, <4>2, <5>2
          <5> QED
            BY <1>3, <4>1, <5>3 DEF ToSet
        <4>4. n \in (consumed + L + 1)..used
          BY <1>2, <1>3, <4>3
        <4> QED
          BY <4>1, <4>2, <4>4
      <3>2. consumed + 1 + L = consumed + L + 1
        BY <1>2, <1>3
      <3> QED
        BY <1>1, <2>2, <2>5, <3>1, <3>2 DEF RecvWindow
    <2>7. Consumed'
      <3> DEFINE before == SubSeq(pushed, 1, consumed)
                 after == SubSeq(pushed, 1, consumed + L)
      <3>1. PICK P : P = {p \in Packets : p.size > 0}
        OBVIOUS
      <3>2. Len(pushed) = used /\ pushed \in Seq(P) /\ consumed <= used
        BY <1>2, <2>1, <3>1 DEF SendWindow, RecvWindow
      <3>3. /\ packets \in Seq(P)
            /\ \A k \in 1..L : packets[k] = pushed[consumed + k]
        <4>1. \A k \in 1..L : packets[k] = pushed[consumed + k] /\ consumed + k \in 1..used
          BY <1>2, <1>3, <2>4 DEF packets
        <4>2. \A k \in 1..L : packets[k] \in P
          BY <3>2, <4>1
        <4> QED
          BY <1>5, <4>1, <4>2
      <3>4. /\ before \in Seq(P) /\ Len(before) = consumed
            /\ after \in Seq(P) /\ Len(after) = consumed + L
            /\ \A k \in 1..consumed : before[k] = pushed[k]
            /\ \A k \in 1..(consumed + L) : after[k] = pushed[k]
        BY <1>2, <1>3, <2>5, <3>2
      <3> HIDE DEF before, after
      <3>5. after = before \o packets
        <4>1. PICK u : u = before \o packets
          OBVIOUS
        <4>2. /\ u \in Seq(P) /\ Len(u) = Len(before) + Len(packets)
              /\ \A k \in 1..Len(before) : u[k] = before[k]
              /\ \A k \in 1..Len(packets) : u[Len(before) + k] = packets[k]
          <5>1. before \in Seq(P) /\ packets \in Seq(P) /\ u = before \o packets
            BY <3>3, <3>4, <4>1
          <5> QED
            BY <5>1, ConcatParts
        <4>3. ASSUME NEW k \in 1..(consumed + L) PROVE u[k] = after[k]
          <5>1. CASE k <= consumed
            <6>1. k \in 1..consumed /\ Len(before) = consumed
              BY <1>2, <3>4, <5>1
            <6>2. u[k] = before[k]
              BY <4>2, <6>1
            <6>3. before[k] = pushed[k] /\ after[k] = pushed[k]
              BY <3>4, <6>1
            <6> QED
              BY <6>2, <6>3
          <5>2. CASE k > consumed
            <6>1. PICK j \in 1..L : k = consumed + j
              <7>1. k - consumed \in 1..L /\ k = consumed + (k - consumed)
                BY <1>2, <1>3, <5>2
              <7> QED
                BY <7>1
            <6>2. u[consumed + j] = packets[j]
              BY <1>5, <3>4, <4>2
            <6>3. packets[j] = pushed[consumed + j] /\ after[k] = pushed[k]
              BY <3>3, <3>4
            <6> QED
              BY <6>1, <6>2, <6>3
          <5> QED
            BY <1>2, <5>1, <5>2
        <4>4. u = after
          BY <1>5, <3>4, <4>2, <4>3, SeqEqual
        <4> QED
          BY <4>1, <4>4
      <3>6. Among(packets, Sized) = Among(packets, Data)
        <4>1. P \cap Sized = P \cap Data
          BY <3>1 DEF Sized, Data
        <4> QED
          BY <3>3, <4>1, AmongSame
      <3>7. Among(after, Data) = Among(before, Data) \o Among(packets, Data)
        BY <3>3, <3>4, <3>5, AmongConcat
      <3> QED
        BY <1>1, <2>1, <3>6, <3>7 DEF Consumed, before, after, copied
    <2> QED
      BY <1>1, <2>1, <2>6, <2>7 DEF SendWindow, NetWindow
  <1> QED
    BY <1>8, <1>10, <1>11 DEF TransportInv

\* The inductive invariant holds in every state, however datagrams are lost,
\* repeated and reordered, numbers wrap around and packets are renumbered.
THEOREM TransportInvariance == Spec => []TransportInv
  <1>1. Init => TransportInv
    <2> SUFFICES ASSUME Init PROVE TransportInv
      OBVIOUS
    <2> USE DEF Init
    <2>1. Types
      <3>1. 0 \in Seqs /\ 1 \in Seqs /\ Window \in Nat
        BY TransportAssumption DEF Seqs
      <3>2. <<>> \in Seq({p \in Packets : p.size > 0}) /\ <<>> \in Seq(Packets)
        BY EmptySeq
      <3>3. pushed = <<>> /\ delivered = <<>> /\ disturbed = FALSE
        OBVIOUS
      <3>4. /\ used \in Nat /\ consumed \in Nat /\ forgotten \in Nat
            /\ s_end \in Seqs /\ r_start \in Seqs
            /\ forgotten <= consumed /\ used - forgotten <= Window
        BY <3>1
      <3> QED
        BY <3>2, <3>3, <3>4, Zenon DEF Types
    <2>2. Integrity
      BY DEF Integrity, ToSet
    <2>3. SendWindow
      <3>1. 0 % SeqCount = 0
        BY Modulus, SmallMod, 0 \in 0..(SeqCount - 1)
      <3>2. (forgotten + 1)..used = {}
        OBVIOUS
      <3> QED
        BY <3>1, <3>2 DEF SendWindow
    <2>4. NetWindow
      BY DEF NetWindow
    <2>5. RecvWindow
      <3>1. 1 % SeqCount = 1
        BY TransportAssumption, SmallMod, 1 \in 0..(SeqCount - 1)
      <3> QED
        BY <3>1 DEF RecvWindow
    <2>6. Consumed
      <3>1. SubSeq(pushed, 1, consumed) = <<>>
        OBVIOUS
      <3>2. Among(<<>>, Data) = <<>>
        BY AmongUnfold, Len(<<>>) = 0
      <3> QED
        BY <3>1, <3>2 DEF Consumed
    <2> QED
      BY <2>1, <2>2, <2>3, <2>4, <2>5, <2>6 DEF TransportInv
  <1>2. TransportInv /\ [Next]_vars => TransportInv'
    <2> SUFFICES ASSUME TransportInv, [Next]_vars PROVE TransportInv'
      OBVIOUS
    <2>1. ASSUME NEW bytes \in ControlSizes, push_packet(bytes) PROVE TransportInv'
      <3>1. <<bytes>> \in Seq(Nat \ {0})
        BY TransportAssumption
      <3> QED
        BY <2>1, <3>1, PushStep DEF push_packet
    <2>2. ASSUME NEW bytes \in BufferSizes, push_buffer(bytes) PROVE TransportInv'
      BY <2>2, BufferSplit, PushStep DEF push_buffer
    <2>3. CASE UNCHANGED vars
      <3>1. UNCHANGED <<s_packets, s_end, pushed, used, forgotten>>
            /\ UNCHANGED <<r_packets, r_start, delivered, consumed, net, disturbed>>
        BY <2>3 DEF vars, sender, receiver
      <3>2. Types' /\ Integrity'
        BY <3>1 DEF TransportInv, Types, Integrity, Known
      <3>3. /\ SendWindow => SendWindow'
            /\ NetWindow => NetWindow'
            /\ RecvWindow => RecvWindow'
            /\ Consumed => Consumed'
        BY <3>1 DEF SendWindow, NetWindow, RecvWindow, Consumed
      <3> QED
        BY <3>1, <3>2, <3>3 DEF TransportInv
    <2> QED
      BY <2>1, <2>2, <2>3, MoveStep, ForgetStep, SendStep, RecvStep, ReadStep DEF Next
  <1> QED
    BY <1>1, <1>2, PTL DEF Spec

\* In-order, exactly-once delivery for any number of sequence numbers and any
\* window below it (packet_queue.h:107-156, 188-222).
THEOREM InOrderDelivery == Spec => []DeliveredInOrder
  <1>1. TransportInv => DeliveredInOrder
    <2> SUFFICES ASSUME TransportInv, ~disturbed
                 PROVE  IsPrefix(delivered, Among(pushed, Data))
      BY DEF DeliveredInOrder
    <2> DEFINE first == SubSeq(pushed, 1, consumed)
               rest == SubSeq(pushed, consumed + 1, Len(pushed))
    <2>1. PICK P : P = {p \in Packets : p.size > 0}
      OBVIOUS
    <2>2. /\ pushed \in Seq(P) /\ consumed \in Nat /\ consumed <= Len(pushed)
          /\ delivered = Among(first, Data)
      BY <2>1 DEF TransportInv, Types, SendWindow, RecvWindow, Consumed
    <2>3. first \in Seq(P) /\ rest \in Seq(P) /\ pushed = first \o rest
      <3>1. first \in Seq(P) /\ rest \in Seq(P)
        BY <2>2
      <3>2. first \o rest = SubSeq(pushed, 1, Len(pushed))
        BY <2>2, ConcatAdjacentSubSeq, 1 \in 1..(Len(pushed) + 1),
           consumed \in (1 - 1)..Len(pushed), Len(pushed) \in consumed..Len(pushed)
      <3>3. SubSeq(pushed, 1, Len(pushed)) = pushed
        BY <2>2, SubSeqFull
      <3> QED
        BY <3>1, <3>2, <3>3
    <2> HIDE DEF first, rest
    <2>4. Among(pushed, Data) = Among(first, Data) \o Among(rest, Data)
      BY <2>3, AmongConcat
    <2>5. PICK x, y : /\ x = Among(first, Data) /\ y = Among(rest, Data)
                      /\ x \in Seq(P \cap Data) /\ y \in Seq(P \cap Data)
      BY <2>3, AmongType
    <2>6. IsPrefix(x, x \o y)
      BY <2>5 DEF IsPrefix
    <2> QED
      BY <2>2, <2>4, <2>5, <2>6
  <1> QED
    BY <1>1, TransportInvariance, PTL

\* A packet the reader misses is still in the send queue (packet_queue.h:123-132).
THEOREM ResendPossible == Spec => []MissingCanBeResent
  <1>1. TransportInv => MissingCanBeResent
    <2> SUFFICES ASSUME TransportInv, ~disturbed,
                        NEW i \in find_missing_packets(r_start, (s_end + 1) % SeqCount)
                 PROVE  i \in DOMAIN s_packets
      BY DEF MissingCanBeResent
    <2>1. /\ used \in Nat /\ consumed \in Nat /\ forgotten \in Nat /\ forgotten <= consumed
          /\ used - forgotten <= Window /\ consumed <= used
          /\ s_end = used % SeqCount /\ r_start = (consumed + 1) % SeqCount
          /\ DOMAIN s_packets = {n % SeqCount : n \in (forgotten + 1)..used}
      BY DEF TransportInv, Types, SendWindow, RecvWindow
    <2>2. (s_end + 1) % SeqCount = (used + 1) % SeqCount
      BY <2>1, Modulus, ModPlus, used \in Int, 1 \in Int
    <2>3. /\ consumed + 1 \in Int /\ used + 1 \in Int /\ consumed + 1 <= used + 1
          /\ (used + 1) - (consumed + 1) < SeqCount /\ (used + 1) - 1 = used
      BY <2>1, Modulus
    <2>4. ToSet(SeqRange(r_start, (s_end + 1) % SeqCount))
            = {n % SeqCount : n \in (consumed + 1)..used}
      BY <2>1, <2>2, <2>3, RangeOfNumbers
    <2>5. \A n \in (consumed + 1)..used : n \in (forgotten + 1)..used
      BY <2>1
    <2> QED
      BY <2>1, <2>4, <2>5 DEF find_missing_packets
  <1> QED
    BY <1>1, TransportInvariance, PTL

\* Whatever copy_data() hands copied was pushed, also when packets are renumbered
\* and stale datagrams arrive (packet_queue.h:134-156, 212-218).
THEOREM DeliveryIntegrity == Spec => []DeliveredWasPushed
  <1>1. TransportInv => DeliveredWasPushed
    BY DEF TransportInv, Integrity, DeliveredWasPushed
  <1> QED
    BY <1>1, TransportInvariance, PTL

------------------------------------------------------------------------------
(* BlockCrypt.                                                             *)

\* The instance's Among() is the one the lemmas above are about.
LEMMA SameAmong == \A s, D : E!Among(s, D) = Among(s, D)
  BY Zenon DEF E!Among, Among

\* Where a block starts.
Start(k) == k * block_size

\* Blocks follow each other without a gap.
LEMMA Starts ==
  ASSUME block_size \in Nat \ {0}, NEW j \in Nat, NEW k \in Nat
  PROVE  /\ Start(k) \in Nat /\ Start(0) = 0 /\ Start(k + 1) = Start(k) + block_size
         /\ j < k => Start(j) + block_size <= Start(k)
  <1>1. Start(k) \in Nat /\ Start(0) = 0 /\ Start(k + 1) = Start(k) + block_size
    BY DEF Start
  <1>2. ASSUME j < k PROVE Start(j) + block_size <= Start(k)
    <2>1. PICK d \in Nat : k = (j + 1) + d
      BY <1>2, (k - j) - 1 \in Nat
    <2>2. PICK x \in Nat, y \in Nat : x = j * block_size /\ y = d * block_size
      OBVIOUS
    <2>3. k * block_size = (x + block_size) + y
      BY <2>1, <2>2
    <2> QED
      BY <2>2, <2>3 DEF Start
  <1> QED
    BY <1>1, <1>2

\* Every byte lies in a block, and in one only.
LEMMA Located ==
  ASSUME block_size \in Nat \ {0}, NEW b \in Nat
  PROVE  \E j \in Nat : /\ Start(j) <= b /\ b < Start(j) + block_size
                        /\ Start(j) = b - (b % block_size)
  <1>1. PICK q \in Int, r \in 0..(block_size - 1) :
          r = b % block_size /\ b = (block_size * q) + r
    <2>1. PICK m \in Nat \ {0} : m = block_size
      OBVIOUS
    <2>2. b % m \in 0..(m - 1) /\ b \div m \in Int /\ b = (m * (b \div m)) + (b % m)
      BY Division, b \in Int, Zenon
    <2> QED
      BY <2>1, <2>2, Zenon
  <1>2. q >= 0
    <2>1. ASSUME q <= -1 PROVE FALSE
      <3>1. block_size * (q + 1) <= 0
        BY <2>1
      <3>2. PICK z \in Int : z = block_size * q
        OBVIOUS
      <3>3. z + block_size <= 0
        BY <3>1, <3>2
      <3> QED
        BY <1>1, <3>2, <3>3
    <2> QED
      BY <2>1
  <1>3. Start(q) = block_size * q
    BY DEF Start
  <1> QED
    BY <1>1, <1>2, <1>3

\* The sums over the first k blocks.
BlockSums(k) == [i \in 1..k |-> E!Sum(Start(i - 1), Start(i - 1) + block_size)]

WithinSize(ops) == \A i \in DOMAIN ops : 0 <= ops[i].from /\ ops[i].to <= size

\* The steps made are steps on bytes of the message, and they have fed k blocks
\* to the sum.
Made(ops, k) ==
  /\ ops \in Seq(E!Operations)
  /\ WithinSize(ops)
  /\ E!Sums(ops) = BlockSums(k)

InBlock(b, j) == Start(j) <= b /\ b < Start(j) + block_size

\* The first k blocks were added to the sum and then enciphered, or deciphered and
\* then added, and nothing was done to other bytes.
Enciphered(ops, k) ==
  \A b, j \in Nat : InBlock(b, j) =>
    E!OnByte(ops, b) = IF j < k THEN <<E!Sum(Start(j), Start(j) + block_size),
                                       E!Aes(Start(j), Start(j) + block_size)>>
                       ELSE <<>>
Deciphered(ops, k) ==
  \A b, j \in Nat : InBlock(b, j) =>
    E!OnByte(ops, b) = IF j < k THEN <<E!Aes(Start(j), Start(j) + block_size),
                                       E!Sum(Start(j), Start(j) + block_size)>>
                       ELSE <<>>

\* The steps are operations on the range they are given.
LEMMA SumAesTypes ==
  ASSUME NEW from \in Int, NEW to \in Int
  PROVE  /\ E!Sum(from, to) \in E!Operations /\ E!Aes(from, to) \in E!Operations
         /\ E!Sum(from, to).op = "sum" /\ E!Aes(from, to).op = "aes"
         /\ E!Sum(from, to).from = from /\ E!Aes(from, to).from = from
         /\ E!Sum(from, to).to = to /\ E!Aes(from, to).to = to
  BY DEF E!Sum, E!Aes, E!Operations

\* The step's part of the choices.
LEMMA ChosenSum ==
  ASSUME NEW from \in Int, NEW to \in Int
  PROVE  /\ One(E!Sum(from, to), {o \in E!Operations : o.op = "sum"}) = <<E!Sum(from, to)>>
         /\ One(E!Aes(from, to), {o \in E!Operations : o.op = "sum"}) = <<>>
  BY SumAesTypes DEF One

\* A step is on the bytes of its range only.
LEMMA ChosenByte ==
  ASSUME NEW from \in Int, NEW to \in Int, NEW b \in Int
  PROVE  /\ One(E!Sum(from, to), {o \in E!Operations : o.from <= b /\ b < o.to}) =
              IF from <= b /\ b < to THEN <<E!Sum(from, to)>> ELSE <<>>
         /\ One(E!Aes(from, to), {o \in E!Operations : o.from <= b /\ b < o.to}) =
              IF from <= b /\ b < to THEN <<E!Aes(from, to)>> ELSE <<>>
  BY SumAesTypes DEF One

\* One more block is one more sum.
LEMMA BlockSumsGrow ==
  ASSUME block_size \in Nat \ {0}, NEW k \in Nat
  PROVE  /\ BlockSums(k) \in Seq(E!Operations)
         /\ BlockSums(k) \o <<E!Sum(Start(k), Start(k) + block_size)>> = BlockSums(k + 1)
  <1> DEFINE f(i) == E!Sum(Start(i - 1), Start(i - 1) + block_size)
  <1>1. \A i \in Nat \ {0} : f(i) \in E!Operations
    <2>1. \A i \in Nat \ {0} : Start(i - 1) \in Nat
      BY Starts
    <2> QED
      BY <2>1, SumAesTypes
  <1>2. BlockSums(k) = [i \in 1..k |-> f(i)] /\ BlockSums(k + 1) = [i \in 1..(k + 1) |-> f(i)]
    BY DEF BlockSums
  <1>3. f(k + 1) = E!Sum(Start(k), Start(k) + block_size)
    OBVIOUS
  <1> HIDE DEF f
  <1>4. BlockSums(k) \in Seq(E!Operations) /\ Len(BlockSums(k)) = k
    BY <1>1, <1>2
  <1>5. <<f(k + 1)>> \in Seq(E!Operations)
    BY <1>1, k + 1 \in Nat \ {0}
  <1>6. PICK u : u = BlockSums(k) \o <<f(k + 1)>>
    OBVIOUS
  <1>7. /\ u \in Seq(E!Operations) /\ Len(u) = Len(BlockSums(k)) + Len(<<f(k + 1)>>)
        /\ \A i \in 1..Len(BlockSums(k)) : u[i] = BlockSums(k)[i]
        /\ \A i \in 1..Len(<<f(k + 1)>>) : u[Len(BlockSums(k)) + i] = <<f(k + 1)>>[i]
    BY <1>4, <1>5, <1>6, ConcatParts
  <1>8. Len(u) = k + 1 /\ u[k + 1] = f(k + 1) /\ \A i \in 1..k : u[i] = f(i)
    BY <1>2, <1>4, <1>7
  <1>9. \A i \in 1..(k + 1) : u[i] = f(i)
    BY <1>8
  <1>10. u = [i \in 1..(k + 1) |-> f(i)]
    BY <1>7, <1>8, <1>9
  <1> QED
    BY <1>2, <1>3, <1>4, <1>6, <1>10

\* u has two steps more than ops.
OnSums(u, ops, x, y) ==
  E!Sums(u) = E!Sums(ops) \o Two(x, y, {o \in E!Operations : o.op = "sum"})
OnBytes(u, ops, x, y) ==
  \A b : E!OnByte(u, b) =
    E!OnByte(ops, b) \o Two(x, y, {o \in E!Operations : o.from <= b /\ b < o.to})

\* What two more steps add to the sums and to the steps on a byte.
LEMMA TwoChosen ==
  ASSUME NEW ops \in Seq(E!Operations), NEW x \in E!Operations, NEW y \in E!Operations,
         NEW u, u = ops \o <<x, y>>
  PROVE  u \in Seq(E!Operations) /\ OnSums(u, ops, x, y) /\ OnBytes(u, ops, x, y)
  <1>1. ChoosesTwo(E!Operations)
    BY AmongTwo, Zenon
  <1>2. ASSUME NEW D
        PROVE  u \in Seq(E!Operations) /\ Among(u, D) = Among(ops, D) \o Two(x, y, D)
    <2>1. \A p, q \in E!Operations : \A v, Q : v = ops \o <<p, q>> =>
            v \in Seq(E!Operations) /\ Among(v, Q) = Among(ops, Q) \o Two(p, q, Q)
      BY <1>1, Zenon DEF ChoosesTwo
    <2>2. \A q \in E!Operations : \A v, Q : v = ops \o <<x, q>> =>
            v \in Seq(E!Operations) /\ Among(v, Q) = Among(ops, Q) \o Two(x, q, Q)
      BY <2>1, Zenon
    <2>3. \A v, Q : v = ops \o <<x, y>> =>
            v \in Seq(E!Operations) /\ Among(v, Q) = Among(ops, Q) \o Two(x, y, Q)
      BY <2>2, Zenon
    <2> QED
      BY <2>3, Zenon
  <1> QED
    BY <1>2, SameAmong, Zenon DEF E!Sums, E!OnByte, OnSums, OnBytes

\* Two more steps inside the message leave all of them inside.
LEMMA TwoWithin ==
  ASSUME NEW ops \in Seq(E!Operations), NEW x \in E!Operations, NEW y \in E!Operations,
         size \in Nat, WithinSize(ops),
         0 <= x.from, x.to <= size, 0 <= y.from, y.to <= size,
         NEW u, u = ops \o <<x, y>>
  PROVE  WithinSize(u)
  <1> USE DEF WithinSize
  <1>1. <<x, y>> \in Seq(E!Operations)
    OBVIOUS
  <1>2. PICK t \in Seq(E!Operations) : t = <<x, y>>
    BY <1>1
  <1>3. /\ u \in Seq(E!Operations) /\ Len(u) = Len(ops) + Len(t)
        /\ \A i \in 1..Len(ops) : u[i] = ops[i]
        /\ \A i \in 1..Len(t) : u[Len(ops) + i] = t[i]
    BY <1>2, ConcatParts
  <1>4. Len(t) = 2 /\ t[1] = x /\ t[2] = y
    BY <1>2
  <1> TAKE i \in DOMAIN u
  <1>5. i \in 1..(Len(ops) + 2)
    BY <1>3, <1>4
  <1>6. CASE i \in 1..Len(ops)
    BY <1>3, <1>6
  <1>7. CASE i = Len(ops) + 1
    BY <1>3, <1>4, <1>7
  <1>8. CASE i = Len(ops) + 2
    BY <1>3, <1>4, <1>8
  <1> QED
    BY <1>5, <1>6, <1>7, <1>8

\* What the two steps are to the sum.
SumParts(f, t, g, v) ==
  LET sums == {o \in E!Operations : o.op = "sum"}
  IN  /\ Two(E!Sum(f, t), E!Aes(g, v), sums) = <<E!Sum(f, t)>>
      /\ Two(E!Aes(f, t), E!Sum(g, v), sums) = <<E!Sum(g, v)>>
      /\ Two(E!Aes(f, t), E!Aes(g, v), sums) = <<>>
      /\ Two(E!Sum(f, t), E!Sum(g, v), sums) = <<E!Sum(f, t), E!Sum(g, v)>>

\* Of two steps, the sums reach the running sum.
LEMMA TwoParts ==
  ASSUME NEW f \in Int, NEW t \in Int, NEW g \in Int, NEW v \in Int
  PROVE  SumParts(f, t, g, v)
  <1> DEFINE sums == {o \in E!Operations : o.op = "sum"}
             x == E!Sum(f, t)
             y == E!Aes(f, t)
             p == E!Sum(g, v)
             q == E!Aes(g, v)
  <1>1. /\ One(x, sums) = <<x>> /\ One(y, sums) = <<>>
        /\ One(p, sums) = <<p>> /\ One(q, sums) = <<>>
    BY ChosenSum
  <1> HIDE DEF x, y, p, q, sums
  <1>2. <<>> \o <<>> = <<>> /\ <<x>> \o <<>> = <<x>> /\ <<>> \o <<p>> = <<p>>
    OBVIOUS
  <1>3. <<x>> \o <<p>> = <<x, p>>
    BY Pair
  <1>4. /\ Two(x, q, sums) = <<x>> /\ Two(y, p, sums) = <<p>>
        /\ Two(y, q, sums) = <<>> /\ Two(x, p, sums) = <<x, p>>
    BY <1>1, <1>2, <1>3, Zenon DEF Two
  <1> QED
    BY <1>4 DEF x, y, p, q, sums, SumParts

On(x, b) == x.from <= b /\ b < x.to

\* Of two steps, those on a byte.
LEMMA TwoBytes ==
  ASSUME NEW x \in E!Operations, NEW y \in E!Operations, NEW b
  PROVE  Two(x, y, {o \in E!Operations : o.from <= b /\ b < o.to}) =
           IF On(x, b) THEN (IF On(y, b) THEN <<x, y>> ELSE <<x>>)
           ELSE (IF On(y, b) THEN <<y>> ELSE <<>>)
  <1> DEFINE here == {o \in E!Operations : o.from <= b /\ b < o.to}
  <1>1. (x \in here <=> On(x, b)) /\ (y \in here <=> On(y, b))
    BY DEF On
  <1> HIDE DEF here
  <1>2. <<>> \o <<>> = <<>> /\ <<x>> \o <<>> = <<x>> /\ <<>> \o <<y>> = <<y>>
    OBVIOUS
  <1>3. <<x>> \o <<y>> = <<x, y>>
    BY Pair
  <1>4. Two(x, y, here) = IF On(x, b) THEN (IF On(y, b) THEN <<x, y>> ELSE <<x>>)
                          ELSE (IF On(y, b) THEN <<y>> ELSE <<>>)
    BY <1>1, <1>2, <1>3, Zenon DEF Two, One
  <1> QED
    BY <1>4 DEF here

\* The steps on a byte are steps.
LEMMA OnByteType ==
  ASSUME NEW ops \in Seq(E!Operations), NEW b
  PROVE  E!OnByte(ops, b) \in Seq(E!Operations)
  <1>1. PICK D : D = {o \in E!Operations : o.from <= b /\ b < o.to}
    OBVIOUS
  <1>2. Among(ops, D) \in Seq(E!Operations \cap D)
    BY AmongType
  <1>3. E!Operations \cap D \subseteq E!Operations
    OBVIOUS
  <1>4. Among(ops, D) \in Seq(E!Operations)
    BY <1>2, <1>3, SeqDef
  <1> QED
    BY <1>1, <1>4, SameAmong, Zenon DEF E!OnByte

\* The steps on a byte, two more.
StepsOn(u, ops, x, y, b) ==
  /\ ~On(x, b) /\ ~On(y, b) => E!OnByte(u, b) = E!OnByte(ops, b)
  /\ E!OnByte(ops, b) = <<>> =>
       E!OnByte(u, b) = IF On(x, b) THEN (IF On(y, b) THEN <<x, y>> ELSE <<x>>)
                        ELSE (IF On(y, b) THEN <<y>> ELSE <<>>)
  /\ On(x, b) /\ On(y, b) => E!OnByte(u, b) = E!OnByte(ops, b) \o <<x, y>>
  /\ ~On(x, b) /\ On(y, b) => E!OnByte(u, b) = E!OnByte(ops, b) \o <<y>>
  /\ On(x, b) /\ ~On(y, b) => E!OnByte(u, b) = E!OnByte(ops, b) \o <<x>>

\* The steps on a byte after two more, by cases.
LEMMA ByteStep ==
  ASSUME NEW ops \in Seq(E!Operations), NEW x \in E!Operations, NEW y \in E!Operations,
         NEW u, OnBytes(u, ops, x, y), NEW b
  PROVE  StepsOn(u, ops, x, y, b)
  <1> DEFINE here == {o \in E!Operations : o.from <= b /\ b < o.to}
  <1>1. E!OnByte(u, b) = E!OnByte(ops, b) \o Two(x, y, here)
    BY Zenon DEF OnBytes
  <1>2. Two(x, y, here) = IF On(x, b) THEN (IF On(y, b) THEN <<x, y>> ELSE <<x>>)
                          ELSE (IF On(y, b) THEN <<y>> ELSE <<>>)
    BY TwoBytes
  <1> HIDE DEF here
  <1>3. PICK s \in Seq(E!Operations) : s = E!OnByte(ops, b)
    BY OnByteType
  <1>4. s \o <<>> = s
    BY ConcatEmptySeq
  <1>5. /\ <<>> \o <<x, y>> = <<x, y>> /\ <<>> \o <<x>> = <<x>> /\ <<>> \o <<y>> = <<y>>
        /\ <<>> \o <<>> = <<>>
    OBVIOUS
  <1> QED
    BY <1>1, <1>2, <1>3, <1>4, <1>5, Zenon DEF StepsOn

\* One more block.
LEMMA EncipherBlock ==
  ASSUME block_size \in Nat \ {0}, size \in Nat, NEW k \in Nat, Start(k) + block_size <= size,
         NEW ops, Made(ops, k), Enciphered(ops, k),
         NEW u, u = ops \o <<E!Sum(Start(k), Start(k) + block_size),
                             E!Aes(Start(k), Start(k) + block_size)>>
  PROVE  Made(u, k + 1) /\ Enciphered(u, k + 1)
  <1>1. PICK p \in Nat : p = Start(k)
    BY Starts
  <1>2. PICK x, y : x = E!Sum(p, p + block_size) /\ y = E!Aes(p, p + block_size)
    OBVIOUS
  <1>3. /\ x \in E!Operations /\ y \in E!Operations
        /\ x.from = p /\ x.to = p + block_size /\ y.from = p /\ y.to = p + block_size
    BY <1>2, SumAesTypes
  <1>4. u = ops \o <<x, y>>
    BY <1>1, <1>2, Zenon
  <1>5. ops \in Seq(E!Operations) /\ WithinSize(ops)
    BY DEF Made
  <1>6. u \in Seq(E!Operations) /\ OnSums(u, ops, x, y) /\ OnBytes(u, ops, x, y)
    BY <1>3, <1>4, <1>5, TwoChosen, Zenon
  <1>7. WithinSize(u)
    <2>1. 0 <= x.from /\ x.to <= size /\ 0 <= y.from /\ y.to <= size
      BY <1>1, <1>3
    <2> QED
      BY <1>3, <1>4, <1>5, <2>1, TwoWithin, Zenon
  <1>8. E!Sums(u) = BlockSums(k + 1)
    <2>1. E!Sums(u) = BlockSums(k) \o <<x>>
      <3>1. SumParts(p, p + block_size, p, p + block_size)
        BY TwoParts, p \in Int, p + block_size \in Int
      <3> QED
        BY <1>2, <1>6, <3>1, Zenon DEF OnSums, Made, SumParts
    <2> QED
      BY <1>1, <1>2, <2>1, BlockSumsGrow, Zenon
  <1>steps. \A b : StepsOn(u, ops, x, y, b)
    BY <1>3, <1>5, <1>6, ByteStep, Zenon
  <1>9. ASSUME NEW b \in Nat, NEW j \in Nat, InBlock(b, j)
        PROVE  E!OnByte(u, b) = IF j < k + 1 THEN <<E!Sum(Start(j), Start(j) + block_size),
                                                    E!Aes(Start(j), Start(j) + block_size)>>
                                ELSE <<>>
    <2>1. E!OnByte(ops, b) = IF j < k THEN <<E!Sum(Start(j), Start(j) + block_size),
                                             E!Aes(Start(j), Start(j) + block_size)>>
                             ELSE <<>>
      BY <1>9, Zenon DEF Enciphered
    <2>2. CASE j = k
      <3>1. On(x, b) /\ On(y, b)
        BY <1>1, <1>3, <1>9, <2>2 DEF On, InBlock
      <3>2. E!OnByte(ops, b) = <<>> /\ j < k + 1
        BY <2>1, <2>2
      <3>3. E!OnByte(u, b) = <<x, y>>
        BY <1>steps, <3>1, <3>2, Zenon DEF StepsOn
      <3> QED
        BY <1>1, <1>2, <2>2, <3>2, <3>3, Zenon
    <2>3. CASE j # k
      <3>1. PICK q \in Nat : q = Start(j)
        BY Starts
      <3>2. q + block_size <= p \/ p + block_size <= q
        BY <1>1, <2>3, <3>1, Starts
      <3>3. ~On(x, b) /\ ~On(y, b)
        BY <1>3, <1>9, <3>1, <3>2 DEF On, InBlock
      <3>4. E!OnByte(u, b) = E!OnByte(ops, b)
        BY <1>steps, <3>3, Zenon DEF StepsOn
      <3>5. j < k <=> j < k + 1
        BY <2>3
      <3> QED
        BY <2>1, <3>4, <3>5, Zenon
    <2> QED
      BY <2>2, <2>3
  <1> QED
    BY <1>6, <1>7, <1>8, <1>9 DEF Made, Enciphered

\* One more block of decrypt().
LEMMA DecipherBlock ==
  ASSUME block_size \in Nat \ {0}, size \in Nat, NEW k \in Nat, Start(k) + block_size <= size,
         NEW ops, Made(ops, k), Deciphered(ops, k),
         NEW u, u = ops \o <<E!Aes(Start(k), Start(k) + block_size),
                             E!Sum(Start(k), Start(k) + block_size)>>
  PROVE  Made(u, k + 1) /\ Deciphered(u, k + 1)
  <1>1. PICK p \in Nat : p = Start(k)
    BY Starts
  <1>2. PICK x, y : x = E!Aes(p, p + block_size) /\ y = E!Sum(p, p + block_size)
    OBVIOUS
  <1>3. /\ x \in E!Operations /\ y \in E!Operations
        /\ x.from = p /\ x.to = p + block_size /\ y.from = p /\ y.to = p + block_size
    BY <1>2, SumAesTypes
  <1>4. u = ops \o <<x, y>>
    BY <1>1, <1>2, Zenon
  <1>5. ops \in Seq(E!Operations) /\ WithinSize(ops)
    BY DEF Made
  <1>6. u \in Seq(E!Operations) /\ OnSums(u, ops, x, y) /\ OnBytes(u, ops, x, y)
    BY <1>3, <1>4, <1>5, TwoChosen, Zenon
  <1>7. WithinSize(u)
    <2>1. 0 <= x.from /\ x.to <= size /\ 0 <= y.from /\ y.to <= size
      BY <1>1, <1>3
    <2> QED
      BY <1>3, <1>4, <1>5, <2>1, TwoWithin, Zenon
  <1>8. E!Sums(u) = BlockSums(k + 1)
    <2>1. E!Sums(u) = BlockSums(k) \o <<y>>
      <3>1. SumParts(p, p + block_size, p, p + block_size)
        BY TwoParts, p \in Int, p + block_size \in Int
      <3> QED
        BY <1>2, <1>6, <3>1, Zenon DEF OnSums, Made, SumParts
    <2> QED
      BY <1>1, <1>2, <2>1, BlockSumsGrow, Zenon
  <1>steps. \A b : StepsOn(u, ops, x, y, b)
    BY <1>3, <1>5, <1>6, ByteStep, Zenon
  <1>9. ASSUME NEW b \in Nat, NEW j \in Nat, InBlock(b, j)
        PROVE  E!OnByte(u, b) = IF j < k + 1 THEN <<E!Aes(Start(j), Start(j) + block_size),
                                                    E!Sum(Start(j), Start(j) + block_size)>>
                                ELSE <<>>
    <2>1. E!OnByte(ops, b) = IF j < k THEN <<E!Aes(Start(j), Start(j) + block_size),
                                             E!Sum(Start(j), Start(j) + block_size)>>
                             ELSE <<>>
      BY <1>9, Zenon DEF Deciphered
    <2>2. CASE j = k
      <3>1. On(x, b) /\ On(y, b)
        BY <1>1, <1>3, <1>9, <2>2 DEF On, InBlock
      <3>2. E!OnByte(ops, b) = <<>> /\ j < k + 1
        BY <2>1, <2>2
      <3>3. E!OnByte(u, b) = <<x, y>>
        BY <1>steps, <3>1, <3>2, Zenon DEF StepsOn
      <3> QED
        BY <1>1, <1>2, <2>2, <3>2, <3>3, Zenon
    <2>3. CASE j # k
      <3>1. PICK q \in Nat : q = Start(j)
        BY Starts
      <3>2. q + block_size <= p \/ p + block_size <= q
        BY <1>1, <2>3, <3>1, Starts
      <3>3. ~On(x, b) /\ ~On(y, b)
        BY <1>3, <1>9, <3>1, <3>2 DEF On, InBlock
      <3>4. E!OnByte(u, b) = E!OnByte(ops, b)
        BY <1>steps, <3>3, Zenon DEF StepsOn
      <3>5. j < k <=> j < k + 1
        BY <2>3
      <3> QED
        BY <2>1, <3>4, <3>5, Zenon
    <2> QED
      BY <2>2, <2>3
  <1> QED
    BY <1>6, <1>7, <1>8, <1>9 DEF Made, Deciphered

\* All that encrypt() does, and all that decrypt() does, to a message whose tail
\* starts behind m blocks.
EncryptedAll(m) ==
  IF size % block_size = 0 THEN Made(encrypted, m) /\ Enciphered(encrypted, m)
  ELSE \E ops : /\ Made(ops, m) /\ Enciphered(ops, m)
                /\ encrypted = ops \o <<E!Sum(Start(m), size), E!Aes(size - block_size, size)>>
DecryptedAll(m) ==
  IF size % block_size = 0 THEN Made(decrypted, m) /\ Deciphered(decrypted, m)
  ELSE \E ops, half :
         /\ Made(ops, m - 1) /\ Deciphered(ops, m - 1)
         /\ half = ops \o <<E!Aes(size - block_size, size),
                            E!Aes(Start(m - 1), Start(m - 1) + block_size)>>
         /\ decrypted = half \o <<E!Sum(Start(m - 1), Start(m - 1) + block_size),
                                  E!Sum(Start(m), size)>>

\* The tail starts behind m blocks.
Whole(m) == m \in Nat \ {0} /\ Start(m) <= size /\ Start(m) = size - (size % block_size)

\* Where the last whole block and the tail start.
LEMMA TailFacts ==
  ASSUME block_size \in Nat \ {0}, size \in Nat, NEW m, Whole(m)
  PROVE  /\ size % block_size \in 0..(block_size - 1)
         /\ Start(m) \in Nat /\ Start(m - 1) \in Nat /\ m - 1 \in Nat
         /\ Start(m - 1) + block_size = Start(m) /\ size < Start(m) + block_size
         /\ size - block_size \in Nat
  <1>1. size % block_size \in 0..(block_size - 1)
    BY Division
  <1>2. m - 1 \in Nat /\ (m - 1) + 1 = m
    BY DEF Whole
  <1>3. Start(m - 1) \in Nat /\ Start((m - 1) + 1) = Start(m - 1) + block_size
    BY <1>2, Starts
  <1> QED
    BY <1>1, <1>2, <1>3 DEF Whole

\* What the steps on a byte and their undoing have to do with each other.
Mirrors(done, undone) ==
  /\ done # <<>> /\ Len(done) = Len(undone)
  /\ \A i \in DOMAIN done : undone[i].op = done[Len(done) + 1 - i].op
  /\ \A i \in DOMAIN done : done[i].op = "aes" => undone[Len(done) + 1 - i] = done[i]

\* A sum and a cipher step in reverse.
LEMMA MirrorTwo ==
  ASSUME NEW s, NEW a, s.op = "sum" PROVE Mirrors(<<s, a>>, <<a, s>>)
  <1>1. PICK d, e : d = <<s, a>> /\ e = <<a, s>>
    OBVIOUS
  <1>2. /\ Len(d) = 2 /\ Len(e) = 2 /\ d # <<>> /\ DOMAIN d = {1, 2}
        /\ d[1] = s /\ d[2] = a /\ e[1] = a /\ e[2] = s
    BY <1>1
  <1>3. (2 + 1) - 1 = 2 /\ (2 + 1) - 2 = 1
    OBVIOUS
  <1>4. Mirrors(d, e)
    BY <1>2, <1>3 DEF Mirrors
  <1> QED
    BY <1>1, <1>4, Zenon

\* The steps on a byte of the overlap in reverse.
LEMMA MirrorThree ==
  ASSUME NEW s, NEW a, NEW t, s.op = "sum" PROVE Mirrors(<<s, a>> \o <<t>>, <<t, a>> \o <<s>>)
  <1>1. PICK d, e : d = <<s, a>> \o <<t>> /\ e = <<t, a>> \o <<s>>
    OBVIOUS
  <1>2. /\ Len(d) = 3 /\ Len(e) = 3 /\ d # <<>> /\ DOMAIN d = {1, 2, 3}
        /\ d[1] = s /\ d[2] = a /\ d[3] = t /\ e[1] = t /\ e[2] = a /\ e[3] = s
    <2>1. PICK X : s \in X /\ a \in X /\ t \in X
      BY s \in {s, a, t} /\ a \in {s, a, t} /\ t \in {s, a, t}
    <2>2. /\ <<s, a>> \in Seq(X) /\ <<t>> \in Seq(X)
          /\ <<t, a>> \in Seq(X) /\ <<s>> \in Seq(X)
      BY <2>1
    <2>3. /\ d \in Seq(X) /\ Len(d) = Len(<<s, a>>) + Len(<<t>>)
          /\ \A k \in 1..Len(<<s, a>>) : d[k] = <<s, a>>[k]
          /\ \A k \in 1..Len(<<t>>) : d[Len(<<s, a>>) + k] = <<t>>[k]
      BY <1>1, <2>2, ConcatParts
    <2>4. /\ e \in Seq(X) /\ Len(e) = Len(<<t, a>>) + Len(<<s>>)
          /\ \A k \in 1..Len(<<t, a>>) : e[k] = <<t, a>>[k]
          /\ \A k \in 1..Len(<<s>>) : e[Len(<<t, a>>) + k] = <<s>>[k]
      BY <1>1, <2>2, ConcatParts
    <2>5. Len(d) = 3 /\ d[1] = s /\ d[2] = a /\ d[2 + 1] = t
      BY <2>3
    <2>6. Len(e) = 3 /\ e[1] = t /\ e[2] = a /\ e[2 + 1] = s
      BY <2>4
    <2>7. DOMAIN d = 1..3
      BY <2>3, <2>5
    <2>8. 1..3 = {1, 2, 3} /\ 2 + 1 = 3
      OBVIOUS
    <2>9. d # <<>>
      BY <2>5
    <2> QED
      BY <2>5, <2>6, <2>7, <2>8, <2>9
  <1>3. (3 + 1) - 1 = 3 /\ (3 + 1) - 2 = 2 /\ (3 + 1) - 3 = 1
    OBVIOUS
  <1>4. Mirrors(d, e)
    BY <1>2, <1>3 DEF Mirrors
  <1> QED
    BY <1>1, <1>4, Zenon

\* Without a tail.
LEMMA WholeUndone ==
  ASSUME block_size \in Nat \ {0}, size \in Nat, NEW m, Whole(m), size % block_size = 0,
         EncryptedAll(m), DecryptedAll(m)
  PROVE  /\ WithinSize(encrypted) /\ WithinSize(decrypted)
         /\ E!Sums(encrypted) = E!Sums(decrypted)
         /\ \A b \in 0..size - 1 : Mirrors(E!OnByte(encrypted, b), E!OnByte(decrypted, b))
  <1>1. /\ Made(encrypted, m) /\ Enciphered(encrypted, m)
        /\ Made(decrypted, m) /\ Deciphered(decrypted, m)
    BY DEF EncryptedAll, DecryptedAll
  <1>2. ASSUME NEW b \in 0..size - 1
        PROVE  Mirrors(E!OnByte(encrypted, b), E!OnByte(decrypted, b))
    <2>1. b \in Nat /\ b < size /\ size = Start(m) /\ m \in Nat
      BY DEF Whole
    <2>2. PICK j \in Nat : InBlock(b, j)
      BY <2>1, Located DEF InBlock
    <2>3. PICK q \in Nat, p \in Nat : q = Start(j) /\ p = Start(m)
      BY <2>1, Starts
    <2>4. j < m
      <3>1. ASSUME m <= j PROVE FALSE
        <4>1. p <= q
          BY <2>1, <2>3, <3>1, Starts
        <4> QED
          BY <2>1, <2>2, <2>3, <4>1 DEF InBlock
      <3> QED
        BY <2>1, <3>1
    <2>5. PICK s, a : s = E!Sum(q, q + block_size) /\ a = E!Aes(q, q + block_size)
      OBVIOUS
    <2>6. E!OnByte(encrypted, b) = <<s, a>> /\ E!OnByte(decrypted, b) = <<a, s>>
      BY <1>1, <2>1, <2>2, <2>3, <2>4, <2>5, Zenon DEF Enciphered, Deciphered
    <2>7. s.op = "sum"
      BY <2>5, SumAesTypes
    <2> QED
      BY <2>6, <2>7, MirrorTwo
  <1> QED
    BY <1>1, <1>2 DEF Made

\* With a tail: the last block is enciphered over a part of the one before it.
LEMMA TailUndone ==
  ASSUME block_size \in Nat \ {0}, size \in Nat, NEW m, Whole(m), size % block_size # 0,
         EncryptedAll(m), DecryptedAll(m)
  PROVE  /\ WithinSize(encrypted) /\ WithinSize(decrypted)
         /\ E!Sums(encrypted) = E!Sums(decrypted)
         /\ \A b \in 0..size - 1 : Mirrors(E!OnByte(encrypted, b), E!OnByte(decrypted, b))
  <1>1. PICK n \in Nat, p \in Nat, q \in Nat, w \in Nat :
          /\ n = m - 1 /\ m = n + 1 /\ q = Start(n) /\ p = Start(m) /\ w = size - block_size
          /\ q + block_size = p /\ p < size /\ size < p + block_size /\ q < w /\ w < p
    <2>1. /\ m - 1 \in Nat /\ m = (m - 1) + 1 /\ Start(m - 1) \in Nat /\ Start(m) \in Nat
          /\ size - block_size \in Nat
      BY TailFacts DEF Whole
    <2>2. /\ Start(m - 1) + block_size = Start(m) /\ Start(m) < size
          /\ size < Start(m) + block_size
      BY TailFacts DEF Whole
    <2>3. Start(m - 1) < size - block_size /\ size - block_size < Start(m)
      BY <2>1, <2>2
    <2> QED
      BY <2>1, <2>2, <2>3, Zenon
  <1>2. PICK s, a, t, c :
          /\ s = E!Sum(q, q + block_size) /\ a = E!Aes(q, q + block_size)
          /\ t = E!Sum(p, size) /\ c = E!Aes(w, size)
    OBVIOUS
  <1>3. /\ s \in E!Operations /\ a \in E!Operations /\ t \in E!Operations /\ c \in E!Operations
        /\ s.from = q /\ s.to = p /\ a.from = q /\ a.to = p
        /\ t.from = p /\ t.to = size /\ c.from = w /\ c.to = size
        /\ s.op = "sum" /\ t.op = "sum"
    BY <1>1, <1>2, SumAesTypes
  <1>4. PICK eops : /\ Made(eops, m) /\ Enciphered(eops, m)
                    /\ encrypted = eops \o <<t, c>>
    BY <1>1, <1>2, Zenon DEF EncryptedAll
  <1>5. PICK dops, half : /\ Made(dops, n) /\ Deciphered(dops, n)
                          /\ half = dops \o <<c, a>> /\ decrypted = half \o <<s, t>>
    BY <1>1, <1>2, Zenon DEF DecryptedAll
  <1>6. /\ eops \in Seq(E!Operations) /\ WithinSize(eops)
        /\ dops \in Seq(E!Operations) /\ WithinSize(dops)
    BY <1>4, <1>5 DEF Made
  <1>7. /\ encrypted \in Seq(E!Operations) /\ OnSums(encrypted, eops, t, c)
        /\ OnBytes(encrypted, eops, t, c)
    BY <1>3, <1>4, <1>6, TwoChosen, Zenon
  <1>8. half \in Seq(E!Operations) /\ OnSums(half, dops, c, a) /\ OnBytes(half, dops, c, a)
    BY <1>3, <1>5, <1>6, TwoChosen, Zenon
  <1>9. /\ decrypted \in Seq(E!Operations) /\ OnSums(decrypted, half, s, t)
        /\ OnBytes(decrypted, half, s, t)
    BY <1>3, <1>5, <1>8, TwoChosen, Zenon
  <1>10. WithinSize(encrypted) /\ WithinSize(decrypted)
    <2>1. /\ 0 <= s.from /\ s.to <= size /\ 0 <= a.from /\ a.to <= size
          /\ 0 <= t.from /\ t.to <= size /\ 0 <= c.from /\ c.to <= size
      BY <1>1, <1>3
    <2>2. WithinSize(encrypted)
      BY <1>3, <1>4, <1>6, <2>1, TwoWithin, Zenon
    <2>3. WithinSize(half)
      BY <1>3, <1>5, <1>6, <2>1, TwoWithin, Zenon
    <2>4. WithinSize(decrypted)
      BY <1>3, <1>5, <1>8, <2>1, <2>3, TwoWithin, Zenon
    <2> QED
      BY <2>2, <2>4
  <1>11. E!Sums(encrypted) = E!Sums(decrypted)
    <2>1. SumParts(p, size, w, size) /\ SumParts(w, size, q, q + block_size)
          /\ SumParts(q, q + block_size, p, size)
      BY TwoParts, p \in Int, q \in Int, w \in Int, size \in Int, q + block_size \in Int
    <2>2. E!Sums(encrypted) = BlockSums(m) \o <<t>>
      BY <1>2, <1>4, <1>7, <2>1, Zenon DEF OnSums, SumParts, Made
    <2>3. E!Sums(half) = BlockSums(n) \o <<>>
      BY <1>2, <1>5, <1>8, <2>1, Zenon DEF OnSums, SumParts, Made
    <2>4. E!Sums(decrypted) = E!Sums(half) \o <<s, t>>
      BY <1>2, <1>9, <2>1, Zenon DEF OnSums, SumParts
    <2>5. PICK v \in Seq(E!Operations) : v = BlockSums(n)
      BY BlockSumsGrow
    <2>6. BlockSums(m) = v \o <<s>>
      BY <1>1, <1>2, <2>5, BlockSumsGrow, Zenon
    <2>7. <<s>> \in Seq(E!Operations) /\ <<t>> \in Seq(E!Operations)
      BY <1>3
    <2>8. (v \o <<s>>) \o <<t>> = v \o (<<s>> \o <<t>>)
      BY <2>7, ConcatAssociative
    <2>9. <<s>> \o <<t>> = <<s, t>>
      BY Pair
    <2>10. v \o <<>> = v
      BY ConcatEmptySeq
    <2> QED
      BY <2>2, <2>3, <2>4, <2>5, <2>6, <2>8, <2>9, <2>10, Zenon
  <1>12. ASSUME NEW b \in 0..size - 1
         PROVE  Mirrors(E!OnByte(encrypted, b), E!OnByte(decrypted, b))
    <2>1. StepsOn(encrypted, eops, t, c, b)
      BY <1>3, <1>6, <1>7, ByteStep, Zenon
    <2>2. StepsOn(half, dops, c, a, b)
      BY <1>3, <1>6, <1>8, ByteStep, Zenon
    <2>3. StepsOn(decrypted, half, s, t, b)
      BY <1>3, <1>8, <1>9, ByteStep, Zenon
    <2>4. b \in Nat /\ b < size
      OBVIOUS
    <2>5. PICK j \in Nat : InBlock(b, j)
      BY <2>4, Located DEF InBlock
    <2>6. PICK z \in Nat : z = Start(j)
      BY Starts
    <2>7. z <= b /\ b < z + block_size
      BY <2>5, <2>6 DEF InBlock
    <2>8. /\ On(s, b) <=> (q <= b /\ b < p)
          /\ On(a, b) <=> (q <= b /\ b < p)
          /\ On(t, b) <=> p <= b
          /\ On(c, b) <=> w <= b
      BY <1>1, <1>3, <2>4 DEF On
    <2>9. E!OnByte(eops, b) = IF j < m THEN <<E!Sum(z, z + block_size), E!Aes(z, z + block_size)>>
                              ELSE <<>>
      BY <1>4, <2>4, <2>5, <2>6, Zenon DEF Enciphered
    <2>10. E!OnByte(dops, b) = IF j < n THEN <<E!Aes(z, z + block_size), E!Sum(z, z + block_size)>>
                               ELSE <<>>
      BY <1>5, <2>4, <2>5, <2>6, Zenon DEF Deciphered
    <2>11. m \in Nat
      BY <1>1
    <2>12. CASE j < n
      <3>1. z + block_size <= q /\ j < m
        BY <1>1, <2>6, <2>12, Starts
      <3>2. ~On(s, b) /\ ~On(a, b) /\ ~On(t, b) /\ ~On(c, b)
        BY <1>1, <2>4, <2>7, <2>8, <3>1
      <3>3. PICK x, y : x = E!Sum(z, z + block_size) /\ y = E!Aes(z, z + block_size)
        OBVIOUS
      <3>4. E!OnByte(encrypted, b) = <<x, y>>
        BY <2>1, <2>9, <3>1, <3>2, <3>3, Zenon DEF StepsOn
      <3>5. E!OnByte(decrypted, b) = <<y, x>>
        BY <2>2, <2>3, <2>10, <2>12, <3>2, <3>3, Zenon DEF StepsOn
      <3>6. x.op = "sum"
        BY <3>3, SumAesTypes
      <3> QED
        BY <3>4, <3>5, <3>6, MirrorTwo
    <2>13. CASE j = n
      <3>1. z = q /\ j < m /\ ~(j < n)
        BY <1>1, <2>6, <2>13
      <3>2. On(s, b) /\ On(a, b) /\ ~On(t, b)
        BY <1>1, <2>4, <2>7, <2>8, <3>1
      <3>3. E!OnByte(eops, b) = <<s, a>> /\ E!OnByte(dops, b) = <<>>
        BY <1>2, <2>9, <2>10, <3>1, Zenon
      <3>4. CASE On(c, b)
        <4>1. E!OnByte(encrypted, b) = <<s, a>> \o <<c>>
          BY <2>1, <3>2, <3>3, <3>4, Zenon DEF StepsOn
        <4>2. E!OnByte(half, b) = <<c, a>>
          BY <2>2, <3>2, <3>3, <3>4, Zenon DEF StepsOn
        <4>3. E!OnByte(decrypted, b) = <<c, a>> \o <<s>>
          BY <2>3, <3>2, <4>2, Zenon DEF StepsOn
        <4> QED
          BY <1>3, <4>1, <4>3, MirrorThree
      <3>5. CASE ~On(c, b)
        <4>1. E!OnByte(encrypted, b) = <<s, a>>
          BY <2>1, <3>2, <3>3, <3>5, Zenon DEF StepsOn
        <4>2. E!OnByte(half, b) = <<a>>
          BY <2>2, <3>2, <3>3, <3>5, Zenon DEF StepsOn
        <4>3. E!OnByte(decrypted, b) = <<a>> \o <<s>>
          BY <2>3, <3>2, <4>2, Zenon DEF StepsOn
        <4> QED
          BY <1>3, <4>1, <4>3, Pair, MirrorTwo, ZenonT(40)
      <3> QED
        BY <3>4, <3>5
    <2>14. CASE j > n
      <3>1. p <= z /\ ~(j < m) /\ ~(j < n)
        <4>1. j = m \/ m < j
          BY <1>1, <2>14
        <4>2. m < j => p + block_size <= z
          BY <1>1, <2>6, <2>11, Starts
        <4> QED
          BY <1>1, <2>6, <2>14, <4>1, <4>2
      <3>2. ~On(s, b) /\ ~On(a, b) /\ On(t, b) /\ On(c, b)
        BY <1>1, <2>4, <2>7, <2>8, <3>1
      <3>3. E!OnByte(eops, b) = <<>> /\ E!OnByte(dops, b) = <<>>
        BY <2>9, <2>10, <3>1, Zenon
      <3>4. E!OnByte(encrypted, b) = <<t, c>>
        BY <2>1, <3>2, <3>3, Zenon DEF StepsOn
      <3>5. E!OnByte(half, b) = <<c>>
        BY <2>2, <3>2, <3>3, Zenon DEF StepsOn
      <3>6. E!OnByte(decrypted, b) = <<c>> \o <<t>>
        BY <2>3, <3>2, <3>5, Zenon DEF StepsOn
      <3> QED
        BY <1>3, <3>4, <3>6, Pair, MirrorTwo, ZenonT(40)
    <2> QED
      BY <1>1, <2>12, <2>13, <2>14
  <1> QED
    BY <1>10, <1>11, <1>12

\* All steps of encrypt() are inside the message.
LEMMA EncryptedWithin ==
  ASSUME block_size \in Nat \ {0}, size \in Nat, NEW m, Whole(m), EncryptedAll(m)
  PROVE  WithinSize(encrypted)
  <1>1. CASE size % block_size = 0
    BY <1>1 DEF EncryptedAll, Made
  <1>2. CASE size % block_size # 0
    <2>1. PICK ops : /\ Made(ops, m)
                     /\ encrypted = ops \o <<E!Sum(Start(m), size), E!Aes(size - block_size, size)>>
      BY <1>2 DEF EncryptedAll
    <2>2. PICK t, c : t = E!Sum(Start(m), size) /\ c = E!Aes(size - block_size, size)
      OBVIOUS
    <2>3. Start(m) \in Nat /\ size - block_size \in Nat
      BY TailFacts
    <2>4. t \in E!Operations /\ c \in E!Operations /\ t.from = Start(m) /\ t.to = size
          /\ c.from = size - block_size /\ c.to = size
      BY <2>2, <2>3, SumAesTypes
    <2>5. 0 <= t.from /\ t.to <= size /\ 0 <= c.from /\ c.to <= size
      BY <2>3, <2>4
    <2>6. ops \in Seq(E!Operations) /\ WithinSize(ops) /\ encrypted = ops \o <<t, c>>
      BY <2>1, <2>2, Zenon DEF Made
    <2> QED
      BY <2>4, <2>5, <2>6, TwoWithin, Zenon
  <1> QED
    BY <1>1, <1>2

\* Four steps are two and two.
InTwos(d, a, b, s, t) == d \o <<a, b, s, t>> = (d \o <<a, b>>) \o <<s, t>>

\* By the associativity of concatenation.
LEMMA Four ==
  ASSUME NEW X, NEW d \in Seq(X), NEW a \in X, NEW b \in X, NEW s \in X, NEW t \in X
  PROVE  InTwos(d, a, b, s, t)
  <1>1. PICK v, w : v = <<a, b>> /\ w = <<s, t>>
    OBVIOUS
  <1>2. v \in Seq(X) /\ w \in Seq(X)
    BY <1>1
  <1>3. (d \o v) \o w = d \o (v \o w)
    BY <1>2, ConcatAssociative
  <1>4. v \o w = <<a, b, s, t>>
    <2>1. PICK u : u = v \o w
      OBVIOUS
    <2>2. /\ u \in Seq(X) /\ Len(u) = Len(v) + Len(w)
          /\ \A k \in 1..Len(v) : u[k] = v[k]
          /\ \A k \in 1..Len(w) : u[Len(v) + k] = w[k]
      BY <1>2, <2>1, ConcatParts
    <2>3. /\ Len(v) = 2 /\ v[1] = a /\ v[2] = b
          /\ Len(w) = 2 /\ w[1] = s /\ w[2] = t
      BY <1>1
    <2>4. Len(u) = 4 /\ u[1] = a /\ u[2] = b /\ u[2 + 1] = s /\ u[2 + 2] = t
      BY <2>2, <2>3, 1 \in 1..2, 2 \in 1..2
    <2>5. u \in Seq(X) /\ Len(u) = 4
      BY <2>2, <2>4
    <2>6. u = [i \in 1..4 |-> u[i]]
      BY <2>5
    <2>7. \A i \in 1..4 : i = 1 \/ i = 2 \/ i = 3 \/ i = 4
      OBVIOUS
    <2>8. u = <<a, b, s, t>>
      BY <2>4, <2>6, <2>7
    <2> QED
      BY <2>1, <2>8
  <1> QED
    BY <1>1, <1>3, <1>4, Zenon DEF InTwos

\* Every call is at the start of some round k of the m it makes, and has made
\* exactly the steps of the rounds before.
CryptInv ==
  /\ crypt_call \in {"none", "encrypt", "decrypt", "decrypted"}
  /\ crypt_call = "none" => encrypted = <<>> /\ decrypted = <<>>
  /\ crypt_call # "none" =>
       /\ size \in Nat
       /\ \E k \in Nat, m \in Nat \ {0} :
            /\ Whole(m) /\ position = Start(k)
            /\ crypt_call = "encrypt" =>
                 /\ k <= m /\ Made(encrypted, k) /\ Enciphered(encrypted, k)
                 /\ decrypted = <<>>
            /\ crypt_call = "decrypt" =>
                 /\ EncryptedAll(m) /\ Made(decrypted, k) /\ Deciphered(decrypted, k)
                 /\ k <= m /\ (size % block_size # 0 => k < m)
            /\ crypt_call = "decrypted" => EncryptedAll(m) /\ DecryptedAll(m)

\* Before the first block.
LEMMA NothingMade ==
  Made(<<>>, 0) /\ Enciphered(<<>>, 0) /\ Deciphered(<<>>, 0)
  <1>1. \A D : Among(<<>>, D) = <<>>
    <2> TAKE D
    <2>1. Len(<<>>) = 0
      OBVIOUS
    <2>2. PICK c : Among(<<>>, D) = c[Len(<<>>)] /\ c[0] = <<>>
      BY AmongUnfold, Len(<<>>) \in Nat
    <2> QED
      BY <2>1, <2>2
  <1>2. BlockSums(0) = <<>>
    BY DEF BlockSums
  <1>3. E!Sums(<<>>) = <<>> /\ \A b : E!OnByte(<<>>, b) = <<>>
    BY <1>1, SameAmong, Zenon DEF E!Sums, E!OnByte
  <1>4. <<>> \in Seq(E!Operations) /\ WithinSize(<<>>)
    BY DEF WithinSize
  <1>5. \A j \in Nat : ~(j < 0)
    OBVIOUS
  <1> QED
    BY <1>2, <1>3, <1>4, <1>5 DEF Made, Enciphered, Deciphered

\* encrypt() is called.
LEMMA EncryptStarts ==
  ASSUME block_size \in Nat \ {0}, MaxSize \in Nat, CryptInv,
         NEW n \in block_size..MaxSize, E!encrypt(n)
  PROVE  CryptInv'
  <1>1. /\ crypt_call' = "encrypt" /\ size' = n /\ position' = 0
        /\ encrypted' = <<>> /\ decrypted' = <<>>
    BY DEF E!encrypt, CryptInv
  <1>2. n \in Nat /\ n >= block_size
    OBVIOUS
  <1>3. PICK m \in Nat : /\ Start(m) <= n /\ n < Start(m) + block_size
                         /\ Start(m) = n - (n % block_size)
    BY <1>2, Located
  <1>4. m # 0
    BY <1>2, <1>3, Starts
  <1>5. Whole(m)'
    BY <1>1, <1>3, <1>4 DEF Whole, Start
  <1>6. Made(<<>>, 0)' /\ Enciphered(<<>>, 0)'
    <2>1. Enciphered(<<>>, 0)'
      BY NothingMade DEF Enciphered, InBlock, Start, E!OnByte, E!Sum, E!Aes, E!Operations, E!Among
    <2>2. Made(<<>>, 0)'
      BY NothingMade DEF Made, WithinSize, BlockSums, Start, E!Sums, E!Sum, E!Operations, E!Among
    <2> QED
      BY <2>1, <2>2
  <1>7. 0 \in Nat /\ 0 <= m /\ position' = Start(0)
    BY <1>1, Starts
  <1> QED
    BY <1>1, <1>2, <1>4, <1>5, <1>6, <1>7 DEF CryptInv

\* What the steps say of a message does not change while its size stays.
LEMMA SameSize ==
  ASSUME size' = size, NEW u, NEW k
  PROVE  Made(u, k) => Made(u, k)'
  <1>1. WithinSize(u) => WithinSize(u)'
    BY DEF WithinSize
  <1> QED
    BY <1>1 DEF Made, E!Sums, E!Operations, E!Among, BlockSums, Start, E!Sum

\* What encrypt() has done stays done.
LEMMA SameEncrypted ==
  ASSUME size' = size, encrypted' = encrypted, NEW m, EncryptedAll(m) PROVE EncryptedAll(m)'
  <1>1. CASE size % block_size = 0
    <2>1. Made(encrypted, m) /\ Enciphered(encrypted, m)
      BY <1>1 DEF EncryptedAll
    <2>2. PICK e : e = encrypted
      OBVIOUS
    <2>3. Made(e, m)' /\ Enciphered(e, m)
      BY <2>1, <2>2, SameSize
    <2>4. Made(encrypted, m)' /\ Enciphered(encrypted, m)'
      BY <2>2, <2>3 DEF Made, Enciphered, WithinSize
    <2> QED
      BY <1>1, <2>4 DEF EncryptedAll
  <1>2. CASE size % block_size # 0
    <2>1. PICK ops : /\ Made(ops, m) /\ Enciphered(ops, m)
                     /\ encrypted = ops \o <<E!Sum(Start(m), size), E!Aes(size - block_size, size)>>
      BY <1>2 DEF EncryptedAll
    <2>2. Made(ops, m)' /\ Enciphered(ops, m)'
      BY <2>1, SameSize
    <2> QED
      BY <1>2, <2>1, <2>2 DEF EncryptedAll
  <1> QED
    BY <1>1, <1>2

\* What decrypt() has done stays done.
LEMMA SameDecrypted ==
  ASSUME size' = size, decrypted' = decrypted, NEW m, DecryptedAll(m) PROVE DecryptedAll(m)'
  <1>1. CASE size % block_size = 0
    <2>1. Made(decrypted, m) /\ Deciphered(decrypted, m)
      BY <1>1 DEF DecryptedAll
    <2>2. PICK d : d = decrypted
      OBVIOUS
    <2>3. Made(d, m)' /\ Deciphered(d, m)
      BY <2>1, <2>2, SameSize
    <2>4. Made(decrypted, m)' /\ Deciphered(decrypted, m)'
      BY <2>2, <2>3 DEF Made, Deciphered, WithinSize
    <2> QED
      BY <1>1, <2>4 DEF DecryptedAll
  <1>2. CASE size % block_size # 0
    <2>1. PICK ops, half :
            /\ Made(ops, m - 1) /\ Deciphered(ops, m - 1)
            /\ half = ops \o <<E!Aes(size - block_size, size),
                               E!Aes(Start(m - 1), Start(m - 1) + block_size)>>
            /\ decrypted = half \o <<E!Sum(Start(m - 1), Start(m - 1) + block_size),
                                     E!Sum(Start(m), size)>>
      BY <1>2 DEF DecryptedAll
    <2>2. Made(ops, m - 1)' /\ Deciphered(ops, m - 1)'
      BY <2>1, SameSize
    <2> QED
      BY <1>2, <2>1, <2>2 DEF DecryptedAll
  <1> QED
    BY <1>1, <1>2

\* A step that changes nothing.
LEMMA CryptStutters ==
  ASSUME CryptInv, UNCHANGED E!vars PROVE CryptInv'
  <1>1. /\ crypt_call' = crypt_call /\ size' = size /\ position' = position
        /\ encrypted' = encrypted /\ decrypted' = decrypted
    BY DEF E!vars
  <1>2. CASE crypt_call = "none"
    BY <1>1, <1>2 DEF CryptInv
  <1>3. CASE crypt_call # "none"
    <2>1. size \in Nat
      BY <1>3 DEF CryptInv
    <2>2. PICK k \in Nat, m \in Nat \ {0} :
            /\ Whole(m) /\ position = Start(k)
            /\ crypt_call = "encrypt" =>
                 /\ k <= m /\ Made(encrypted, k) /\ Enciphered(encrypted, k)
                 /\ decrypted = <<>>
            /\ crypt_call = "decrypt" =>
                 /\ EncryptedAll(m) /\ Made(decrypted, k) /\ Deciphered(decrypted, k)
                 /\ k <= m /\ (size % block_size # 0 => k < m)
            /\ crypt_call = "decrypted" => EncryptedAll(m) /\ DecryptedAll(m)
      BY <1>3, Zenon DEF CryptInv
    <2>3. Whole(m)' /\ position' = Start(k)
      BY <1>1, <2>2 DEF Whole, Start
    <2>4. PICK e, d : e = encrypted /\ d = decrypted
      OBVIOUS
    <2>5. CASE crypt_call = "encrypt"
      <3>1. Made(e, k)' /\ Enciphered(e, k)'
        BY <1>1, <2>2, <2>4, <2>5, SameSize
      <3>2. Made(encrypted, k)' /\ Enciphered(encrypted, k)'
        BY <1>1, <2>4, <3>1 DEF Made, Enciphered, WithinSize
      <3> QED
        BY <1>1, <2>1, <2>2, <2>3, <2>5, <3>2 DEF CryptInv
    <2>6. CASE crypt_call = "decrypt"
      <3>1. Made(d, k)' /\ Deciphered(d, k)'
        BY <1>1, <2>2, <2>4, <2>6, SameSize
      <3>2. Made(decrypted, k)' /\ Deciphered(decrypted, k)'
        BY <1>1, <2>4, <3>1 DEF Made, Deciphered, WithinSize
      <3>3. EncryptedAll(m)'
        BY <1>1, <2>2, <2>6, SameEncrypted
      <3> QED
        BY <1>1, <2>1, <2>2, <2>3, <2>6, <3>2, <3>3 DEF CryptInv
    <2>7. CASE crypt_call = "decrypted"
      <3>1. EncryptedAll(m)' /\ DecryptedAll(m)'
        BY <1>1, <2>2, <2>7, SameEncrypted, SameDecrypted
      <3> QED
        BY <1>1, <2>1, <2>2, <2>3, <2>7, <3>1 DEF CryptInv
    <2> QED
      BY <1>3, <2>5, <2>6, <2>7 DEF CryptInv
  <1> QED
    BY <1>2, <1>3

\* The loop and the tail of encrypt().
LEMMA EncryptSteps ==
  ASSUME block_size \in Nat \ {0}, CryptInv, E!encrypt_block \/ E!encrypt_tail
  PROVE  CryptInv'
  <1>1. crypt_call = "encrypt" /\ size' = size /\ decrypted' = decrypted
    BY DEF E!encrypt_block, E!encrypt_tail
  <1>2. PICK k \in Nat, m \in Nat \ {0} :
          /\ Whole(m) /\ position = Start(k) /\ k <= m
          /\ Made(encrypted, k) /\ Enciphered(encrypted, k) /\ decrypted = <<>>
    BY <1>1 DEF CryptInv
  <1>3. size \in Nat
    BY <1>1 DEF CryptInv
  <1>4. PICK p \in Nat, q \in Nat : p = Start(k) /\ q = Start(m)
    BY Starts
  <1>5. E!tail_start = q /\ q <= size
    BY <1>2, <1>4 DEF Whole, E!tail_start
  <1>6. Whole(m)'
    BY <1>1, <1>2 DEF Whole, Start
  <1>7. CASE E!encrypt_block
    <2>1. /\ crypt_call' = "encrypt" /\ p < q /\ position' = p + block_size
          /\ encrypted' = encrypted \o <<E!Sum(p, p + block_size), E!Aes(p, p + block_size)>>
      BY <1>2, <1>4, <1>5, <1>7 DEF E!encrypt_block
    <2>2. k < m
      BY <1>2, <1>4, <2>1
    <2>3. p + block_size <= q /\ position' = Start(k + 1)
      BY <1>4, <2>1, <2>2, Starts
    <2>4. PICK u : u = encrypted'
      OBVIOUS
    <2>5. Made(u, k + 1) /\ Enciphered(u, k + 1)
      <3>1. Start(k) + block_size <= size
        BY <1>3, <1>4, <1>5, <2>3
      <3> QED
        BY <1>2, <1>3, <1>4, <2>1, <2>4, <3>1, EncipherBlock, Zenon
    <2>6. Made(u, k + 1)' /\ Enciphered(u, k + 1)
      BY <1>1, <2>5, SameSize
    <2>7. Made(encrypted, k + 1)' /\ Enciphered(encrypted, k + 1)'
      BY <2>4, <2>6 DEF Made, Enciphered, WithinSize
    <2>8. k + 1 \in Nat /\ k + 1 <= m
      BY <2>2
    <2> QED
      BY <1>1, <1>2, <1>3, <1>6, <2>1, <2>3, <2>7, <2>8 DEF CryptInv
  <1>8. CASE E!encrypt_tail
    <2>1. /\ crypt_call' = "decrypt" /\ p = q /\ position' = 0
          /\ encrypted' = IF size % block_size = 0 THEN encrypted
                          ELSE encrypted \o <<E!Sum(q, size), E!Aes(size - block_size, size)>>
      BY <1>2, <1>4, <1>5, <1>8 DEF E!encrypt_tail
    <2>2. k = m
      <3>1. k < m => p + block_size <= q
        BY <1>4, Starts
      <3> QED
        BY <1>2, <2>1, <3>1
    <2>3. EncryptedAll(m)'
      <3>1. PICK e : e = encrypted
        OBVIOUS
      <3>2. Made(e, m)' /\ Enciphered(e, m)'
        BY <1>1, <1>2, <2>2, <3>1, SameSize
      <3>3. CASE size % block_size = 0
        <4>1. encrypted' = e
          BY <2>1, <3>1, <3>3
        <4>2. Made(encrypted, m)' /\ Enciphered(encrypted, m)'
          BY <3>2, <4>1 DEF Made, Enciphered, WithinSize
        <4> QED
          BY <1>1, <3>3, <4>2 DEF EncryptedAll
      <3>4. CASE size % block_size # 0
        <4>1. encrypted' = e \o <<E!Sum(Start(m), size), E!Aes(size - block_size, size)>>
          BY <1>4, <2>1, <3>1, <3>4
        <4> QED
          BY <1>1, <3>2, <3>4, <4>1 DEF EncryptedAll
      <3> QED
        BY <3>3, <3>4
    <2>4. Made(<<>>, 0)' /\ Deciphered(<<>>, 0)'
      BY <1>1, NothingMade, SameSize
    <2>5. Made(decrypted, 0)' /\ Deciphered(decrypted, 0)'
      <3>1. decrypted' = <<>>
        BY <1>1, <1>2
      <3> QED
        BY <2>4, <3>1 DEF Made, Deciphered, WithinSize
    <2>6. 0 \in Nat /\ 0 <= m /\ 0 < m /\ position' = Start(0)
      BY <2>1, Starts
    <2> QED
      BY <1>1, <1>2, <1>3, <1>6, <2>1, <2>3, <2>5, <2>6 DEF CryptInv
  <1> QED
    BY <1>7, <1>8

\* The loop and the tail of decrypt().
LEMMA DecryptSteps ==
  ASSUME block_size \in Nat \ {0}, CryptInv, E!decrypt_block \/ E!decrypt_tail
  PROVE  CryptInv'
  <1>1. crypt_call = "decrypt" /\ size' = size /\ encrypted' = encrypted
    BY DEF E!decrypt_block, E!decrypt_tail
  <1>2. PICK k \in Nat, m \in Nat \ {0} :
          /\ Whole(m) /\ position = Start(k) /\ k <= m
          /\ EncryptedAll(m) /\ Made(decrypted, k) /\ Deciphered(decrypted, k)
          /\ (size % block_size # 0 => k < m)
    BY <1>1 DEF CryptInv
  <1>3. size \in Nat
    BY <1>1 DEF CryptInv
  <1>4. PICK n \in Nat, p \in Nat, q \in Nat, z \in Nat :
          /\ n = m - 1 /\ p = Start(k) /\ q = Start(m) /\ z = Start(n) /\ z + block_size = q
    <2>1. m - 1 \in Nat /\ Start(m - 1) \in Nat /\ Start(m - 1) + block_size = Start(m)
      BY <1>2, <1>3, TailFacts
    <2>2. Start(k) \in Nat /\ Start(m) \in Nat
      BY Starts
    <2> QED
      BY <2>1, <2>2, Zenon
  <1>5. q <= size /\ (size % block_size = 0 => E!decrypt_end = q /\ size = q)
        /\ (size % block_size # 0 => E!decrypt_end = z)
    BY <1>2, <1>3, <1>4 DEF Whole, E!decrypt_end, E!tail_start
  <1>6. Whole(m)' /\ EncryptedAll(m)'
    BY <1>1, <1>2, SameEncrypted DEF Whole, Start
  <1>7. CASE E!decrypt_block
    <2>1. /\ crypt_call' = "decrypt" /\ p < E!decrypt_end /\ position' = p + block_size
          /\ decrypted' = decrypted \o <<E!Aes(p, p + block_size), E!Sum(p, p + block_size)>>
      BY <1>1, <1>2, <1>4, <1>7 DEF E!decrypt_block
    <2>2. k < m /\ (size % block_size # 0 => k < n)
      <3>1. k = m => p = q
        BY <1>4
      <3>2. n < k => z + block_size <= p
        BY <1>4, Starts
      <3>3. n = k => z = p
        BY <1>4
      <3>4. p < q /\ (size % block_size # 0 => p < z)
        BY <1>4, <1>5, <2>1, SMTT(20)
      <3>5. k # m
        BY <1>4, <3>1, <3>4
      <3>6. ASSUME size % block_size # 0 PROVE k < n
        <4>1. p < z
          BY <3>4, <3>6
        <4> QED
          BY <1>4, <3>2, <3>3, <4>1
      <3> QED
        BY <1>2, <3>5, <3>6
    <2>3. p + block_size <= q /\ position' = Start(k + 1)
      BY <1>4, <2>1, <2>2, Starts
    <2>4. PICK u : u = decrypted'
      OBVIOUS
    <2>5. Made(u, k + 1) /\ Deciphered(u, k + 1)
      <3>1. Start(k) + block_size <= size
        BY <1>3, <1>4, <1>5, <2>3
      <3> QED
        BY <1>2, <1>3, <1>4, <2>1, <2>4, <3>1, DecipherBlock, Zenon
    <2>6. Made(u, k + 1)' /\ Deciphered(u, k + 1)
      BY <1>1, <2>5, SameSize
    <2>7. Made(decrypted, k + 1)' /\ Deciphered(decrypted, k + 1)'
      BY <2>4, <2>6 DEF Made, Deciphered, WithinSize
    <2>8. k + 1 \in Nat /\ k + 1 <= m /\ (size % block_size # 0 => k + 1 < m)
      BY <1>4, <2>2
    <2> QED
      BY <1>1, <1>2, <1>3, <1>6, <2>1, <2>3, <2>7, <2>8 DEF CryptInv
  <1>8. CASE E!decrypt_tail
    <2>1. /\ crypt_call' = "decrypted" /\ p = E!decrypt_end /\ position' = position
          /\ decrypted' = IF size % block_size = 0 THEN decrypted
                          ELSE decrypted \o <<E!Aes(size - block_size, size),
                                              E!Aes(p, p + block_size),
                                              E!Sum(p, p + block_size),
                                              E!Sum(p + block_size, size)>>
      BY <1>1, <1>2, <1>4, <1>8 DEF E!decrypt_tail
    <2>2. DecryptedAll(m)'
      <3>1. PICK d : d = decrypted
        OBVIOUS
      <3>2. Made(d, k)' /\ Deciphered(d, k)'
        BY <1>1, <1>2, <3>1, SameSize
      <3>3. CASE size % block_size = 0
        <4>1. decrypted' = d /\ p = q
          BY <1>5, <2>1, <3>1, <3>3
        <4>2. k = m
          <5>1. k < m => p + block_size <= q
            BY <1>4, Starts
          <5> QED
            BY <1>2, <4>1, <5>1
        <4>3. Made(decrypted, m)' /\ Deciphered(decrypted, m)'
          BY <3>2, <4>1, <4>2 DEF Made, Deciphered, WithinSize
        <4> QED
          BY <1>1, <3>3, <4>3 DEF DecryptedAll
      <3>4. CASE size % block_size # 0
        <4>1. p = z
          BY <1>5, <2>1, <3>4
        <4>2. k = n
          <5>1. k < n => p + block_size <= z
            BY <1>4, Starts
          <5> QED
            BY <1>2, <1>4, <3>4, <4>1, <5>1
        <4>3. PICK a, c, s, t :
                /\ c = E!Aes(size - block_size, size) /\ a = E!Aes(z, z + block_size)
                /\ s = E!Sum(z, z + block_size) /\ t = E!Sum(q, size)
          OBVIOUS
        <4>4. decrypted' = d \o <<c, a, s, t>>
          BY <1>4, <2>1, <3>1, <3>4, <4>1, <4>3
        <4>5. PICK half : half = d \o <<c, a>>
          OBVIOUS
        <4>6. d \in Seq(E!Operations)
          BY <1>2, <3>1 DEF Made
        <4>7. /\ c \in E!Operations /\ a \in E!Operations
              /\ s \in E!Operations /\ t \in E!Operations
          BY <1>3, <4>3, SumAesTypes
        <4>8. decrypted' = half \o <<s, t>>
          <5>1. InTwos(d, c, a, s, t)
            BY <4>6, <4>7, Four, Zenon
          <5> QED
            BY <4>4, <4>5, <5>1, Zenon DEF InTwos
        <4>9. /\ half = d \o <<E!Aes(size - block_size, size),
                               E!Aes(Start(m - 1), Start(m - 1) + block_size)>>
              /\ decrypted' = half \o <<E!Sum(Start(m - 1), Start(m - 1) + block_size),
                                        E!Sum(Start(m), size)>>
          BY <1>4, <4>3, <4>5, <4>8, Zenon
        <4>10. Made(d, m - 1)' /\ Deciphered(d, m - 1)'
          BY <1>4, <3>2, <4>2
        <4> QED
          BY <1>1, <3>4, <4>9, <4>10 DEF DecryptedAll
      <3> QED
        BY <3>3, <3>4
    <2> QED
      BY <1>1, <1>2, <1>3, <1>6, <2>1, <2>2 DEF CryptInv
  <1> QED
    BY <1>7, <1>8

\* For blocks of any size and messages of any length: every access lies in the
\* message, decrypt() undoes on every byte what encrypt() did to it, in reverse, the
\* overlap of the tail included, and both feed the sum alike (block.h:127-197).
THEOREM CryptUndoneInReverse ==
  ASSUME block_size \in Nat \ {0}, MaxSize \in Nat PROVE E!Spec => []UndoneInReverse
  <1>1. E!Init => CryptInv
    BY DEF E!Init, CryptInv
  <1>2. CryptInv /\ [E!Next]_E!vars => CryptInv'
    <2>1. SUFFICES ASSUME CryptInv, [E!Next]_E!vars PROVE CryptInv'
      OBVIOUS
    <2>2. ASSUME NEW n \in block_size..MaxSize, E!encrypt(n) PROVE CryptInv'
      BY <2>1, <2>2, EncryptStarts
    <2>3. CASE E!encrypt_block \/ E!encrypt_tail
      BY <2>1, <2>3, EncryptSteps
    <2>4. CASE E!decrypt_block \/ E!decrypt_tail
      BY <2>1, <2>4, DecryptSteps
    <2>5. CASE E!next_message
      BY <2>5 DEF E!next_message, CryptInv
    <2>6. CASE UNCHANGED E!vars
      BY <2>1, <2>6, CryptStutters
    <2> QED
      BY <2>1, <2>2, <2>3, <2>4, <2>5, <2>6 DEF E!Next
  <1>3. CryptInv => E!UndoneInReverse
    <2>1. SUFFICES ASSUME CryptInv PROVE E!UndoneInReverse
      OBVIOUS
    <2>2. CASE crypt_call = "none"
      BY <2>1, <2>2 DEF CryptInv, E!UndoneInReverse
    <2>3. CASE crypt_call # "none"
      <3>1. size \in Nat
        BY <2>1, <2>3 DEF CryptInv
      <3>2. PICK k \in Nat, m \in Nat \ {0} :
              /\ Whole(m)
              /\ crypt_call = "encrypt" => Made(encrypted, k) /\ decrypted = <<>>
              /\ crypt_call = "decrypt" => EncryptedAll(m) /\ Made(decrypted, k)
              /\ crypt_call = "decrypted" => EncryptedAll(m) /\ DecryptedAll(m)
        BY <2>1, <2>3, Zenon DEF CryptInv
      <3>3. CASE crypt_call = "encrypt"
        BY <3>2, <3>3 DEF E!UndoneInReverse, Made, WithinSize
      <3>4. CASE crypt_call = "decrypt"
        <4>1. WithinSize(encrypted)
          BY <3>1, <3>2, <3>4, EncryptedWithin
        <4> QED
          BY <3>2, <3>4, <4>1 DEF E!UndoneInReverse, Made, WithinSize
      <3>5. CASE crypt_call = "decrypted"
        <4>1. /\ WithinSize(encrypted) /\ WithinSize(decrypted)
              /\ E!Sums(encrypted) = E!Sums(decrypted)
              /\ \A b \in 0..size - 1 : Mirrors(E!OnByte(encrypted, b), E!OnByte(decrypted, b))
          BY <3>1, <3>2, <3>5, WholeUndone, TailUndone
        <4> QED
          BY <4>1 DEF E!UndoneInReverse, Mirrors, WithinSize
      <3> QED
        BY <2>1, <2>3, <3>3, <3>4, <3>5 DEF CryptInv
    <2> QED
      BY <2>2, <2>3
  <1> QED
    BY <1>1, <1>2, <1>3, PTL DEF E!Spec, UndoneInReverse

==============================================================================
