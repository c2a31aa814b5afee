-------------------------- MODULE PeerMessagesProofs ---------------------------
(***************************************************************************)
(* Proof that headers and handler calls stay in step, for a peer with one  *)
(* sending thread and any messages, handlers and sizes of reads and writes.*)
(*                                                                         *)
(* Words are counted from the first one ever written: Read have been read, *)
(* Written have been written.  As long as the messages before the m-th are *)
(* empty, words 2m - 1 and 2m are the header of the m-th.                  *)
(***************************************************************************)
EXTENDS PeerMessages, SequenceTheorems, TLAPS

Read == 2 * Len(handled) + Len(in)
Written == Read + Len(stream)

\* The messages before the m-th of a sequence have no data.
Clean(q, m) == \A i \in 1..(m - 1) : i \in DOMAIN q => q[i].data = <<>>

HeaderWords(m) == <<Len(m.data), m.type>>

\* What send_data_to_peer() has still to write of m after w words of its header.
Rest(m, w) ==
  <<SubSeq(HeaderWords(m), w + 1, 2)>> \o (IF m.data = <<>> THEN <<>> ELSE <<m.data>>)

TypeInv ==
  /\ handled \in Seq([type : Nat, size : Nat]) /\ in \in Seq(Nat) /\ Len(in) <= 2
  /\ stream \in Seq(Nat) /\ sent \in Seq(Messages) /\ broken \in BOOLEAN
  /\ out \in [Senders -> Seq(Seq(Nat))]

\* The words of the header being read, and of the headers still to be read.
InRead ==
  Clean(sent, Len(handled) + 1) =>
    \A e \in 1..Len(in) : /\ Len(handled) + 1 <= Len(sent)
                          /\ in[e] = HeaderWords(sent[Len(handled) + 1])[e]
InStream ==
  \A m \in Nat \ {0}, e \in 1..2 :
    LET p == 2 * (m - 1) + e
    IN  Read < p /\ p <= Written /\ Clean(sent, m) =>
          m <= Len(sent) /\ stream[p - Read] = HeaderWords(sent[m])[e]

\* Where in its message the sender is: at its end, in its header, in its data.
AtEnd(s) ==
  /\ out[s] = <<>> /\ Written >= 2 * Len(sent)
  /\ Clean(sent, Len(sent) + 1) => Written = 2 * Len(sent)
InHeader(s) ==
  /\ Len(sent) >= 1
  /\ \E w \in 0..1 : /\ out[s] = Rest(sent[Len(sent)], w)
                     /\ Written >= 2 * (Len(sent) - 1) + w
                     /\ Clean(sent, Len(sent)) => Written = 2 * (Len(sent) - 1) + w
InData(s) ==
  /\ Len(sent) >= 1 /\ sent[Len(sent)].data # <<>> /\ Written >= 2 * Len(sent)
  /\ \E x \in Seq(Nat) : out[s] = <<x>>

StepInv ==
  /\ TypeInv /\ InStepUntilData /\ InRead /\ InStream
  /\ ~broken => \A s \in Senders : AtEnd(s) \/ InHeader(s) \/ InData(s)
------------------------------------------------------------------------------
LEMMA MessageType ==
  ASSUME NEW m \in Messages
  PROVE  /\ m.data \in Seq(Nat) /\ m.type \in Nat /\ Len(m.data) \in Nat
         /\ HeaderWords(m) \in Seq(Nat) /\ Len(HeaderWords(m)) = 2
         /\ HeaderWords(m)[1] = Len(m.data) /\ HeaderWords(m)[2] = m.type
         /\ Header(m) = [type |-> HeaderWords(m)[2], size |-> HeaderWords(m)[1]]
  <1>1. PICK n \in 0..MaxSize : m.data \in [1..n -> Words]
    BY DEF Messages
  <1>2. m.data \in Seq(Nat) /\ Len(m.data) \in Nat
    <2>1. n \in Nat /\ Words \subseteq Nat
      BY PeerAssumption
    <2>2. m.data \in [1..n -> Nat]
      BY <1>1, <2>1
    <2> QED
      BY <2>1, <2>2, IsASeq
  <1>3. m.type \in Nat
    BY PeerAssumption DEF Messages
  <1> QED
    BY <1>2, <1>3 DEF HeaderWords, Header

LEMMA CleanBelow ==
  ASSUME NEW m \in Int, NEW k \in Int, k <= m, Clean(sent, m) PROVE Clean(sent, k)
  BY DEF Clean

LEMMA ConcatParts ==
  ASSUME NEW S, NEW s \in Seq(S), NEW t \in Seq(S), NEW u, u = s \o t
  PROVE  /\ u \in Seq(S) /\ Len(u) = Len(s) + Len(t)
         /\ \A k \in 1..Len(s) : u[k] = s[k]
         /\ \A k \in 1..Len(t) : u[Len(s) + k] = t[k]
  OBVIOUS

LEMMA FirstPart ==
  ASSUME NEW S, NEW s \in Seq(S), NEW n \in Nat, n <= Len(s), NEW t, t = SubSeq(s, 1, n)
  PROVE  t \in Seq(S) /\ Len(t) = n /\ \A k \in 1..n : t[k] = s[k]
  OBVIOUS

LEMMA LastPart ==
  ASSUME NEW S, NEW s \in Seq(S), NEW n \in Nat, n <= Len(s),
         NEW a, a = n + 1, NEW t, t = SubSeq(s, a, Len(s))
  PROVE  t \in Seq(S) /\ Len(t) = Len(s) - n /\ \A k \in 1..(Len(s) - n) : t[k] = s[n + k]
  OBVIOUS

\* A step that changes no word and no message.
LEMMA QuietStep ==
  ASSUME StepInv, UNCHANGED <<out, stream, in, sent, handled, broken>>
  PROVE  StepInv'
  <1>1. Read' = Read /\ Written' = Written
    BY DEF Read, Written
  <1>2. TypeInv' /\ InStepUntilData'
    BY DEF StepInv, TypeInv, InStepUntilData, Header
  <1>3. InRead' /\ InStream'
    BY <1>1 DEF StepInv, InRead, InStream
  <1>4. ASSUME NEW s \in Senders PROVE /\ AtEnd(s) => AtEnd(s)'
                                       /\ InHeader(s) => InHeader(s)'
                                       /\ InData(s) => InData(s)'
    BY <1>1 DEF AtEnd, InHeader, InData
  <1> QED
    BY <1>2, <1>3, <1>4 DEF StepInv

LEMMA ReadStep ==
  ASSUME StepInv, SSLReadAllData
  PROVE  StepInv'
  <1>1. PICK n \in 1..(HeaderLen - Len(in)) :
          /\ n <= Len(stream) /\ in' = in \o SubSeq(stream, 1, n)
          /\ stream' = SubSeq(stream, n + 1, Len(stream))
    BY DEF SSLReadAllData
  <1>2. UNCHANGED <<out, broken, sent, handled>>
    BY DEF SSLReadAllData
  <1>3. /\ stream \in Seq(Nat) /\ in \in Seq(Nat) /\ Len(handled) \in Nat /\ Len(in) <= 2
        /\ Len(sent) \in Nat
    BY DEF StepInv, TypeInv
  <1> n \in Nat \ {0}
    BY <1>3 DEF HeaderLen
  <1>4. /\ stream' \in Seq(Nat) /\ Len(stream') = Len(stream) - n
        /\ \A j \in 1..(Len(stream) - n) : stream'[j] = stream[n + j]
    <2>1. PICK t, a : a = n + 1 /\ t = stream' /\ t = SubSeq(stream, a, Len(stream))
      BY <1>1
    <2>2. n <= Len(stream)
      BY <1>1
    <2>3. /\ t \in Seq(Nat) /\ Len(t) = Len(stream) - n
          /\ \A k \in 1..(Len(stream) - n) : t[k] = stream[n + k]
      <3>1. /\ stream \in Seq(Nat) /\ n \in Nat /\ n <= Len(stream)
            /\ a = n + 1 /\ t = SubSeq(stream, a, Len(stream))
        BY <1>3, <2>1, <2>2
      <3> QED
        BY <3>1, LastPart
    <2> QED
      BY <2>1, <2>3
  <1>5. /\ in' \in Seq(Nat) /\ Len(in') = Len(in) + n /\ Len(in') <= 2
        /\ \A j \in 1..Len(in) : in'[j] = in[j]
        /\ \A j \in 1..n : in'[Len(in) + j] = stream[j]
    <2>4. PICK t : t = SubSeq(stream, 1, n)
      OBVIOUS
    <2>1. t \in Seq(Nat) /\ Len(t) = n /\ \A j \in 1..n : t[j] = stream[j]
      <3>1. n <= Len(stream)
        BY <1>1
      <3> QED
        BY <1>3, <2>4, <3>1, FirstPart, n \in Nat
    <2>2. PICK u : u = in' /\ u = in \o t
      BY <1>1, <2>4
    <2>3. /\ u \in Seq(Nat) /\ Len(u) = Len(in) + Len(t)
          /\ \A k \in 1..Len(in) : u[k] = in[k]
          /\ \A k \in 1..Len(t) : u[Len(in) + k] = t[k]
      <3>1. in \in Seq(Nat) /\ t \in Seq(Nat) /\ u = in \o t
        BY <1>3, <2>1, <2>2
      <3> QED
        BY <3>1, ConcatParts
    <2>5. n <= HeaderLen - Len(in)
      BY <1>1
    <2>6. Len(u) = Len(in) + n /\ Len(u) <= 2
      BY <1>3, <2>1, <2>3, <2>5 DEF HeaderLen
    <2>7. \A j \in 1..n : u[Len(in) + j] = stream[j]
      BY <2>1, <2>3
    <2> QED
      BY <2>2, <2>3, <2>6, <2>7
  <1>6. /\ Read' = Read + n /\ Written' = Written /\ Read \in Nat /\ Written \in Nat
    <2>1. Len(stream) \in Nat /\ Len(in) \in Nat
      BY <1>3
    <2>2. Read' = Read + n /\ Read \in Nat
      BY <1>2, <1>3, <1>5, <2>1 DEF Read
    <2>3. Written' = Written /\ Written \in Nat
      BY <1>4, <2>1, <2>2 DEF Written
    <2> QED
      BY <2>2, <2>3
  <1>7. TypeInv' /\ InStepUntilData'
    BY <1>2, <1>4, <1>5 DEF StepInv, TypeInv, InStepUntilData, Header
  <1>8. InRead'
    <2> SUFFICES ASSUME Clean(sent, Len(handled) + 1), NEW e \in 1..(Len(in) + n)
                 PROVE  /\ Len(handled) + 1 <= Len(sent)
                        /\ in'[e] = HeaderWords(sent[Len(handled) + 1])[e]
      BY <1>2, <1>5, <1>6 DEF InRead
    <2>1. CASE e <= Len(in)
      BY <1>3, <1>5, <2>1 DEF StepInv, InRead
    <2>2. CASE e > Len(in)
      <3>1. PICK j \in 1..n : e = Len(in) + j
        <4>1. e - Len(in) \in 1..n /\ e = Len(in) + (e - Len(in))
          BY <1>1, <1>3, <2>2
        <4> QED
          BY <4>1
      <3> DEFINE m == Len(handled) + 1
                 p == 2 * (m - 1) + e
      <3>2. /\ m \in Nat \ {0} /\ e \in 1..2 /\ Read < p /\ p <= Written /\ p - Read = j
        <4>1. Read = 2 * Len(handled) + Len(in) /\ Written = Read + Len(stream)
              /\ Len(stream) \in Nat /\ Len(in) \in Nat /\ Len(in) + n <= 2
          <5>1. Len(stream) \in Nat /\ Len(in) \in Nat
            BY <1>3
          <5>2. Len(in) + n <= 2
            BY <1>5, Zenon
          <5> QED
            BY <5>1, <5>2, Zenon DEF Read, Written
        <4> QED
          <5>1. n <= Len(stream) /\ Read \in Nat
            BY <1>1, <1>6
          <5>2. p = Read + j
            BY <1>3, <3>1, <4>1
          <5>3. m \in Nat \ {0} /\ e \in 1..2
            <6>1. m \in Nat \ {0}
              BY <1>3
            <6>2. e \in 1..2
              BY <3>1, <4>1
            <6> QED
              BY <6>1, <6>2
          <5>4. j >= 1 /\ j <= Len(stream) /\ Read \in Nat
            BY <4>1, <5>1
          <5> HIDE DEF p, m
          <5> QED
            BY <4>1, <5>2, <5>3, <5>4
      <3>3. m <= Len(sent) /\ stream[p - Read] = HeaderWords(sent[m])[e]
        BY <3>2 DEF StepInv, InStream
      <3> QED
        BY <1>5, <3>1, <3>2, <3>3
    <2> QED
      BY <1>3, <2>1, <2>2
  <1>9. InStream'
    <2> SUFFICES ASSUME NEW m \in Nat \ {0}, NEW e \in 1..2, Clean(sent, m),
                        Read' < 2 * (m - 1) + e, 2 * (m - 1) + e <= Written'
                 PROVE  /\ m <= Len(sent)
                        /\ stream'[(2 * (m - 1) + e) - Read'] = HeaderWords(sent[m])[e]
      BY <1>2, <1>6 DEF InStream
    <2> DEFINE p == 2 * (m - 1) + e
    <2>1. p \in Int /\ Read < p /\ p <= Written
      BY <1>1, <1>6
    <2>2. m <= Len(sent) /\ stream[p - Read] = HeaderWords(sent[m])[e]
      BY <2>1 DEF StepInv, InStream
    <2>3. p - Read' \in 1..(Len(stream) - n) /\ n + (p - Read') = p - Read
      BY <1>1, <1>3, <1>6, <2>1 DEF Written
    <2> HIDE DEF p
    <2>4. stream'[p - Read'] = stream[p - Read]
      BY <1>4, <2>3
    <2> QED
      BY <2>2, <2>4, Zenon DEF p
  <1>10. ASSUME NEW s \in Senders PROVE /\ AtEnd(s) => AtEnd(s)'
                                        /\ InHeader(s) => InHeader(s)'
                                        /\ InData(s) => InData(s)'
    BY <1>2, <1>6 DEF AtEnd, InHeader, InData
  <1> QED
    BY <1>2, <1>7, <1>8, <1>9, <1>10 DEF StepInv

LEMMA HandleStep ==
  ASSUME StepInv, global_handle_data
  PROVE  StepInv'
  <1>1. CASE UNCHANGED <<in, handled>>
    BY <1>1, QuietStep DEF global_handle_data
  <1>2. CASE in' = <<>> /\ handled' = Append(handled, [type |-> in[2], size |-> in[1]])
    <2>1. UNCHANGED <<out, stream, broken, sent>> /\ Len(in) = 2
      BY DEF global_handle_data, HeaderLen
    <2>2. /\ handled \in Seq([type : Nat, size : Nat]) /\ in \in Seq(Nat) /\ Len(handled) \in Nat
          /\ sent \in Seq(Messages) /\ Len(sent) \in Nat
      BY DEF StepInv, TypeInv
    <2>3. in[1] \in Nat /\ in[2] \in Nat
      BY <2>1, <2>2, ElementOfSeq, 1 \in 1..2, 2 \in 1..2
    <2>4. /\ handled' \in Seq([type : Nat, size : Nat]) /\ Len(handled') = Len(handled) + 1
          /\ \A k \in 1..Len(handled) : handled'[k] = handled[k]
          /\ handled'[Len(handled) + 1] = [type |-> in[2], size |-> in[1]]
      <3>1. PICK c \in [type : Nat, size : Nat] : c = [type |-> in[2], size |-> in[1]]
        BY <2>3
      <3> QED
        BY <1>2, <2>2, <3>1
    <2>5. Read' = Read /\ Written' = Written
      BY <1>2, <2>1, <2>2, <2>4 DEF Read, Written
    <2>6. TypeInv'
      BY <1>2, <2>1, <2>4 DEF StepInv, TypeInv
    <2>7. InStepUntilData'
      <3> SUFFICES ASSUME NEW k \in 1..(Len(handled) + 1), Clean(sent, k)
                   PROVE  k \in DOMAIN sent /\ handled'[k] = Header(sent[k])
        BY <2>1, <2>4, <2>5 DEF InStepUntilData, Clean, Header
      <3>1. CASE k <= Len(handled)
        <4>1. k \in 1..Len(handled) /\ k \in DOMAIN handled
          BY <2>2, <3>1
        <4>2. k \in DOMAIN sent /\ handled[k] = Header(sent[k])
          BY <4>1, Zenon DEF StepInv, InStepUntilData, Clean
        <4> QED
          BY <2>4, <4>1, <4>2
      <3>2. CASE k = Len(handled) + 1
        <4>1. /\ k <= Len(sent) /\ in[1] = HeaderWords(sent[k])[1]
              /\ in[2] = HeaderWords(sent[k])[2]
          BY <2>1, <3>2, 1 \in 1..2, 2 \in 1..2 DEF StepInv, InRead
        <4>2. k \in DOMAIN sent /\ sent[k] \in Messages
          BY <2>2, <4>1
        <4> QED
          BY <2>4, <3>2, <4>1, <4>2, MessageType
      <3> QED
        BY <2>2, <3>1, <3>2
    <2>8. InRead'
      BY <1>2 DEF InRead
    <2>9. InStream'
      BY <2>1, <2>5 DEF StepInv, InStream
    <2>10. ASSUME NEW s \in Senders PROVE /\ AtEnd(s) => AtEnd(s)'
                                          /\ InHeader(s) => InHeader(s)'
                                          /\ InData(s) => InData(s)'
      BY <2>1, <2>5 DEF AtEnd, InHeader, InData
    <2> QED
      BY <2>1, <2>6, <2>7, <2>8, <2>9, <2>10 DEF StepInv
  <1> QED
    BY <1>1, <1>2, Zenon DEF global_handle_data

LEMMA SendStep ==
  ASSUME StepInv, NEW s, Senders = {s}, NEW m \in Messages, send_data_to_peer(s, m)
  PROVE  StepInv'
  <1> DEFINE n == Len(sent)
             data == IF m.data = <<>> THEN <<>> ELSE <<m.data>>
  <1>1. /\ out[s] = <<>> /\ out' = [out EXCEPT ![s] = <<<<Len(m.data), m.type>>>> \o data]
        /\ sent' = Append(sent, m)
        /\ UNCHANGED <<stream, in, broken, handled>>
    BY DEF send_data_to_peer
  <1>2. /\ sent \in Seq(Messages) /\ n \in Nat /\ out \in [Senders -> Seq(Seq(Nat))]
        /\ handled \in Seq([type : Nat, size : Nat]) /\ Len(handled) \in Nat
        /\ stream \in Seq(Nat) /\ in \in Seq(Nat)
    BY DEF StepInv, TypeInv
  <1>3. /\ sent' \in Seq(Messages) /\ Len(sent') = n + 1
        /\ \A k \in 1..n : sent'[k] = sent[k]
        /\ sent'[n + 1] = m
    BY <1>1, <1>2
  <1>4. DOMAIN sent = 1..n /\ DOMAIN sent' = 1..(n + 1)
    BY <1>2, <1>3
  <1>5. ASSUME NEW k \in Int, Clean(sent', k) PROVE Clean(sent, k)
    BY <1>2, <1>3, <1>4, <1>5 DEF Clean
  <1>6. Read' = Read /\ Written' = Written /\ Read \in Nat /\ Written \in Nat
    BY <1>1, <1>2 DEF Read, Written
  <1>7. TypeInv'
    <2>1. <<<<Len(m.data), m.type>>>> \o data \in Seq(Seq(Nat))
      <3>1. data \in Seq(Seq(Nat))
        BY MessageType
      <3>2. <<Len(m.data), m.type>> \in Seq(Nat)
        BY MessageType
      <3>3. <<<<Len(m.data), m.type>>>> \in Seq(Seq(Nat))
        BY <3>2
      <3> HIDE DEF data
      <3> QED
        BY <3>1, <3>3, ConcatProperties
    <2> QED
      BY <1>1, <1>2, <1>3, <2>1 DEF StepInv, TypeInv
  <1>8. InStepUntilData'
    <2> SUFFICES ASSUME NEW k \in DOMAIN handled, Clean(sent', k)
                 PROVE  k \in DOMAIN sent' /\ handled[k] = Header(sent'[k])
      BY <1>1, Zenon DEF InStepUntilData, Clean, Header
    <2>1. k \in Int
      BY <1>2
    <2>2. Clean(sent, k)
      BY <1>5, <2>1
    <2>3. k \in DOMAIN sent /\ handled[k] = Header(sent[k])
      BY <2>2, Zenon DEF StepInv, InStepUntilData, Clean
    <2>4. k \in 1..(n + 1) /\ sent'[k] = sent[k]
      BY <1>2, <1>3, <1>4, <2>3
    <2> QED
      BY <1>4, <2>3, <2>4
  <1>9. InRead'
    <2> SUFFICES ASSUME Clean(sent', Len(handled) + 1), NEW e \in 1..Len(in)
                 PROVE  /\ Len(handled) + 1 <= n + 1
                        /\ in[e] = HeaderWords(sent'[Len(handled) + 1])[e]
      BY <1>1, <1>3 DEF InRead, HeaderWords
    <2>1. Clean(sent, Len(handled) + 1)
      BY <1>2, <1>5, Len(handled) + 1 \in Int
    <2>2. Len(handled) + 1 <= n /\ in[e] = HeaderWords(sent[Len(handled) + 1])[e]
      BY <2>1 DEF StepInv, InRead
    <2>3. sent'[Len(handled) + 1] = sent[Len(handled) + 1]
      BY <1>2, <1>3, <2>2
    <2> QED
      BY <1>2, <2>2, <2>3
  <1>10. InStream'
    <2> SUFFICES ASSUME NEW k \in Nat \ {0}, NEW e \in 1..2, Clean(sent', k),
                        Read < 2 * (k - 1) + e, 2 * (k - 1) + e <= Written
                 PROVE  /\ k <= n + 1
                        /\ stream[(2 * (k - 1) + e) - Read] = HeaderWords(sent'[k])[e]
      BY <1>1, <1>3, <1>6 DEF InStream, HeaderWords
    <2>1. Clean(sent, k)
      BY <1>5
    <2>2. k <= n /\ stream[(2 * (k - 1) + e) - Read] = HeaderWords(sent[k])[e]
      BY <2>1 DEF StepInv, InStream
    <2>3. sent'[k] = sent[k]
      BY <1>2, <1>3, <2>2
    <2> QED
      BY <1>2, <2>2, <2>3
  <1>11. ASSUME ~broken' PROVE InHeader(s)'
    <2>1. AtEnd(s)
      <3>1. AtEnd(s) \/ InHeader(s) \/ InData(s)
        BY <1>1, <1>11 DEF StepInv
      <3>2. ~InData(s)
        BY <1>1 DEF InData
      <3>3. ASSUME InHeader(s) PROVE FALSE
        <4>1. PICK w \in 0..1 : out[s] = Rest(sent[n], w) /\ n >= 1
          BY <3>3 DEF InHeader
        <4>2. sent[n] \in Messages
          BY <1>2, <4>1
        <4>3. sent[n].data \in Seq(Nat) /\ HeaderWords(sent[n]) \in Seq(Nat)
          BY <4>2, MessageType
        <4> QED
          BY <1>1, <4>1, <4>3 DEF Rest
      <3> QED
        BY <3>1, <3>2, <3>3
    <2>2. out'[s] = Rest(m, 0)
      <3>1. SubSeq(HeaderWords(m), 1, 2) = HeaderWords(m)
        BY MessageType, SubSeqFull
      <3>2. out'[s] = <<HeaderWords(m)>> \o data
        BY <1>1, <1>2 DEF HeaderWords
      <3> QED
        BY <3>1, <3>2, 0 + 1 = 1 DEF Rest
    <2>3. Clean(sent', n + 1) => Written = 2 * n
      BY <1>2, <1>5, <2>1, n + 1 \in Int DEF AtEnd
    <2>4. Written >= 2 * n
      BY <2>1 DEF AtEnd
    <2>5. Len(sent') = n + 1 /\ 2 * ((n + 1) - 1) + 0 = 2 * n /\ n + 1 >= 1
      BY <1>2, <1>3
    <2>6. out'[s] = Rest(sent'[Len(sent')], 0)
      BY <1>3, <2>2, <2>5
    <2>7. /\ Written' >= 2 * (Len(sent') - 1) + 0
          /\ Clean(sent', Len(sent')) => Written' = 2 * (Len(sent') - 1) + 0
      BY <1>6, <2>3, <2>4, <2>5
    <2> QED
      BY <2>5, <2>6, <2>7, 0 \in 0..1 DEF InHeader, Rest, HeaderWords
  <1> QED
    BY <1>7, <1>8, <1>9, <1>10, <1>11 DEF StepInv

\* A failed write ends all writing.
LEMMA FailStep ==
  ASSUME StepInv, NEW s \in Senders, ssl_write_failed(s)
  PROVE  StepInv'
  <1>1. /\ broken' = TRUE /\ out' = [out EXCEPT ![s] = <<>>]
        /\ UNCHANGED <<stream, in, sent, handled>>
    BY DEF ssl_write_failed
  <1>2. Read' = Read /\ Written' = Written
    BY <1>1 DEF Read, Written
  <1>3. <<>> \in Seq(Seq(Nat))
    BY EmptySeq
  <1>4. TypeInv' /\ InStepUntilData'
    BY <1>1, <1>3 DEF StepInv, TypeInv, InStepUntilData, Header
  <1>5. InRead' /\ InStream'
    BY <1>1, <1>2 DEF StepInv, InRead, InStream
  <1> QED
    BY <1>1, <1>4, <1>5 DEF StepInv

LEMMA RestParts ==
  ASSUME NEW m \in Messages, NEW w \in 0..1
  PROVE  /\ Head(Rest(m, w)) = SubSeq(HeaderWords(m), w + 1, 2)
         /\ Tail(Rest(m, w)) = IF m.data = <<>> THEN <<>> ELSE <<m.data>>
  <1>1. m.data \in Seq(Nat) /\ HeaderWords(m) \in Seq(Nat) /\ Len(HeaderWords(m)) = 2
    BY MessageType
  <1>2. PICK a \in Seq(Nat) : a = SubSeq(HeaderWords(m), w + 1, 2)
    <2>1. PICK h \in Seq(Nat) : h = HeaderWords(m) /\ Len(h) = 2
      BY <1>1
    <2>2. PICK k, t : k = w + 1 /\ t = SubSeq(h, k, Len(h))
      OBVIOUS
    <2>3. t \in Seq(Nat)
      BY <2>1, <2>2, LastPart, w \in Nat, w <= 2
    <2> QED
      BY <2>1, <2>2, <2>3
  <1>3. PICK b \in Seq(Seq(Nat)) : b = IF m.data = <<>> THEN <<>> ELSE <<m.data>>
    <2>1. <<>> \in Seq(Seq(Nat)) /\ <<m.data>> \in Seq(Seq(Nat))
      BY <1>1
    <2> QED
      BY <2>1
  <1>4. Head(<<a>> \o b) = a /\ Tail(<<a>> \o b) = b
    OBVIOUS
  <1> QED
    BY <1>2, <1>3, <1>4, Zenon DEF Rest

LEMMA WriteStep ==
  ASSUME StepInv, NEW s, Senders = {s}, SSLWriteAllData(s)
  PROVE  StepInv'
  <1> DEFINE q == Len(sent)
  <1>1. PICK n \in 1..Len(Head(out[s])) :
          /\ stream' = stream \o SubSeq(Head(out[s]), 1, n)
          /\ out' = [out EXCEPT ![s] =
               IF n = Len(Head(@)) THEN Tail(@)
               ELSE <<SubSeq(Head(@), n + 1, Len(Head(@)))>> \o Tail(@)]
    BY DEF SSLWriteAllData
  <1>2. out[s] # <<>> /\ ~broken /\ UNCHANGED <<in, broken, sent, handled>>
    BY DEF SSLWriteAllData
  <1>3. /\ sent \in Seq(Messages) /\ q \in Nat /\ out \in [Senders -> Seq(Seq(Nat))]
        /\ Len(handled) \in Nat /\ stream \in Seq(Nat) /\ in \in Seq(Nat)
        /\ Len(stream) \in Nat /\ Len(in) \in Nat
    BY DEF StepInv, TypeInv
  <1>4. PICK x \in Seq(Nat), rest \in Seq(Seq(Nat)) :
          x = Head(out[s]) /\ rest = Tail(out[s]) /\ out[s] = <<x>> \o rest
    <2>1. out[s] \in Seq(Seq(Nat))
      BY <1>3
    <2>2. Head(out[s]) \in Seq(Nat) /\ Tail(out[s]) \in Seq(Seq(Nat))
      BY <1>2, <2>1, HeadTailProperties
    <2>3. out[s] = <<Head(out[s])>> \o Tail(out[s])
      BY <1>2, <2>1
    <2> QED
      BY <2>2, <2>3
  <1>5. n \in Nat \ {0} /\ n <= Len(x)
    BY <1>1, <1>4
  <1>6. PICK t \in Seq(Nat) : /\ t = SubSeq(x, 1, n) /\ Len(t) = n
                              /\ \A j \in 1..n : t[j] = x[j]
    <2>1. PICK t : t = SubSeq(x, 1, n)
      OBVIOUS
    <2>2. t \in Seq(Nat) /\ Len(t) = n /\ \A j \in 1..n : t[j] = x[j]
      BY <1>5, <2>1, FirstPart, n \in Nat
    <2> QED
      BY <2>1, <2>2
  <1>7. /\ stream' \in Seq(Nat) /\ Len(stream') = Len(stream) + n
        /\ \A j \in 1..Len(stream) : stream'[j] = stream[j]
        /\ \A j \in 1..n : stream'[Len(stream) + j] = x[j]
    <2>1. PICK u : u = stream' /\ u = stream \o t
      BY <1>1, <1>4, <1>6
    <2>2. stream \in Seq(Nat) /\ t \in Seq(Nat) /\ u = stream \o t
      BY <1>3, <2>1
    <2>3. /\ u \in Seq(Nat) /\ Len(u) = Len(stream) + Len(t)
          /\ \A k \in 1..Len(stream) : u[k] = stream[k]
          /\ \A k \in 1..Len(t) : u[Len(stream) + k] = t[k]
      BY <2>2, ConcatParts
    <2> QED
      BY <1>6, <2>1, <2>3
  <1>8. out'[s] = IF n = Len(x) THEN rest ELSE <<SubSeq(x, n + 1, Len(x))>> \o rest
    BY <1>1, <1>3, <1>4
  <1>9. /\ Read' = Read /\ Written' = Written + n /\ Read \in Nat /\ Written \in Nat
        /\ Written = Read + Len(stream)
    <2>1. Read' = Read /\ Read \in Nat
      BY <1>2, <1>3 DEF Read
    <2>2. Len(stream') = Len(stream) + n
      BY <1>7
    <2> QED
      BY <1>3, <1>5, <2>1, <2>2 DEF Written
  <1>10. TypeInv'
    <2>1. SubSeq(x, n + 1, Len(x)) \in Seq(Nat)
      <3>1. PICK a, y : a = n + 1 /\ y = SubSeq(x, a, Len(x))
        OBVIOUS
      <3>2. y \in Seq(Nat)
        BY <1>5, <3>1, LastPart, n \in Nat
      <3> QED
        BY <3>1, <3>2
    <2>2. <<SubSeq(x, n + 1, Len(x))>> \o rest \in Seq(Seq(Nat))
      <3>1. PICK y \in Seq(Nat) : y = SubSeq(x, n + 1, Len(x))
        BY <2>1
      <3>2. <<y>> \o rest \in Seq(Seq(Nat))
        BY ConcatProperties
      <3> QED
        BY <3>1, <3>2
    <2>3. out'[s] \in Seq(Seq(Nat))
      BY <1>8, <2>2
    <2>4. out' \in [Senders -> Seq(Seq(Nat))]
      BY <1>1, <1>3, <2>3
    <2> QED
      BY <1>2, <1>7, <2>4 DEF StepInv, TypeInv
  <1>11. InStepUntilData' /\ InRead'
    BY <1>2 DEF StepInv, InStepUntilData, Header, InRead
  <1>12. AtEnd(s) \/ InHeader(s) \/ InData(s)
    BY <1>2 DEF StepInv
  <1>13. ~AtEnd(s)
    BY <1>2 DEF AtEnd
  \* Where the words written by this step belong.
  <1>14. ASSUME NEW m \in Nat \ {0}, NEW e \in 1..2, NEW j \in 1..n, Clean(sent, m),
                2 * (m - 1) + e = Written + j
         PROVE  m <= q /\ x[j] = HeaderWords(sent[m])[e]
    <2>1. CASE InData(s)
      <3>1. q >= 1 /\ sent[q].data # <<>> /\ Written >= 2 * q
        BY <2>1 DEF InData
      <3>2. q \in 1..(m - 1) /\ q \in DOMAIN sent
        <4>1. q \in Nat /\ Written \in Nat /\ q \in DOMAIN sent
          BY <1>3, <1>9, <3>1
        <4>2. 2 * (m - 1) + e > 2 * q
          BY <1>14, <3>1, <4>1
        <4> QED
          BY <3>1, <4>1, <4>2
      <3> QED
        BY <1>14, <3>1, <3>2 DEF Clean
    <2>2. CASE InHeader(s)
      <3>1. PICK w \in 0..1 : /\ out[s] = Rest(sent[q], w) /\ q >= 1
                              /\ Written >= 2 * (q - 1) + w
                              /\ Clean(sent, q) => Written = 2 * (q - 1) + w
        BY <2>2 DEF InHeader
      <3>2. m >= q
        <4>1. Written >= 2 * (q - 1) + w
          BY <3>1
        <4>2. PICK v \in Nat, k \in Nat : v = Written /\ k = q
          BY <1>3, <1>9
        <4>3. v >= 2 * (k - 1) + w /\ 2 * (m - 1) + e = v + j
          BY <1>14, <4>1, <4>2
        <4>4. m >= k
          BY <4>3
        <4> QED
          BY <4>2, <4>4
      <3>3. Clean(sent, q)
        BY <1>3, <1>14, <3>2, CleanBelow, q \in Int, m \in Int
      <3>4. Written = 2 * (q - 1) + w
        BY <3>1, <3>3
      <3>5. sent[q] \in Messages
        BY <1>3, <3>1
      <3>6. x = SubSeq(HeaderWords(sent[q]), w + 1, 2)
        BY <1>4, <3>1, <3>5, RestParts
      <3>7. Len(x) = 2 - w /\ \A k \in 1..(2 - w) : x[k] = HeaderWords(sent[q])[w + k]
        BY <3>5, <3>6, MessageType
      <3>8. j <= 2 - w
        BY <1>5, <3>7
      <3>9. m = q /\ e = w + j
        <4>1. PICK k \in Nat : k = q
          BY <1>3
        <4>2. 2 * (m - 1) + e = 2 * (k - 1) + w + j
          BY <1>14, <3>4, <4>1
        <4>3. PICK i \in 1..2 : i = w + j
          BY <1>5, <3>8
        <4>4. 2 * (m - 1) + e = 2 * (k - 1) + i
          BY <1>5, <4>2, <4>3
        <4>5. m = k /\ e = i
          BY <4>4
        <4> QED
          BY <4>1, <4>3, <4>5
      <3> QED
        BY <1>3, <3>7, <3>8, <3>9
    <2> QED
      BY <1>12, <1>13, <2>1, <2>2
  <1>15. InStream'
    <2> SUFFICES ASSUME NEW m \in Nat \ {0}, NEW e \in 1..2, Clean(sent, m),
                        Read < 2 * (m - 1) + e, 2 * (m - 1) + e <= Written + n
                 PROVE  /\ m <= q
                        /\ stream'[(2 * (m - 1) + e) - Read] = HeaderWords(sent[m])[e]
      BY <1>2, <1>9 DEF InStream
    <2> DEFINE p == 2 * (m - 1) + e
    <2>1. p \in Int
      OBVIOUS
    <2>2. CASE p <= Written
      <3>1. m <= q /\ stream[p - Read] = HeaderWords(sent[m])[e]
        BY <2>2 DEF StepInv, InStream
      <3>2. p - Read \in 1..Len(stream)
        BY <1>9, <2>1, <2>2
      <3> QED
        BY <1>7, <3>1, <3>2
    <2>3. CASE p > Written
      <3>1. PICK j \in 1..n : p = Written + j
        <4>1. p - Written \in 1..n /\ p = Written + (p - Written)
          BY <1>5, <1>9, <2>1, <2>3
        <4> QED
          BY <4>1
      <3>2. m <= q /\ x[j] = HeaderWords(sent[m])[e]
        BY <1>14, <3>1
      <3>3. p - Read = Len(stream) + j
        BY <1>3, <1>9, <3>1
      <3> QED
        BY <1>7, <3>2, <3>3
    <2> QED
      BY <1>9, <2>1, <2>2, <2>3
  <1>16. AtEnd(s)' \/ InHeader(s)' \/ InData(s)'
    <2>1. CASE InData(s)
      <3>1. q >= 1 /\ sent[q].data # <<>> /\ Written >= 2 * q
        BY <2>1 DEF InData
      <3>2. rest = <<>>
        <4>1. PICK y \in Seq(Nat) : out[s] = <<y>>
          BY <2>1 DEF InData
        <4>2. Tail(<<y>>) = <<>>
          OBVIOUS
        <4> QED
          BY <1>4, <4>1, <4>2
      <3>3. Written' >= 2 * q
        BY <1>3, <1>5, <1>9, <3>1
      <3>4. CASE n = Len(x)
        <4>1. out'[s] = <<>>
          BY <1>8, <3>2, <3>4
        <4>2. ~Clean(sent, q + 1)
          <5>1. q \in 1..((q + 1) - 1) /\ q \in DOMAIN sent
            BY <1>3, <3>1
          <5> QED
            BY <3>1, <5>1 DEF Clean
        <4> QED
          BY <1>2, <3>3, <4>1, <4>2 DEF AtEnd
      <3>5. CASE n # Len(x)
        <4>1. PICK a, y : a = n + 1 /\ y = SubSeq(x, a, Len(x))
          OBVIOUS
        <4>2. y \in Seq(Nat)
          BY <1>5, <4>1, LastPart, n \in Nat
        <4>3. out'[s] = <<y>>
          <5>1. out'[s] = <<y>> \o rest
            BY <1>8, <3>5, <4>1
          <5>2. <<y>> \o <<>> = <<y>>
            BY <4>2
          <5> QED
            BY <3>2, <5>1, <5>2
        <4> QED
          BY <1>2, <3>1, <3>3, <4>2, <4>3 DEF InData
      <3> QED
        BY <3>4, <3>5
    <2>2. CASE InHeader(s)
      <3>1. PICK w \in 0..1 : /\ out[s] = Rest(sent[q], w) /\ q >= 1
                              /\ Written >= 2 * (q - 1) + w
                              /\ Clean(sent, q) => Written = 2 * (q - 1) + w
        BY <2>2 DEF InHeader
      <3>2. sent[q] \in Messages
        BY <1>3, <3>1
      <3> DEFINE m == sent[q]
                 data == IF m.data = <<>> THEN <<>> ELSE <<m.data>>
      <3>3. m.data \in Seq(Nat) /\ HeaderWords(m) \in Seq(Nat) /\ Len(HeaderWords(m)) = 2
        BY <3>2, MessageType
      <3>4. x = SubSeq(HeaderWords(m), w + 1, 2) /\ rest = data
        BY <1>4, <3>1, <3>2, RestParts
      <3>5. Len(x) = 2 - w
        BY <3>3, <3>4
      <3>6. CASE n = Len(x)
        <4>1. out'[s] = data
          BY <1>8, <3>4, <3>6
        <4>2. Written' >= 2 * q /\ (Clean(sent, q) => Written' = 2 * q)
          <5>1. Written >= 2 * (q - 1) + w /\ (Clean(sent, q) => Written = 2 * (q - 1) + w)
            BY <3>1
          <5>2. Written' = Written + (2 - w)
            BY <1>9, <3>5, <3>6
          <5>3. PICK v \in Nat, k \in Nat : v = Written /\ k = q
            BY <1>3, <1>9
          <5>4. v >= 2 * (k - 1) + w /\ (Clean(sent, q) => v = 2 * (k - 1) + w)
            BY <5>1, <5>3
          <5>5. v + (2 - w) >= 2 * k /\ (Clean(sent, q) => v + (2 - w) = 2 * k)
            BY <5>4
          <5> QED
            BY <5>2, <5>3, <5>5
        <4>3. CASE m.data = <<>>
          <5>1. Clean(sent, q + 1) => Clean(sent, q)
            BY <1>3, CleanBelow, q \in Int, q + 1 \in Int, q <= q + 1
          <5> QED
            BY <1>2, <4>1, <4>2, <4>3, <5>1 DEF AtEnd
        <4>4. CASE m.data # <<>>
          BY <1>2, <3>1, <3>3, <4>1, <4>2, <4>4 DEF InData
        <4> QED
          BY <4>3, <4>4
      <3>7. CASE n # Len(x)
        <4>1. w = 0 /\ n = 1 /\ Len(x) = 2
          BY <1>5, <3>5, <3>7
        <4>2. x = HeaderWords(m)
          BY <3>3, <3>4, <4>1, SubSeqFull, 0 + 1 = 1
        <4>3. out'[s] = Rest(m, 1)
          BY <1>8, <3>4, <3>7, <4>1, <4>2 DEF Rest
        <4>4. /\ Written' >= 2 * (q - 1) + 1
              /\ Clean(sent, q) => Written' = 2 * (q - 1) + 1
          <5>1. Written >= 2 * (q - 1) /\ (Clean(sent, q) => Written = 2 * (q - 1))
            BY <1>3, <3>1, <4>1
          <5>2. PICK v \in Nat, k \in Nat : v = Written /\ k = q
            BY <1>3, <1>9
          <5>3. Written' = v + 1
            BY <1>9, <4>1, <5>2
          <5>4. v + 1 >= 2 * (k - 1) + 1 /\ (Clean(sent, q) => v + 1 = 2 * (k - 1) + 1)
            BY <5>1, <5>2
          <5> QED
            BY <5>2, <5>3, <5>4
        <4> QED
          BY <1>2, <3>1, <4>3, <4>4, 1 \in 0..1 DEF InHeader
      <3> QED
        BY <3>6, <3>7
    <2> QED
      BY <1>12, <1>13, <2>1, <2>2
  <1> QED
    BY <1>10, <1>11, <1>15, <1>16 DEF StepInv

\* With one sending thread the handler calls follow the messages up to the first
\* that has data, whatever SSL_read() and SSL_write() take at a time and wherever
\* the connection fails (peers.cc:34-49, 93-106, ssl.cc).
THEOREM HeadersInStep ==
  ASSUME NEW s, Senders = {s} PROVE Spec => []InStepUntilData
  <1>1. Init => StepInv
    <2> SUFFICES ASSUME Init PROVE StepInv
      OBVIOUS
    <2> USE DEF Init
    <2>1. TypeInv
      <3>1. /\ <<>> \in Seq([type : Nat, size : Nat]) /\ <<>> \in Seq(Nat)
            /\ <<>> \in Seq(Messages) /\ <<>> \in Seq(Seq(Nat)) /\ Len(<<>>) <= 2
        BY EmptySeq
      <3> QED
        BY <3>1 DEF TypeInv
    <2>2. Read = 0 /\ Written = 0 /\ Len(sent) = 0
      BY DEF Read, Written
    <2>3. InStepUntilData /\ InRead
      BY DEF InStepUntilData, InRead
    <2>4. InStream
      BY <2>2 DEF InStream
    <2>5. AtEnd(s)
      BY <2>2 DEF AtEnd
    <2> QED
      BY <2>1, <2>3, <2>4, <2>5 DEF StepInv
  <1>2. StepInv /\ [Next]_vars => StepInv'
    <2> SUFFICES ASSUME StepInv, [Next]_vars PROVE StepInv'
      OBVIOUS
    <2>1. ASSUME NEW type \in Types, register_global_handler(type) PROVE StepInv'
      BY <2>1, QuietStep DEF register_global_handler
    <2>2. ASSUME connect_peer PROVE StepInv'
      BY <2>2, QuietStep DEF connect_peer
    <2>3. ASSUME ssl_read_failed PROVE StepInv'
      BY <2>3, QuietStep DEF ssl_read_failed
    <2>4. CASE UNCHANGED vars
      BY <2>4, QuietStep DEF vars
    <2>5. ASSUME NEW r \in Senders, NEW m \in Messages, send_data_to_peer(r, m) PROVE StepInv'
      BY <2>5, SendStep
    <2>6. ASSUME NEW r \in Senders, SSLWriteAllData(r) PROVE StepInv'
      BY <2>6, WriteStep
    <2>7. ASSUME NEW r \in Senders, ssl_write_failed(r) PROVE StepInv'
      BY <2>7, FailStep
    <2> QED
      BY <2>1, <2>2, <2>3, <2>4, <2>5, <2>6, <2>7, ReadStep, HandleStep DEF Next
  <1>3. StepInv => InStepUntilData
    BY DEF StepInv
  <1> QED
    BY <1>1, <1>2, <1>3, PTL DEF Spec

==============================================================================
