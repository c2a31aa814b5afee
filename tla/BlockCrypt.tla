------------------------------ MODULE BlockCrypt ------------------------------
(***************************************************************************)
(* AES256SUM128Crypt of crypto/block.h: which bytes encrypt() and          *)
(* decrypt() run through the block cipher and through the running sum, and *)
(* in which order.  A message that does not end with a block has its last  *)
(* block_size bytes enciphered once more, over a part of the block before. *)
(* out and in are the same buffer: the tail is always written to in.  What *)
(* the sum makes of the bytes is not modelled.  decrypt() carries the sum  *)
(* on from what it has deciphered and not from the cipher's output, so its *)
(* values are not those that were encrypted.                               *)
(***************************************************************************)
EXTENDS Integers, Sequences, Selection

CONSTANTS
  block_size,
  MaxSize      \* the longest message; none is shorter than a block

VARIABLES
  crypt_call,  \* "none", "encrypt", "decrypt" or "decrypted"
  size,        \* of the whole message
  position,    \* i of the loop over the whole blocks
  encrypted,   \* what encrypt() did: [op, from, to], with op "sum" or "aes"
  decrypted    \* what decrypt() did

vars == <<crypt_call, size, position, encrypted, decrypted>>

Init ==
  /\ crypt_call = "none" /\ size = 0 /\ position = 0
  /\ encrypted = <<>> /\ decrypted = <<>>

Sum(from, to) == [op |-> "sum", from |-> from, to |-> to]
Aes(from, to) == [op |-> "aes", from |-> from, to |-> to]

encrypt(n) ==
  /\ crypt_call = "none"
  /\ crypt_call' = "encrypt" /\ size' = n /\ position' = 0
  /\ UNCHANGED <<encrypted, decrypted>>

\* The end of the whole blocks.
tail_start == size - (size % block_size)

encrypt_block ==
  /\ crypt_call = "encrypt" /\ position < tail_start
  /\ encrypted' = encrypted \o <<Sum(position, position + block_size),
                                 Aes(position, position + block_size)>>
  /\ position' = position + block_size
  /\ UNCHANGED <<crypt_call, size, decrypted>>

\* The tail, and then decrypt() of the result.
encrypt_tail ==
  /\ crypt_call = "encrypt" /\ position = tail_start
  /\ encrypted' = IF size % block_size = 0 THEN encrypted
                  ELSE encrypted \o <<Sum(tail_start, size), Aes(size - block_size, size)>>
  /\ crypt_call' = "decrypt" /\ position' = 0
  /\ UNCHANGED <<size, decrypted>>

\* Where decrypt() leaves its loop: a tail takes the block before it along.
decrypt_end == IF size % block_size = 0 THEN size ELSE tail_start - block_size

decrypt_block ==
  /\ crypt_call = "decrypt" /\ position < decrypt_end
  /\ decrypted' = decrypted \o <<Aes(position, position + block_size),
                                 Sum(position, position + block_size)>>
  /\ position' = position + block_size
  /\ UNCHANGED <<crypt_call, size, encrypted>>

\* A tail deciphered after the block it overlaps.
MutDecryptTail ==
  /\ crypt_call = "decrypt" /\ position = decrypt_end
  /\ decrypted' = IF size % block_size = 0 THEN decrypted
                  ELSE decrypted \o <<Aes(position, position + block_size),
                                      Sum(position, position + block_size),
                                      Aes(size - block_size, size),
                                      Sum(position + block_size, size)>>
  /\ crypt_call' = "decrypted"
  /\ UNCHANGED <<size, position, encrypted>>

decrypt_tail ==
  /\ crypt_call = "decrypt" /\ position = decrypt_end
  /\ decrypted' = IF size % block_size = 0 THEN decrypted
                  ELSE decrypted \o <<Aes(size - block_size, size),
                                      Aes(position, position + block_size),
                                      Sum(position, position + block_size),
                                      Sum(position + block_size, size)>>
  /\ crypt_call' = "decrypted"
  /\ UNCHANGED <<size, position, encrypted>>

next_message ==
  /\ crypt_call = "decrypted"
  /\ crypt_call' = "none" /\ size' = 0 /\ position' = 0
  /\ encrypted' = <<>> /\ decrypted' = <<>>

Next ==
  \/ \E n \in block_size..MaxSize : encrypt(n)
  \/ encrypt_block \/ encrypt_tail \/ decrypt_block \/ decrypt_tail \/ next_message

Spec == Init /\ [][Next]_vars

------------------------------------------------------------------------------
\* What was done to byte b, and the ranges of the running sum, in order.
Operations == [op : {"sum", "aes"}, from : Int, to : Int]
OnByte(ops, b) == Among(ops, {o \in Operations : o.from <= b /\ b < o.to})
Sums(ops) == Among(ops, {o \in Operations : o.op = "sum"})

\* For a message of any size from one block on, every access lies in the message,
\* decrypt() undoes on every byte what encrypt() did to it, in reverse, the twice
\* enciphered bytes of the overlap included, and both feed the running sum with
\* the same ranges in the same order, which the checksum depends on (block.h:127-197).
UndoneInReverse ==
  /\ \A ops \in {encrypted, decrypted} : \A i \in DOMAIN ops :
       0 <= ops[i].from /\ ops[i].to <= size
  /\ crypt_call = "decrypted" =>
       /\ Sums(encrypted) = Sums(decrypted)
       /\ \A b \in 0..size - 1 :
            LET done == OnByte(encrypted, b)
                undone == OnByte(decrypted, b)
            IN  /\ done # <<>> /\ Len(done) = Len(undone)
                /\ \A i \in DOMAIN done : undone[i].op = done[Len(done) + 1 - i].op
                /\ \A i \in DOMAIN done :
                     done[i].op = "aes" => undone[Len(done) + 1 - i] = done[i]
================================================================================
