------------------------------- MODULE RefObject -------------------------------
(***************************************************************************)
(* utils/lock/refs.h: objects that count their references and the Ref<>    *)
(* smart pointers that hold them, used by several threads.  inc_ref() and  *)
(* dec_ref() are atomic and may interleave with those of other threads; a  *)
(* Ref itself belongs to one thread at a time and is handed over between   *)
(* operations.  The pointer of the constructor's caller, for whom          *)
(* ref_count starts at 1, is one more holder with the same duties.         *)
(***************************************************************************)
EXTENDS Integers, FiniteSets

CONSTANTS Threads, Refs, Objects, NULL

ASSUME RefsAssumption == IsFiniteSet(Refs) /\ NULL \notin Objects

VARIABLES
  status,     \* status[o]: "unborn", "live" or "deleted"
  ref_count,  \* ref_count[o]
  ptr,        \* ptr[r]: the object r points to, or NULL
  user,       \* user[r]: the thread r belongs to
  pc,         \* pc[t]: where t is inside a method of Ref, "ready" if in none
  method,     \* method[t]: "clear", "copy" or "move", what t was called for
  this,       \* this[t]: the Ref whose method t executes
  other       \* other[t]: its argument

vars == <<status, ref_count, ptr, user, pc, method, this, other>>

\* A Ref whose pointer ref_count does not count: a thread has given the
\* reference up already, or does not have it yet.
Uncounted(r) ==
  \E t \in Threads : this[t] = r /\ pc[t] \in {"delete", "finish", "inc"}

\* The references that o's ref_count counts.
Holders(o) == {r \in Refs : ptr[r] = o /\ ~Uncounted(r)}

Init ==
  /\ status = [o \in Objects |-> "unborn"]
  /\ ref_count = [o \in Objects |-> 0]
  /\ ptr = [r \in Refs |-> NULL]
  /\ user \in [Refs -> Threads]
  /\ pc = [t \in Threads |-> "ready"]
  /\ method = [t \in Threads |-> "clear"]
  /\ this \in [Threads -> Refs] /\ other = this

------------------------------------------------------------------------------
(* What a client does with Refs of its own.                                *)

Own(t, r) == pc[t] = "ready" /\ user[r] = t

\* RefObject(): "Assume we have 1 reference by constructor caller"
new_object(t, r, o) ==
  /\ Own(t, r) /\ ptr[r] = NULL /\ status[o] = "unborn"
  /\ status' = [status EXCEPT ![o] = "live"]
  /\ ref_count' = [ref_count EXCEPT ![o] = 1]
  /\ ptr' = [ptr EXCEPT ![r] = o]
  /\ UNCHANGED <<user, pc, method, this, other>>

\* r goes to another thread, which is in no method that uses it.
hand_over(t, r, u) ==
  /\ Own(t, r)
  /\ user' = [user EXCEPT ![r] = u]
  /\ UNCHANGED <<status, ref_count, ptr, pc, method, this, other>>

\* t enters a method of r.
call(t, r, s, m, label) ==
  /\ Own(t, r) /\ Own(t, s)
  /\ pc' = [pc EXCEPT ![t] = label]
  /\ method' = [method EXCEPT ![t] = m]
  /\ this' = [this EXCEPT ![t] = r]
  /\ other' = [other EXCEPT ![t] = s]
  /\ UNCHANGED <<status, ref_count, user>>

\* clear() and ~Ref()
clear(t, r) == call(t, r, r, "clear", "dec") /\ UNCHANGED ptr

\* operator=, of a copied and of a moved Ref, possibly of r itself
copy_assign(t, r, s) == call(t, r, s, "copy", "dec") /\ UNCHANGED ptr
move_assign(t, r, s) == call(t, r, s, "move", "dec") /\ UNCHANGED ptr

\* Ref(To *) and Ref(const Ref &): the pointer is copied, then inc_ref()
copy_construct(t, r, s) ==
  /\ ptr[r] = NULL /\ ptr[s] # NULL
  /\ call(t, r, s, "copy", "inc")
  /\ ptr' = [ptr EXCEPT ![r] = ptr[s]]

\* Ref(Ref &&)
move_construct(t, r, s) ==
  /\ Own(t, r) /\ Own(t, s) /\ r # s /\ ptr[r] = NULL
  /\ ptr' = [ptr EXCEPT ![r] = ptr[s], ![s] = NULL]
  /\ UNCHANGED <<status, ref_count, user, pc, method, this, other>>

------------------------------------------------------------------------------
(* The steps inside the methods.                                           *)

\* ptr->inc_ref()
inc_ref(t) ==
  /\ pc[t] = "inc"
  /\ ref_count' = [ref_count EXCEPT ![ptr[this[t]]] = @ + 1]
  /\ pc' = [pc EXCEPT ![t] = "ready"]
  /\ UNCHANGED <<status, ptr, user, method, this, other>>

\* A clear() that deletes when one reference is left, ...
MutDeleteEarly(t) ==
  /\ pc[t] = "dec"
  /\ IF ptr[this[t]] = NULL
     THEN pc' = [pc EXCEPT ![t] = "finish"] /\ UNCHANGED ref_count
     ELSE LET o == ptr[this[t]]
              refs_left == ref_count[o] - 1
          IN  /\ ref_count' = [ref_count EXCEPT ![o] = refs_left]
              /\ pc' = [pc EXCEPT ![t] = IF refs_left <= 1 THEN "delete" ELSE "finish"]
  /\ UNCHANGED <<status, ptr, user, method, this, other>>

\* ... and one that leaves the deletion to somebody else.
MutNeverDelete(t) ==
  /\ pc[t] = "dec"
  /\ IF ptr[this[t]] = NULL
     THEN UNCHANGED ref_count
     ELSE ref_count' = [ref_count EXCEPT ![ptr[this[t]]] = @ - 1]
  /\ pc' = [pc EXCEPT ![t] = "finish"]
  /\ UNCHANGED <<status, ptr, user, method, this, other>>

\* clear(): if (ptr) { refs_left = ptr->dec_ref(); if (!refs_left) ...
dec_ref(t) ==
  /\ pc[t] = "dec"
  /\ IF ptr[this[t]] = NULL
     THEN pc' = [pc EXCEPT ![t] = "finish"] /\ UNCHANGED ref_count
     ELSE LET o == ptr[this[t]]
              refs_left == ref_count[o] - 1
          IN  /\ ref_count' = [ref_count EXCEPT ![o] = refs_left]
              /\ pc' = [pc EXCEPT ![t] = IF refs_left = 0 THEN "delete" ELSE "finish"]
  /\ UNCHANGED <<status, ptr, user, method, this, other>>

\* delete ptr
delete_object(t) ==
  /\ pc[t] = "delete"
  /\ status' = [status EXCEPT ![ptr[this[t]]] = "deleted"]
  /\ pc' = [pc EXCEPT ![t] = "finish"]
  /\ UNCHANGED <<ref_count, ptr, user, method, this, other>>

\* A move that leaves the pointer in its argument too.
MutMoveKeeps(t) ==
  LET cleared == [ptr EXCEPT ![this[t]] = NULL]
  IN  /\ pc[t] = "finish"
      /\ ptr' = IF method[t] = "clear" THEN cleared
                ELSE [cleared EXCEPT ![this[t]] = cleared[other[t]]]
      /\ pc' = [pc EXCEPT ![t] =
                  IF method[t] = "copy" /\ cleared[other[t]] # NULL THEN "inc" ELSE "ready"]
      /\ UNCHANGED <<status, ref_count, user, method, this, other>>

\* ptr = nullptr at the end of clear(), and what operator= does after it: a copy
\* goes on to inc_ref(), a move takes the pointer from its argument.
finish(t) ==
  LET cleared == [ptr EXCEPT ![this[t]] = NULL]
      o == cleared[other[t]]
  IN  /\ pc[t] = "finish"
      /\ \/ /\ method[t] = "clear"
            /\ ptr' = cleared
            /\ pc' = [pc EXCEPT ![t] = "ready"]
         \/ /\ method[t] = "copy"
            /\ ptr' = [cleared EXCEPT ![this[t]] = o]
            /\ pc' = [pc EXCEPT ![t] = IF o # NULL THEN "inc" ELSE "ready"]
         \/ /\ method[t] = "move"
            /\ ptr' = [cleared EXCEPT ![this[t]] = o, ![other[t]] = NULL]
            /\ pc' = [pc EXCEPT ![t] = "ready"]
      /\ UNCHANGED <<status, ref_count, user, method, this, other>>

------------------------------------------------------------------------------
MethodStep(t) == inc_ref(t) \/ dec_ref(t) \/ delete_object(t) \/ finish(t)

ClientCall(t) ==
  \E r \in Refs :
    \/ \E o \in Objects : new_object(t, r, o)
    \/ \E u \in Threads : hand_over(t, r, u)
    \/ clear(t, r)
    \/ \E s \in Refs : \/ copy_assign(t, r, s) \/ move_assign(t, r, s)
                       \/ copy_construct(t, r, s) \/ move_construct(t, r, s)

Next == \E t \in Threads : MethodStep(t) \/ ClientCall(t)

Spec == Init /\ [][Next]_vars

\* A thread inside a method of Ref keeps running.
FairSpec == Spec /\ \A t \in Threads : WF_vars(MethodStep(t))

------------------------------------------------------------------------------
\* Type invariant.
TypeOK ==
  /\ status \in [Objects -> {"unborn", "live", "deleted"}]
  /\ ref_count \in [Objects -> 0..Cardinality(Refs)]
  /\ ptr \in [Refs -> Objects \cup {NULL}]
  /\ user \in [Refs -> Threads]
  /\ pc \in [Threads -> {"ready", "inc", "dec", "delete", "finish"}]
  /\ method \in [Threads -> {"clear", "copy", "move"}]
  /\ this \in [Threads -> Refs] /\ other \in [Threads -> Refs]

\* ref_count is exact: it counts the Refs (and the constructor's caller) that
\* hold the object, whatever copies, moves and clears of other threads are half
\* done (refs.h:13-17 and 41-88).
RefCountExact == \A o \in Objects : ref_count[o] = Cardinality(Holders(o))

\* No Ref that can be dereferenced points to a deleted object, no method
\* touches the count of one, and none is deleted twice.
NoDangling ==
  /\ \A r \in Refs : ptr[r] # NULL /\ status[ptr[r]] # "live"
       => \E t \in Threads : pc[t] = "finish" /\ this[t] = r
  /\ \A t, u \in Threads :
       pc[t] = "delete" /\ pc[u] = "delete" /\ ptr[this[t]] = ptr[this[u]] => t = u

\* Nothing leaks: an object that no Ref holds any more gets deleted, the last
\* two holders letting go at the same time included.
UnheldDeleted ==
  \A o \in Objects :
    (status[o] = "live" /\ Holders(o) = {}) ~> (status[o] = "deleted")
==============================================================================
