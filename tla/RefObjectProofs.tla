--------------------------- MODULE RefObjectProofs ---------------------------
(***************************************************************************)
(* Proofs about RefObject for any set of threads and objects and any       *)
(* finite set of references: ref_count is exact, and no reference dangles. *)
(***************************************************************************)
EXTENDS RefObject, FiniteSetTheorems, TLAPS

------------------------------------------------------------------------------
(* The inductive invariant.                                                *)

\* The types, without the bound on the counts, which needs RefCountExact.
Types ==
  /\ status \in [Objects -> {"unborn", "live", "deleted"}]
  /\ ref_count \in [Objects -> Int]
  /\ ptr \in [Refs -> Objects \cup {NULL}]
  /\ user \in [Refs -> Threads]
  /\ pc \in [Threads -> {"ready", "inc", "dec", "delete", "finish"}]
  /\ method \in [Threads -> {"clear", "copy", "move"}]
  /\ this \in [Threads -> Refs] /\ other \in [Threads -> Refs]

\* A method works on Refs of its own thread.
OwnRefs ==
  \A t \in Threads : pc[t] # "ready" => user[this[t]] = t /\ user[other[t]] = t

\* Nothing points to an object that does not exist yet, and what a counted
\* Ref points to is alive.
HeldLive ==
  \A r \in Refs : ptr[r] # NULL =>
    /\ status[ptr[r]] # "unborn"
    /\ ~Uncounted(r) => status[ptr[r]] = "live"

\* A copy in progress is kept alive by the Ref it copies; a deletion in progress
\* is the only one of its object, which nobody counts on any more.
InProgress ==
  \A t \in Threads :
    /\ pc[t] = "inc" => /\ this[t] # other[t]
                        /\ ptr[this[t]] # NULL /\ ptr[other[t]] = ptr[this[t]]
    /\ pc[t] = "delete" => /\ ptr[this[t]] # NULL /\ status[ptr[this[t]]] = "live"
                           /\ ref_count[ptr[this[t]]] = 0
                           /\ \A u \in Threads : pc[u] = "delete" /\ ptr[this[u]] = ptr[this[t]]
                                => u = t

RefInv == Types /\ OwnRefs /\ HeldLive /\ InProgress /\ RefCountExact

------------------------------------------------------------------------------
(* Who is counted.                                                         *)

LEMMA HoldersFinite == \A o \in Objects : IsFiniteSet(Holders(o))
  <1> TAKE o \in Objects
  <1> QED
    BY RefsAssumption, FS_Subset, Holders(o) \subseteq Refs DEF Holders

\* Of the Refs of a thread only the one its method works on may be uncounted.
LEMMA OwnCounted ==
  ASSUME Types, OwnRefs, NEW t \in Threads, NEW r \in Refs, user[r] = t,
         pc[t] \in {"ready", "dec"} \/ r # this[t]
  PROVE  ~Uncounted(r)
  BY DEF Types, OwnRefs, Uncounted

\* A step that changes neither a count nor its holders keeps it exact, ...
LEMMA CountKept ==
  ASSUME RefCountExact, NEW o \in Objects, ref_count'[o] = ref_count[o],
         Holders(o)' = Holders(o)
  PROVE  ref_count'[o] = Cardinality(Holders(o))'
  BY DEF RefCountExact

\* ... so does one that adds a holder and counts it, ...
LEMMA CountUp ==
  ASSUME RefCountExact, NEW o \in Objects, NEW r \in Refs, r \notin Holders(o),
         ref_count'[o] = ref_count[o] + 1, Holders(o)' = Holders(o) \cup {r}
  PROVE  ref_count'[o] = Cardinality(Holders(o))'
  <1>1. ref_count[o] = Cardinality(Holders(o))
    BY DEF RefCountExact
  <1>2. Cardinality(Holders(o) \cup {r}) = Cardinality(Holders(o)) + 1
    BY HoldersFinite, FS_AddElement
  <1> QED
    BY <1>1, <1>2, Zenon

\* ... one that takes a holder away and counts it, ...
LEMMA CountDown ==
  ASSUME RefCountExact, NEW o \in Objects, NEW r \in Holders(o),
         ref_count'[o] = ref_count[o] - 1, Holders(o)' = Holders(o) \ {r}
  PROVE  ref_count'[o] = Cardinality(Holders(o))'
  BY HoldersFinite, FS_RemoveElement DEF RefCountExact

\* ... and one that passes a reference on.
LEMMA CountMoved ==
  ASSUME RefCountExact, NEW o \in Objects, NEW s \in Holders(o), NEW r \in Refs,
         r \notin Holders(o), ref_count'[o] = ref_count[o],
         Holders(o)' = (Holders(o) \ {s}) \cup {r}
  PROVE  ref_count'[o] = Cardinality(Holders(o))'
  <1>1. IsFiniteSet(Holders(o) \ {s})
        /\ Cardinality(Holders(o) \ {s}) = Cardinality(Holders(o)) - 1
    BY HoldersFinite, FS_RemoveElement
  <1>2. Cardinality((Holders(o) \ {s}) \cup {r}) = Cardinality(Holders(o) \ {s}) + 1
    BY <1>1, FS_AddElement
  <1>3. Cardinality(Holders(o)) \in Nat
    BY HoldersFinite, FS_CardinalityType
  <1> QED
    BY <1>1, <1>2, <1>3 DEF RefCountExact

\* An object that somebody holds has a positive count.
LEMMA HeldPositive ==
  ASSUME RefCountExact, NEW o \in Objects, NEW r \in Holders(o)
  PROVE  ref_count[o] # 0
  BY HoldersFinite, FS_EmptySet DEF RefCountExact

------------------------------------------------------------------------------
(* RefInv is inductive.                                                    *)

LEMMA InitRefInv == Init => RefInv
  <1> SUFFICES ASSUME Init PROVE RefInv
    OBVIOUS
  <1>1. Types /\ OwnRefs /\ HeldLive /\ InProgress
    BY DEF Init, Types, OwnRefs, HeldLive, InProgress
  <1>2. ASSUME NEW o \in Objects PROVE ref_count[o] = Cardinality(Holders(o))
    <2>1. Holders(o) = {}
      BY RefsAssumption DEF Init, Holders
    <2> QED
      BY <2>1, FS_EmptySet DEF Init
  <1> QED
    BY <1>1, <1>2 DEF RefInv, RefCountExact

\* The client's steps.
LEMMA NewObject ==
  ASSUME RefInv, NEW t \in Threads, NEW r \in Refs, NEW o \in Objects, new_object(t, r, o)
  PROVE  RefInv'
  <1> USE RefsAssumption DEF RefInv, Types, OwnRefs, HeldLive, InProgress
  <1>1. ~Uncounted(r) /\ \A s \in Refs : Uncounted(s)' <=> Uncounted(s)
    BY OwnCounted DEF new_object, Own, Uncounted
  <1>2. Types' /\ OwnRefs' /\ HeldLive'
    BY <1>1 DEF new_object, Own
  <1>3. \A u \in Threads : pc[u] # "ready" => this[u] # r /\ other[u] # r
    BY DEF new_object, Own
  <1>4. InProgress'
    BY <1>3 DEF new_object, Own
  <1>5. ASSUME NEW p \in Objects PROVE ref_count'[p] = Cardinality(Holders(p))'
    <2>1. CASE p = o
      <3>1. Holders(p) = {} /\ Holders(p)' = {r}
        BY <1>1, <2>1 DEF new_object, Own, Holders
      <3>2. ref_count'[p] = 1
        BY <2>1 DEF new_object
      <3>3. Cardinality({r}) = 1
        BY FS_Singleton
      <3> QED
        BY <3>1, <3>2, <3>3
    <2>2. CASE p # o
      <3>1. Holders(p)' = Holders(p)
        BY <1>1, <2>2 DEF new_object, Own, Holders
      <3> QED
        BY <2>2, <3>1, CountKept DEF new_object
    <2> QED
      BY <2>1, <2>2
  <1> QED
    BY <1>2, <1>4, <1>5 DEF RefCountExact

LEMMA HandOver ==
  ASSUME RefInv, NEW t \in Threads, NEW r \in Refs, NEW u \in Threads, hand_over(t, r, u)
  PROVE  RefInv'
  <1> USE DEF RefInv, Types, OwnRefs, HeldLive, InProgress
  <1>1. \A s \in Refs : Uncounted(s)' <=> Uncounted(s)
    BY DEF hand_over, Uncounted
  <1>2. Types' /\ OwnRefs' /\ HeldLive' /\ InProgress'
    BY <1>1 DEF hand_over, Own
  <1>3. \A p \in Objects : Holders(p)' = Holders(p)
    BY <1>1 DEF hand_over, Holders
  <1> QED
    BY <1>2, <1>3, CountKept DEF hand_over, RefCountExact

LEMMA CallClear ==
  ASSUME RefInv, NEW t \in Threads, NEW r \in Refs, NEW s \in Refs,
         NEW m \in {"clear", "copy", "move"}, call(t, r, s, m, "dec"), UNCHANGED ptr
  PROVE  RefInv'
  <1> USE DEF RefInv, Types, OwnRefs, HeldLive, InProgress
  <1>1. \A x \in Refs : Uncounted(x)' <=> Uncounted(x)
    BY DEF call, Own, Uncounted
  <1>2. Types' /\ OwnRefs'
    BY DEF call, Own
  <1>3. HeldLive' /\ InProgress'
    BY <1>1 DEF call, Own
  <1>4. \A p \in Objects : Holders(p)' = Holders(p)
    BY <1>1 DEF call, Holders
  <1> QED
    BY <1>2, <1>3, <1>4, CountKept DEF call, RefCountExact

LEMMA CopyConstruct ==
  ASSUME RefInv, NEW t \in Threads, NEW r \in Refs, NEW s \in Refs, copy_construct(t, r, s)
  PROVE  RefInv'
  <1> USE RefsAssumption DEF RefInv, Types, OwnRefs, HeldLive, InProgress
  <1>1. \A x \in Refs : Uncounted(x)' <=> Uncounted(x) \/ x = r
    BY DEF copy_construct, call, Own, Uncounted
  <1>2. Types' /\ OwnRefs'
    BY DEF copy_construct, call, Own
  <1>3. HeldLive'
    BY <1>1 DEF copy_construct, call, Own
  <1>4. \A u \in Threads : pc[u] # "ready" => this[u] # r /\ other[u] # r
    BY DEF copy_construct, call, Own
  <1>5. InProgress'
    BY <1>4 DEF copy_construct, call, Own
  <1>6. \A p \in Objects : Holders(p)' = Holders(p)
    BY <1>1 DEF copy_construct, call, Holders
  <1> QED
    BY <1>2, <1>3, <1>5, <1>6, CountKept DEF copy_construct, call, RefCountExact

LEMMA MoveConstruct ==
  ASSUME RefInv, NEW t \in Threads, NEW r \in Refs, NEW s \in Refs, move_construct(t, r, s)
  PROVE  RefInv'
  <1> USE RefsAssumption DEF RefInv, Types, OwnRefs, HeldLive, InProgress
  <1>1. /\ ~Uncounted(r) /\ ~Uncounted(s)
        /\ \A x \in Refs : Uncounted(x)' <=> Uncounted(x)
    BY OwnCounted DEF move_construct, Own, Uncounted
  <1>2. Types' /\ OwnRefs' /\ HeldLive'
    <2>1. /\ r # s /\ ptr[r] = NULL
          /\ ptr' = [ptr EXCEPT ![r] = ptr[s], ![s] = NULL]
          /\ UNCHANGED <<status, ref_count, user, pc, method, this, other>>
      BY DEF move_construct
    <2>2. ptr' \in [Refs -> Objects \cup {NULL}]
      BY <2>1
    <2>3. Types' /\ OwnRefs'
      BY <2>1, <2>2
    <2>4. HeldLive'
      BY <1>1, <2>1
    <2> QED
      BY <2>3, <2>4
  <1>3. \A u \in Threads : pc[u] # "ready" => /\ this[u] # r /\ other[u] # r
                                             /\ this[u] # s /\ other[u] # s
    BY DEF move_construct, Own
  <1>4. InProgress'
    BY <1>3 DEF move_construct, Own
  <1>5. ASSUME NEW p \in Objects PROVE ref_count'[p] = Cardinality(Holders(p))'
    <2>1. CASE p = ptr[s]
      <3>1. /\ s \in Holders(p) /\ r \notin Holders(p)
            /\ Holders(p)' = (Holders(p) \ {s}) \cup {r}
        BY <1>1, <2>1 DEF move_construct, Own, Holders
      <3>2. ref_count'[p] = ref_count[p]
        BY DEF move_construct
      <3> HIDE DEF Types, OwnRefs, HeldLive, InProgress
      <3> QED
        BY <3>1, <3>2, CountMoved
    <2>2. CASE p # ptr[s]
      <3>1. Holders(p)' = Holders(p)
        BY <1>1, <2>2 DEF move_construct, Own, Holders
      <3> QED
        BY <3>1, CountKept DEF move_construct
    <2> QED
      BY <2>1, <2>2
  <1> QED
    BY <1>2, <1>4, <1>5 DEF RefCountExact

\* The steps inside the methods.
LEMMA IncRef ==
  ASSUME RefInv, NEW t \in Threads, inc_ref(t)
  PROVE  RefInv'
  <1> USE RefsAssumption DEF RefInv, Types, OwnRefs, HeldLive, InProgress
  <1> DEFINE r == this[t]
             o == ptr[r]
  <1>1. /\ r \in Refs /\ o \in Objects /\ Uncounted(r)
        /\ other[t] \in Refs /\ other[t] # r /\ ptr[other[t]] = o /\ user[other[t]] = t
    BY DEF inc_ref, Uncounted
  <1>2. ~Uncounted(other[t])
    BY <1>1, OwnCounted
  <1>3. status[o] = "live" /\ other[t] \in Holders(o)
    BY <1>1, <1>2 DEF Holders
  <1>4. \A x \in Refs : Uncounted(x)' <=> Uncounted(x) /\ x # r
    BY DEF inc_ref, Uncounted
  <1>5. ref_count[o] # 0
    BY <1>1, <1>3, HeldPositive
  <1>6. Types' /\ OwnRefs'
    BY <1>1 DEF inc_ref
  <1>7. HeldLive'
    BY <1>1, <1>3, <1>4 DEF inc_ref
  <1>8. InProgress'
    BY <1>1, <1>5 DEF inc_ref
  <1>9. ASSUME NEW p \in Objects PROVE ref_count'[p] = Cardinality(Holders(p))'
    <2>1. CASE p = o
      <3>1. r \notin Holders(p) /\ Holders(p)' = Holders(p) \cup {r}
        BY <1>1, <1>4, <2>1 DEF inc_ref, Holders
      <3>2. ref_count'[p] = ref_count[p] + 1
        BY <1>1, <2>1 DEF inc_ref
      <3> HIDE DEF r, o, Types, OwnRefs, HeldLive, InProgress
      <3> QED
        BY <1>1, <3>1, <3>2, CountUp
    <2>2. CASE p # o
      <3>1. Holders(p)' = Holders(p) /\ ref_count'[p] = ref_count[p]
        BY <1>1, <1>4, <2>2 DEF inc_ref, Holders
      <3> QED
        BY <3>1, CountKept
    <2> QED
      BY <2>1, <2>2
  <1> QED
    BY <1>6, <1>7, <1>8, <1>9 DEF RefCountExact

LEMMA DecRef ==
  ASSUME RefInv, NEW t \in Threads, dec_ref(t)
  PROVE  RefInv'
  <1> USE RefsAssumption DEF RefInv, Types, OwnRefs, HeldLive, InProgress
  <1> DEFINE r == this[t]
             o == ptr[r]
  <1>1. r \in Refs /\ user[r] = t /\ pc[t] = "dec" /\ ~Uncounted(r)
    BY OwnCounted DEF dec_ref
  <1>2. \A x \in Refs : Uncounted(x)' <=> Uncounted(x) \/ x = r
    BY <1>1 DEF dec_ref, Uncounted
  <1>3. CASE o = NULL
    <2>1. Types' /\ OwnRefs' /\ HeldLive' /\ InProgress'
      BY <1>1, <1>2, <1>3 DEF dec_ref
    <2>2. \A p \in Objects : Holders(p)' = Holders(p) /\ ref_count'[p] = ref_count[p]
      BY <1>1, <1>2, <1>3 DEF dec_ref, Holders
    <2> QED
      BY <2>1, <2>2, CountKept DEF RefCountExact
  <1>4. CASE o # NULL
    <2>1. o \in Objects /\ r \in Holders(o) /\ status[o] = "live"
      BY <1>1, <1>4 DEF Holders
    <2>2. ref_count[o] # 0
      BY <2>1, HeldPositive
    <2>3. Types' /\ OwnRefs'
      BY <1>4, <2>1 DEF dec_ref
    <2>4. HeldLive'
      BY <1>2, <2>1 DEF dec_ref
    <2>5. \A u \in Threads : pc[u] = "delete" => ptr[this[u]] # o
      BY <2>2
    <2>6. InProgress'
      BY <1>1, <1>4, <2>1, <2>5 DEF dec_ref
    <2>7. ASSUME NEW p \in Objects PROVE ref_count'[p] = Cardinality(Holders(p))'
      <3>1. CASE p = o
        <4>1. Holders(p)' = Holders(p) \ {r}
          BY <1>2, <3>1 DEF dec_ref, Holders
        <4>2. ref_count'[p] = ref_count[p] - 1
          BY <1>4, <2>1, <3>1 DEF dec_ref
        <4> HIDE DEF r, o, Types, OwnRefs, HeldLive, InProgress
        <4> QED
          BY <2>1, <3>1, <4>1, <4>2, CountDown
      <3>2. CASE p # o
        <4>1. Holders(p)' = Holders(p) /\ ref_count'[p] = ref_count[p]
          BY <1>2, <1>4, <2>1, <3>2 DEF dec_ref, Holders
        <4> QED
          BY <4>1, CountKept
      <3> QED
        BY <3>1, <3>2
    <2> QED
      BY <2>3, <2>4, <2>6, <2>7 DEF RefCountExact
  <1> QED
    BY <1>3, <1>4

LEMMA DeleteObject ==
  ASSUME RefInv, NEW t \in Threads, delete_object(t)
  PROVE  RefInv'
  <1> USE RefsAssumption DEF RefInv, Types, OwnRefs, HeldLive, InProgress
  <1> DEFINE o == ptr[this[t]]
  <1>1. /\ this[t] \in Refs /\ o \in Objects /\ ref_count[o] = 0
        /\ \A u \in Threads : pc[u] = "delete" /\ ptr[this[u]] = o => u = t
    BY DEF delete_object
  <1>2. \A x \in Refs : Uncounted(x)' <=> Uncounted(x)
    BY DEF delete_object, Uncounted
  <1>3. \A x \in Refs : ptr[x] = o => Uncounted(x)
    BY <1>1, HeldPositive DEF Holders
  <1>4. Types' /\ OwnRefs'
    BY <1>1 DEF delete_object
  <1>5. HeldLive'
    BY <1>1, <1>2, <1>3 DEF delete_object
  <1>6. InProgress'
    BY <1>1 DEF delete_object
  <1>7. \A p \in Objects : Holders(p)' = Holders(p) /\ ref_count'[p] = ref_count[p]
    BY <1>2 DEF delete_object, Holders
  <1> QED
    BY <1>4, <1>5, <1>6, <1>7, CountKept DEF RefCountExact

\* clear() ends, and operator= goes on, ...
LEMMA FinishClear ==
  ASSUME RefInv, NEW t \in Threads, finish(t), method[t] = "clear"
  PROVE  RefInv'
  <1> USE RefsAssumption DEF RefInv, Types, OwnRefs, HeldLive, InProgress
  <1> DEFINE r == this[t]
  <1>1. r \in Refs /\ Uncounted(r) /\ pc[t] = "finish" /\ user[r] = t
    BY DEF finish, Uncounted
  <1>2. ptr' = [ptr EXCEPT ![r] = NULL] /\ pc' = [pc EXCEPT ![t] = "ready"]
        /\ UNCHANGED <<status, ref_count, user, method, this, other>>
    BY DEF finish
  <1>3. \A x \in Refs : Uncounted(x)' <=> Uncounted(x) /\ x # r
    BY <1>1, <1>2 DEF Uncounted
  <1>4. \A u \in Threads : u # t /\ pc[u] # "ready" => this[u] # r /\ other[u] # r
    BY <1>1
  <1>5. Types' /\ OwnRefs' /\ HeldLive'
    BY <1>1, <1>2, <1>3
  <1>6. InProgress'
    BY <1>1, <1>2, <1>4
  <1>7. \A p \in Objects : Holders(p)' = Holders(p) /\ ref_count'[p] = ref_count[p]
    BY <1>1, <1>2, <1>3 DEF Holders
  <1> QED
    BY <1>5, <1>6, <1>7, CountKept DEF RefCountExact

\* ... after a copy to inc_ref(), if there is something to copy, ...
LEMMA FinishCopy ==
  ASSUME RefInv, NEW t \in Threads, finish(t), method[t] = "copy"
  PROVE  RefInv'
  <1> USE RefsAssumption DEF RefInv, Types, OwnRefs, HeldLive, InProgress
  <1> DEFINE r == this[t]
             s == other[t]
             o == [ptr EXCEPT ![r] = NULL][s]
  <1>1. r \in Refs /\ s \in Refs /\ Uncounted(r) /\ pc[t] = "finish"
        /\ user[r] = t /\ user[s] = t /\ o \in Objects \cup {NULL}
    BY DEF finish, Uncounted
  <1>2. ptr' = [ptr EXCEPT ![r] = o]
        /\ pc' = [pc EXCEPT ![t] = IF o # NULL THEN "inc" ELSE "ready"]
        /\ UNCHANGED <<status, ref_count, user, method, this, other>>
    BY DEF finish
  <1>3. o # NULL => s # r /\ ptr[s] = o /\ ~Uncounted(s)
    BY <1>1, OwnCounted
  <1>4. \A x \in Refs : Uncounted(x)' <=> Uncounted(x) /\ (x # r \/ o # NULL)
    BY <1>1, <1>2 DEF Uncounted
  <1>5. \A u \in Threads : u # t /\ pc[u] # "ready" => this[u] # r /\ other[u] # r
    BY <1>1
  <1> HIDE DEF o
  <1>6. Types' /\ OwnRefs'
    BY <1>1, <1>2
  <1>7. HeldLive'
    BY <1>1, <1>2, <1>3, <1>4
  <1>8. InProgress'
    BY <1>1, <1>2, <1>3, <1>5
  <1>9. \A p \in Objects : Holders(p)' = Holders(p) /\ ref_count'[p] = ref_count[p]
    BY <1>1, <1>2, <1>4 DEF Holders
  <1> QED
    BY <1>6, <1>7, <1>8, <1>9, CountKept DEF RefCountExact

\* ... and a move takes its argument's reference over.
LEMMA FinishMove ==
  ASSUME RefInv, NEW t \in Threads, finish(t), method[t] = "move"
  PROVE  RefInv'
  <1> USE RefsAssumption DEF RefInv, Types, OwnRefs, HeldLive, InProgress
  <1> DEFINE r == this[t]
             s == other[t]
             o == [ptr EXCEPT ![r] = NULL][s]
  <1>1. r \in Refs /\ s \in Refs /\ Uncounted(r) /\ pc[t] = "finish"
        /\ user[r] = t /\ user[s] = t /\ o \in Objects \cup {NULL}
    BY DEF finish, Uncounted
  <1>2. ptr' = [ptr EXCEPT ![r] = o, ![s] = NULL] /\ pc' = [pc EXCEPT ![t] = "ready"]
        /\ UNCHANGED <<status, ref_count, user, method, this, other>>
    BY DEF finish
  <1>3. o # NULL => s # r /\ ptr[s] = o /\ ~Uncounted(s)
    BY <1>1, OwnCounted
  <1>4. s = r => o = NULL
    BY <1>1
  <1>5. s # r => o = ptr[s] /\ ~Uncounted(s)
    BY <1>1, OwnCounted
  <1>6. \A x \in Refs : Uncounted(x)' <=> Uncounted(x) /\ x # r
    BY <1>1, <1>2 DEF Uncounted
  <1>7. \A u \in Threads : u # t /\ pc[u] # "ready" =>
          this[u] # r /\ other[u] # r /\ this[u] # s /\ other[u] # s
    BY <1>1
  <1> HIDE DEF o
  <1>8. Types' /\ OwnRefs'
    <2>1. ptr' \in [Refs -> Objects \cup {NULL}]
      BY <1>1, <1>2
    <2>2. pc' \in [Threads -> {"ready", "inc", "dec", "delete", "finish"}]
      BY <1>2
    <2>3. OwnRefs'
      BY <1>2
    <2> QED
      BY <1>2, <2>1, <2>2, <2>3
  <1>9. HeldLive'
    BY <1>1, <1>2, <1>3, <1>6
  <1>10. InProgress'
    BY <1>1, <1>2, <1>7
  <1>11. ASSUME NEW p \in Objects PROVE ref_count'[p] = Cardinality(Holders(p))'
    <2>1. ref_count'[p] = ref_count[p]
      BY <1>2
    <2>2. CASE p = o
      <3>1. /\ s \in Holders(p) /\ r \notin Holders(p)
            /\ Holders(p)' = (Holders(p) \ {s}) \cup {r}
        BY <1>1, <1>2, <1>3, <1>6, <2>2 DEF Holders
      <3> HIDE DEF r, s, Types, OwnRefs, HeldLive, InProgress
      <3> QED
        BY <1>1, <2>1, <3>1, CountMoved
    <2>3. CASE p # o
      <3>1. Holders(p)' = Holders(p)
        BY <1>1, <1>2, <1>4, <1>5, <1>6, <2>3 DEF Holders
      <3> QED
        BY <2>1, <3>1, CountKept
    <2> QED
      BY <2>2, <2>3
  <1> QED
    BY <1>8, <1>9, <1>10, <1>11 DEF RefCountExact

LEMMA NextRefInv == RefInv /\ [Next]_vars => RefInv'
  <1> SUFFICES ASSUME RefInv, [Next]_vars PROVE RefInv'
    OBVIOUS
  <1>1. CASE UNCHANGED vars
    BY <1>1 DEF vars, RefInv, Types, OwnRefs, HeldLive, InProgress, RefCountExact,
                Holders, Uncounted
  <1>2. ASSUME NEW t \in Threads, MethodStep(t) PROVE RefInv'
    <2>1. CASE finish(t)
      BY <2>1, FinishClear, FinishCopy, FinishMove DEF finish
    <2> QED
      BY <1>2, <2>1, IncRef, DecRef, DeleteObject DEF MethodStep
  <1>3. ASSUME NEW t \in Threads, ClientCall(t) PROVE RefInv'
    <2>1. PICK r \in Refs :
            \/ \E o \in Objects : new_object(t, r, o)
            \/ \E u \in Threads : hand_over(t, r, u)
            \/ clear(t, r)
            \/ \E s \in Refs : \/ copy_assign(t, r, s) \/ move_assign(t, r, s)
                               \/ copy_construct(t, r, s) \/ move_construct(t, r, s)
      BY <1>3 DEF ClientCall
    <2>2. CASE clear(t, r)
      BY <2>2, CallClear DEF clear
    <2>3. ASSUME NEW s \in Refs, copy_assign(t, r, s) \/ move_assign(t, r, s) PROVE RefInv'
      BY <2>3, CallClear DEF copy_assign, move_assign
    <2> QED
      BY <2>1, <2>2, <2>3, NewObject, HandOver, CopyConstruct, MoveConstruct
  <1> QED
    BY <1>1, <1>2, <1>3 DEF Next

------------------------------------------------------------------------------
(* What follows from it.                                                   *)

LEMMA RefInvTypeOK == RefInv => TypeOK
  <1> SUFFICES ASSUME RefInv PROVE TypeOK
    OBVIOUS
  <1>1. ASSUME NEW o \in Objects PROVE ref_count[o] \in 0..Cardinality(Refs)
    <2>1. Holders(o) \subseteq Refs
      BY DEF Holders
    <2>2. /\ Cardinality(Holders(o)) \in Nat /\ Cardinality(Refs) \in Nat
          /\ Cardinality(Holders(o)) <= Cardinality(Refs)
      BY <2>1, RefsAssumption, HoldersFinite, FS_Subset, FS_CardinalityType
    <2> QED
      BY <2>2 DEF RefInv, RefCountExact
  <1> QED
    BY <1>1 DEF RefInv, Types, TypeOK

LEMMA RefInvNoDangling == RefInv => NoDangling
  <1> SUFFICES ASSUME RefInv PROVE NoDangling
    OBVIOUS
  <1> USE RefsAssumption DEF RefInv, Types, OwnRefs, HeldLive, InProgress
  <1>1. ASSUME NEW r \in Refs, ptr[r] # NULL, status[ptr[r]] # "live"
        PROVE  \E t \in Threads : pc[t] = "finish" /\ this[t] = r
    <2>1. PICK t \in Threads : this[t] = r /\ pc[t] \in {"delete", "finish", "inc"}
      BY <1>1 DEF Uncounted
    <2>2. ~(pc[t] = "delete")
      BY <1>1, <2>1
    <2>3. ASSUME pc[t] = "inc" PROVE FALSE
      <3>1. other[t] \in Refs /\ other[t] # r /\ ptr[other[t]] = ptr[r] /\ user[other[t]] = t
        BY <2>1, <2>3
      <3>2. ~Uncounted(other[t])
        BY <2>1, <3>1, OwnCounted
      <3> QED
        BY <1>1, <3>1, <3>2
    <2> QED
      BY <2>1, <2>2, <2>3
  <1> QED
    BY <1>1 DEF NoDangling

\* The inductive invariant holds in every state of refs.h's methods.
THEOREM SpecRefInv == Spec => []RefInv
  BY InitRefInv, NextRefInv, PTL DEF Spec

\* Types, and ref_count between 0 and the number of references (refs.h:7-17).
THEOREM SpecTypeOK == Spec => []TypeOK
  BY SpecRefInv, RefInvTypeOK, PTL

\* ref_count is exact whatever is half done (refs.h:11-17, 27-31, 37-71).
THEOREM SpecRefCountExact == Spec => []RefCountExact
  <1>1. RefInv => RefCountExact
    BY DEF RefInv
  <1> QED
    BY SpecRefInv, <1>1, PTL

\* No reference dangles and no object is deleted twice (refs.h:49-57): the
\* decrement that reaches 0 is the last one of its object.
THEOREM SpecNoDangling == Spec => []NoDangling
  BY SpecRefInv, RefInvNoDangling, PTL
=============================================================================
