------------------------ MODULE LockObjectSimpleProofs ------------------------
(***************************************************************************)
(* Proofs about LockObjectSimple for any finite set of threads: mutual     *)
(* exclusion, the exactness of the waiter counter and the refinement of    *)
(* the monitor hold on both memory models; the absence of lost wake-ups    *)
(* holds on the sequentially consistent one only.                          *)
(***************************************************************************)
EXTENDS LockObjectSimple, FiniteSetTheorems, TLAPS

------------------------------------------------------------------------------
(* The inductive invariant.                                                *)

\* The types, without the bound on the counter, which needs WaitersCounted.
Types ==
  /\ futex_var \in {0, 1}
  /\ num_futex_waiters \in Int
  /\ pending \in [Threads -> BOOLEAN]
  /\ pc \in [Threads -> Labels]
  /\ call \in [Threads -> Methods]
  /\ start_val \in [Threads -> {0, 1}]
  /\ inside \in [Threads -> BOOLEAN]

\* t holds the lock as far as the memory can tell: it is in its block, or its
\* release store has not left its store buffer.
Holds(t) == inside[t] \/ pending[t]

OneHolder ==
  /\ \A s, t \in Threads : Holds(s) /\ Holds(t) => s = t
  /\ \A t \in Threads : Holds(t) => futex_var = 1
  /\ \A t \in Threads : inside[t] => ~pending[t]

\* Which methods are in progress at which label, and which of them hold the lock.
Phases ==
  \A t \in Threads :
    /\ pc[t] = "ready" => call[t] = "none"
    /\ pc[t] \in {"try", "add", "futex", "sleep", "sub"} => call[t] \in {"lock_c", "wait"}
    /\ pc[t] \in {"check", "wake"} => call[t] \in {"unlock_c", "wait", "notify", "notifyAll"}
    /\ inside[t] => call[t] \in {"none", "notify", "notifyAll"}

LockInv == Types /\ OneHolder /\ Phases /\ WaitersCounted

\* Without store buffers a release store is in memory before notify() looks for
\* waiters.
ReleasedFirst ==
  ~StoreBuffer => \A t \in Threads : pending[t] => pc[t] = "check"

------------------------------------------------------------------------------
(* The waiter counter.                                                     *)

LEMMA CountedFinite == Counted \subseteq Threads /\ IsFiniteSet(Counted)
  BY ThreadsAssumption, FS_Subset DEF Counted

\* A step that leaves the set of counted threads alone keeps the count.
LEMMA CountKept ==
  ASSUME WaitersCounted, UNCHANGED num_futex_waiters, Counted' = Counted
  PROVE  WaitersCounted'
  BY DEF WaitersCounted

\* A thread that joins the counted ones adds one.
LEMMA CountUp ==
  ASSUME WaitersCounted, NEW t \in Threads, t \notin Counted,
         num_futex_waiters' = num_futex_waiters + 1, Counted' = Counted \cup {t}
  PROVE  WaitersCounted'
  BY CountedFinite, FS_AddElement DEF WaitersCounted

\* A thread that leaves the counted ones takes one away.
LEMMA CountDown ==
  ASSUME WaitersCounted, NEW t \in Counted,
         num_futex_waiters' = num_futex_waiters - 1, Counted' = Counted \ {t}
  PROVE  WaitersCounted'
  BY CountedFinite, FS_RemoveElement DEF WaitersCounted

------------------------------------------------------------------------------
(* LockInv and ReleasedFirst are inductive.                                    *)

LEMMA InitLockInv == Init => LockInv /\ ReleasedFirst
  <1> SUFFICES ASSUME Init PROVE LockInv /\ ReleasedFirst
    OBVIOUS
  <1>1. Types /\ OneHolder /\ Phases /\ ReleasedFirst
    BY DEF Init, Types, OneHolder, Holds, Phases, ReleasedFirst, Labels, Methods
  <1>2. Counted = {}
    BY DEF Init, Counted
  <1>3. WaitersCounted
    BY <1>2, FS_EmptySet DEF Init, WaitersCounted
  <1> QED
    BY <1>1, <1>3 DEF LockInv

LEMMA NextLockInv == LockInv /\ ReleasedFirst /\ [Next]_vars => LockInv' /\ ReleasedFirst'
  <1> SUFFICES ASSUME LockInv, ReleasedFirst, [Next]_vars
               PROVE  LockInv' /\ ReleasedFirst'
    OBVIOUS
  <1> USE DEF LockInv, Types, OneHolder, Holds, Phases, ReleasedFirst, Labels, Methods
  <1> USE StoreBufferAssumption
  <1>1. ASSUME NEW t \in Threads, drain(t)
        PROVE  LockInv' /\ ReleasedFirst'
    <2>1. Types' /\ OneHolder' /\ Phases' /\ ReleasedFirst'
      BY <1>1 DEF drain
    <2>2. Counted' = Counted
      BY <1>1 DEF drain, Counted
    <2>3. WaitersCounted'
      BY <1>1, <2>2, CountKept DEF drain
    <2> QED
      BY <2>1, <2>3
  <1>2. ASSUME NEW t \in Threads, atomic_try_lock(t)
        PROVE  LockInv' /\ ReleasedFirst'
    <2>1. Types' /\ OneHolder' /\ Phases' /\ ReleasedFirst'
      <3>1. Types'
        BY <1>2 DEF atomic_try_lock
      <3>2. OneHolder'
        BY <1>2 DEF atomic_try_lock
      <3>3. Phases'
        BY <1>2 DEF atomic_try_lock
      <3>4. ReleasedFirst'
        BY <1>2 DEF atomic_try_lock
      <3> QED
        BY <3>1, <3>2, <3>3, <3>4
    <2>2. Counted' = Counted
      BY <1>2 DEF atomic_try_lock, Counted
    <2>3. WaitersCounted'
      BY <1>2, <2>2, CountKept DEF atomic_try_lock
    <2> QED
      BY <2>1, <2>3
  <1>3. ASSUME NEW t \in Threads, futex_wait_add(t)
        PROVE  LockInv' /\ ReleasedFirst'
    <2>1. Types' /\ OneHolder' /\ Phases' /\ ReleasedFirst'
      BY <1>3 DEF futex_wait_add
    <2>2. t \notin Counted /\ Counted' = Counted \cup {t}
      BY <1>3 DEF futex_wait_add, Counted
    <2>3. WaitersCounted'
      BY <1>3, <2>2, CountUp DEF futex_wait_add
    <2> QED
      BY <2>1, <2>3
  <1>4. ASSUME NEW t \in Threads, futex_wait(t)
        PROVE  LockInv' /\ ReleasedFirst'
    <2>1. Types' /\ OneHolder' /\ Phases' /\ ReleasedFirst'
      BY <1>4 DEF futex_wait
    <2>2. Counted' = Counted
      BY <1>4 DEF futex_wait, Counted
    <2>3. WaitersCounted'
      BY <1>4, <2>2, CountKept DEF futex_wait
    <2> QED
      BY <2>1, <2>3
  <1>5. ASSUME NEW t \in Threads, futex_interrupted(t)
        PROVE  LockInv' /\ ReleasedFirst'
    <2>1. Types' /\ OneHolder' /\ Phases' /\ ReleasedFirst'
      BY <1>5 DEF futex_interrupted
    <2>2. Counted' = Counted
      BY <1>5 DEF futex_interrupted, Counted
    <2>3. WaitersCounted'
      BY <1>5, <2>2, CountKept DEF futex_interrupted
    <2> QED
      BY <2>1, <2>3
  <1>6. ASSUME NEW t \in Threads, futex_wait_sub(t)
        PROVE  LockInv' /\ ReleasedFirst'
    <2>1. Types' /\ OneHolder' /\ Phases' /\ ReleasedFirst'
      BY <1>6 DEF futex_wait_sub
    <2>2. t \in Counted /\ Counted' = Counted \ {t}
      BY <1>6 DEF futex_wait_sub, Counted
    <2>3. WaitersCounted'
      BY <1>6, <2>2, CountDown DEF futex_wait_sub
    <2> QED
      BY <2>1, <2>3
  <1>7. ASSUME NEW t \in Threads, notify_check(t)
        PROVE  LockInv' /\ ReleasedFirst'
    <2>1. Types' /\ OneHolder' /\ Phases' /\ ReleasedFirst'
      BY <1>7 DEF notify_check, CanLoad, AfterNotify, CallAfterNotify
    <2>2. Counted' = Counted
      BY <1>7 DEF notify_check, AfterNotify, CallAfterNotify, Counted
    <2>3. WaitersCounted'
      BY <1>7, <2>2, CountKept DEF notify_check, AfterNotify, CallAfterNotify
    <2> QED
      BY <2>1, <2>3
  <1>8. ASSUME NEW t \in Threads, notify_wake(t)
        PROVE  LockInv' /\ ReleasedFirst'
    <2>1. Types' /\ OneHolder' /\ Phases' /\ ReleasedFirst'
      BY <1>8 DEF notify_wake, AfterNotify, CallAfterNotify, Sleepers
    <2>2. Counted' = Counted
      BY <1>8 DEF notify_wake, AfterNotify, CallAfterNotify, Sleepers, Counted
    <2>3. WaitersCounted'
      BY <1>8, <2>2, CountKept DEF notify_wake, AfterNotify, CallAfterNotify, Sleepers
    <2> QED
      BY <2>1, <2>3
  <1>9. ASSUME NEW t \in Threads, lock_c(t)
        PROVE  LockInv' /\ ReleasedFirst'
    <2>1. Types' /\ OneHolder' /\ Phases' /\ ReleasedFirst'
      BY <1>9 DEF lock_c
    <2>2. Counted' = Counted
      BY <1>9 DEF lock_c, Counted
    <2>3. WaitersCounted'
      BY <1>9, <2>2, CountKept DEF lock_c
    <2> QED
      BY <2>1, <2>3
  <1>10. ASSUME NEW t \in Threads, unlock_c(t)
        PROVE  LockInv' /\ ReleasedFirst'
    <2>1. Types' /\ OneHolder' /\ Phases' /\ ReleasedFirst'
      <3>1. Types'
        BY <1>10 DEF unlock_c, atomic_release
      <3>2. OneHolder'
        BY <1>10 DEF unlock_c, atomic_release
      <3>3. Phases'
        BY <1>10 DEF unlock_c, atomic_release
      <3>4. ReleasedFirst'
        BY <1>10 DEF unlock_c, atomic_release
      <3> QED
        BY <3>1, <3>2, <3>3, <3>4
    <2>2. Counted' = Counted
      BY <1>10 DEF unlock_c, atomic_release, Counted
    <2>3. WaitersCounted'
      BY <1>10, <2>2, CountKept DEF unlock_c, atomic_release
    <2> QED
      BY <2>1, <2>3
  <1>11. ASSUME NEW t \in Threads, wait(t)
        PROVE  LockInv' /\ ReleasedFirst'
    <2>1. Types' /\ OneHolder' /\ Phases' /\ ReleasedFirst'
      <3>1. Types'
        BY <1>11 DEF wait, atomic_release
      <3>2. OneHolder'
        BY <1>11 DEF wait, atomic_release
      <3>3. Phases'
        BY <1>11 DEF wait, atomic_release
      <3>4. ReleasedFirst'
        BY <1>11 DEF wait, atomic_release
      <3> QED
        BY <3>1, <3>2, <3>3, <3>4
    <2>2. Counted' = Counted
      BY <1>11 DEF wait, atomic_release, Counted
    <2>3. WaitersCounted'
      BY <1>11, <2>2, CountKept DEF wait, atomic_release
    <2> QED
      BY <2>1, <2>3
  <1>12. ASSUME NEW t \in Threads, notify(t)
        PROVE  LockInv' /\ ReleasedFirst'
    <2>1. Types' /\ OneHolder' /\ Phases' /\ ReleasedFirst'
      BY <1>12 DEF notify
    <2>2. Counted' = Counted
      BY <1>12 DEF notify, Counted
    <2>3. WaitersCounted'
      BY <1>12, <2>2, CountKept DEF notify
    <2> QED
      BY <2>1, <2>3
  <1>13. ASSUME NEW t \in Threads, notifyAll(t)
        PROVE  LockInv' /\ ReleasedFirst'
    <2>1. Types' /\ OneHolder' /\ Phases' /\ ReleasedFirst'
      BY <1>13 DEF notifyAll
    <2>2. Counted' = Counted
      BY <1>13 DEF notifyAll, Counted
    <2>3. WaitersCounted'
      BY <1>13, <2>2, CountKept DEF notifyAll
    <2> QED
      BY <2>1, <2>3
  <1>14. CASE UNCHANGED vars
    <2>1. Counted' = Counted
      BY <1>14 DEF vars, Counted
    <2>2. WaitersCounted'
      BY <1>14, <2>1, CountKept DEF vars
    <2> QED
      BY <1>14, <2>2 DEF vars
  <1> QED
    BY <1>1, <1>2, <1>3, <1>4, <1>5, <1>6, <1>7, <1>8, <1>9, <1>10, <1>11, <1>12, <1>13, <1>14
       DEF Next, MethodStep, ClientCall

THEOREM SpecLockInv == Spec => [](LockInv /\ ReleasedFirst)
  BY InitLockInv, NextLockInv, PTL DEF Spec

------------------------------------------------------------------------------
(* The safety properties of the lock, for every finite set of threads.     *)

\* Every value stays in its range; num_futex_waiters (simple.h:12) is never
\* negative and never exceeds the number of threads.
THEOREM SpecTypeOK == Spec => []TypeOK
  <1>1. LockInv => TypeOK
    <2> SUFFICES ASSUME LockInv PROVE TypeOK
      OBVIOUS
    <2>1. Cardinality(Counted) \in Nat /\ Cardinality(Threads) \in Nat
          /\ Cardinality(Counted) <= Cardinality(Threads)
      BY ThreadsAssumption, CountedFinite, FS_Subset, FS_CardinalityType
    <2> QED
      BY <2>1 DEF LockInv, Types, WaitersCounted, TypeOK
  <1> QED
    BY <1>1, SpecLockInv, PTL

\* At most one thread is between lock_c() and unlock_c() (simple.h:61-70), and
\* the word is 1 while it is, with or without store buffers.
THEOREM SpecMutualExclusion == Spec => []MutualExclusion
  <1>1. LockInv => MutualExclusion
    BY DEF LockInv, OneHolder, Holds, MutualExclusion
  <1> QED
    BY <1>1, SpecLockInv, PTL

\* num_futex_waiters is the number of threads in FUTEX_WAIT or about to enter
\* or leave it (simple.h:14-18).
THEOREM SpecWaitersCounted == Spec => []WaitersCounted
  <1>1. LockInv => WaitersCounted
    BY DEF LockInv
  <1> QED
    BY <1>1, SpecLockInv, PTL

------------------------------------------------------------------------------
(* No lost wake-up.                                                        *)

\* A sleeping thread makes the counter positive, so notify() does not skip
\* the system call.
LEMMA SleeperSeen ==
  ASSUME LockInv, Sleepers # {}
  PROVE  num_futex_waiters # 0
  <1>1. Counted # {}
    BY DEF Sleepers, Counted
  <1> QED
    BY <1>1, CountedFinite, FS_EmptySet DEF LockInv, WaitersCounted

\* FUTEX_WAKE wakes somebody if anybody sleeps.
LEMMA WakeWakes ==
  ASSUME NEW t \in Threads, NEW woken \in SUBSET Sleepers, Sleepers # {},
         \/ Cardinality(woken) = WakeCount(t)
         \/ Cardinality(woken) < WakeCount(t) /\ woken = Sleepers
  PROVE  woken # {}
  <1> SUFFICES ASSUME woken = {} PROVE FALSE
    OBVIOUS
  <1>1. Cardinality(woken) = 0
    BY FS_EmptySet
  <1>2. Cardinality(Threads) \in Nat /\ Cardinality(Threads) # 0
    BY ThreadsAssumption, FS_EmptySet, FS_CardinalityType
  <1> QED
    BY <1>1, <1>2 DEF WakeCount

LEMMA NextNoLostWakeup ==
  ASSUME ~StoreBuffer, LockInv, ReleasedFirst, NoLostWakeup, [Next]_vars
  PROVE  NoLostWakeup'
  <1> SUFFICES ASSUME futex_var' = 0,
                      NEW s \in Threads, pc'[s] = "sleep", start_val'[s] = 1
               PROVE  \E t \in Threads : Responsible(t)'
    BY DEF NoLostWakeup, Sleepers
  <1> USE DEF LockInv, Types, Responsible, Labels
  <1>1. ASSUME NEW t \in Threads, drain(t)
        PROVE  \E u \in Threads : Responsible(u)'
    BY <1>1 DEF drain, ReleasedFirst
  <1>2. ASSUME NEW t \in Threads, atomic_try_lock(t)
        PROVE  \E u \in Threads : Responsible(u)'
    BY <1>2 DEF atomic_try_lock
  <1>3. ASSUME NEW t \in Threads, futex_wait_add(t)
        PROVE  \E u \in Threads : Responsible(u)'
    <2>1. PICK u \in Threads : Responsible(u)
      BY <1>3 DEF futex_wait_add, NoLostWakeup, Sleepers
    <2>2. Responsible(u)' \/ Responsible(t)'
      BY <1>3, <2>1 DEF futex_wait_add
    <2> QED
      BY <2>2
  <1>4. ASSUME NEW t \in Threads, futex_wait(t)
        PROVE  \E u \in Threads : Responsible(u)'
    <2>1. PICK u \in Threads : Responsible(u)
      BY <1>4 DEF futex_wait, NoLostWakeup, Sleepers
    <2>2. Responsible(u)' \/ Responsible(t)'
      BY <1>4, <2>1 DEF futex_wait
    <2> QED
      BY <2>2
  <1>5. ASSUME NEW t \in Threads, futex_interrupted(t)
        PROVE  \E u \in Threads : Responsible(u)'
    BY <1>5 DEF futex_interrupted
  <1>6. ASSUME NEW t \in Threads, futex_wait_sub(t)
        PROVE  \E u \in Threads : Responsible(u)'
    BY <1>6 DEF futex_wait_sub
  <1>7. ASSUME NEW t \in Threads, notify_check(t)
        PROVE  \E u \in Threads : Responsible(u)'
    <2>1. s \in Sleepers
      BY <1>7 DEF notify_check, Sleepers, AfterNotify
    <2>2. pc'[t] = "wake"
      BY <1>7, <2>1, SleeperSeen DEF notify_check
    <2> QED
      BY <2>2
  <1>8. ASSUME NEW t \in Threads, notify_wake(t)
        PROVE  \E u \in Threads : Responsible(u)'
    <2>1. PICK woken \in SUBSET Sleepers :
            /\ \/ Cardinality(woken) = WakeCount(t)
               \/ Cardinality(woken) < WakeCount(t) /\ woken = Sleepers
            /\ pc' = [u \in Threads |-> IF u \in woken THEN "sub"
                                       ELSE IF u = t THEN AfterNotify(t)
                                       ELSE pc[u]]
      BY <1>8 DEF notify_wake
    <2>2. s \in Sleepers
      BY <1>8, <2>1 DEF Sleepers, AfterNotify
    <2>3. PICK u \in woken : TRUE
      BY <2>1, <2>2, WakeWakes
    <2>4. u \in Threads /\ pc'[u] = "sub"
      BY <2>1, <2>3 DEF Sleepers
    <2> QED
      BY <2>4
  <1>9. ASSUME NEW t \in Threads, lock_c(t)
        PROVE  \E u \in Threads : Responsible(u)'
    BY <1>9 DEF lock_c
  <1>10. ASSUME NEW t \in Threads, unlock_c(t)
        PROVE  \E u \in Threads : Responsible(u)'
    BY <1>10 DEF unlock_c
  <1>11. ASSUME NEW t \in Threads, wait(t)
        PROVE  \E u \in Threads : Responsible(u)'
    BY <1>11 DEF wait
  <1>12. ASSUME NEW t \in Threads, notify(t)
        PROVE  \E u \in Threads : Responsible(u)'
    BY <1>12 DEF notify
  <1>13. ASSUME NEW t \in Threads, notifyAll(t)
        PROVE  \E u \in Threads : Responsible(u)'
    BY <1>13 DEF notifyAll
  <1>14. CASE UNCHANGED vars
    BY <1>14 DEF vars, NoLostWakeup, Sleepers
  <1> QED
    BY <1>1, <1>2, <1>3, <1>4, <1>5, <1>6, <1>7, <1>8, <1>9, <1>10, <1>11, <1>12,
       <1>13, <1>14 DEF Next, MethodStep, ClientCall

\* On a sequentially consistent machine unlock_c() and wait() never leave a
\* thread asleep on a free lock with nobody bound to wake it (the order of the
\* release and the read of num_futex_waiters in simple.h:67-70 against the
\* increment and FUTEX_WAIT in simple.h:14-18).
THEOREM SpecNoLostWakeup == ~StoreBuffer /\ Spec => []NoLostWakeup
  <1> SUFFICES ASSUME ~StoreBuffer PROVE Spec => []NoLostWakeup
    OBVIOUS
  <1>1. Init => NoLostWakeup
    BY DEF Init, NoLostWakeup, Sleepers
  <1>2. LockInv /\ ReleasedFirst /\ NoLostWakeup /\ [Next]_vars => NoLostWakeup'
    BY NextNoLostWakeup
  <1> QED
    BY <1>1, <1>2, SpecLockInv, PTL DEF Spec

------------------------------------------------------------------------------
(* The lock object implements the monitor.                                 *)

\* The owner of the refinement mapping is the thread inside its block, ...
LEMMA OwnerInside ==
  ASSUME LockInv, NEW t \in Threads, inside[t]
  PROVE  owner = t
  <1>1. \A s \in Threads : inside[s] => s = t
    BY DEF LockInv, OneHolder, Holds
  <1> QED
    BY <1>1 DEF owner

\* ... and nobody when the word is 0.
LEMMA OwnerFree ==
  ASSUME LockInv, \A t \in Threads : ~inside[t]
  PROVE  owner = NoOne
  BY DEF owner

LEMMA NextRefinesMonitor ==
  ASSUME LockInv, LockInv', [Next]_vars
  PROVE  [M!Next]_<<owner, wait_set>>
  <1> USE DEF LockInv, Types, Phases, Labels, Methods
  \* A step that moves nobody in or out of the block or of wait() stutters.
  <1>0. ASSUME UNCHANGED inside, wait_set' = wait_set
        PROVE  UNCHANGED <<owner, wait_set>>
    BY <1>0 DEF owner
  <1>1. ASSUME NEW t \in Threads, drain(t)
        PROVE  UNCHANGED <<owner, wait_set>>
    <2>1. UNCHANGED inside /\ wait_set' = wait_set
      BY <1>1 DEF drain, wait_set
    <2> QED
      BY <1>0, <2>1
  <1>2. ASSUME NEW t \in Threads, atomic_try_lock(t)
        PROVE  M!Lock(t) \/ M!Resume(t) \/ UNCHANGED <<owner, wait_set>>
    <2>1. CASE futex_var = 0
      <3>1. \A u \in Threads : ~inside[u]
        BY <2>1 DEF OneHolder, Holds
      <3>2. owner = NoOne
        BY <3>1, OwnerFree
      <3>3. inside' = [inside EXCEPT ![t] = TRUE]
            /\ call' = [call EXCEPT ![t] = "none"]
        BY <1>2, <2>1 DEF atomic_try_lock
      <3>4. \A u \in Threads : inside'[u] <=> u = t
        BY <3>1, <3>3
      <3>5. owner' = t
        BY <3>4 DEF owner
      <3>6. CASE call[t] = "wait"
        <4>1. t \in wait_set /\ wait_set' = wait_set \ {t}
          BY <3>3, <3>6 DEF wait_set
        <4> QED
          BY <3>2, <3>5, <4>1 DEF M!Resume
      <3>7. CASE call[t] # "wait"
        <4>1. t \notin wait_set /\ wait_set' = wait_set
          BY <3>3, <3>7 DEF wait_set
        <4> QED
          BY <3>2, <3>5, <4>1 DEF M!Lock
      <3> QED
        BY <3>6, <3>7
    <2>2. CASE futex_var = 1
      <3>1. UNCHANGED inside /\ wait_set' = wait_set
        BY <1>2, <2>2 DEF atomic_try_lock, wait_set
      <3> QED
        BY <1>0, <3>1
    <2> QED
      BY <2>1, <2>2
  <1>3. ASSUME NEW t \in Threads, futex_wait_add(t)
        PROVE  UNCHANGED <<owner, wait_set>>
    <2>1. UNCHANGED inside /\ wait_set' = wait_set
      BY <1>3 DEF futex_wait_add, wait_set
    <2> QED
      BY <1>0, <2>1
  <1>4. ASSUME NEW t \in Threads, futex_wait(t)
        PROVE  UNCHANGED <<owner, wait_set>>
    <2>1. UNCHANGED inside /\ wait_set' = wait_set
      BY <1>4 DEF futex_wait, wait_set
    <2> QED
      BY <1>0, <2>1
  <1>5. ASSUME NEW t \in Threads, futex_interrupted(t)
        PROVE  UNCHANGED <<owner, wait_set>>
    <2>1. UNCHANGED inside /\ wait_set' = wait_set
      BY <1>5 DEF futex_interrupted, wait_set
    <2> QED
      BY <1>0, <2>1
  <1>6. ASSUME NEW t \in Threads, futex_wait_sub(t)
        PROVE  UNCHANGED <<owner, wait_set>>
    <2>1. UNCHANGED inside /\ wait_set' = wait_set
      BY <1>6 DEF futex_wait_sub, wait_set
    <2> QED
      BY <1>0, <2>1
  <1>7. ASSUME NEW t \in Threads, notify_check(t)
        PROVE  UNCHANGED <<owner, wait_set>>
    <2>1. UNCHANGED inside /\ wait_set' = wait_set
      BY <1>7 DEF notify_check, AfterNotify, CallAfterNotify, wait_set
    <2> QED
      BY <1>0, <2>1
  <1>8. ASSUME NEW t \in Threads, notify_wake(t)
        PROVE  UNCHANGED <<owner, wait_set>>
    <2>1. UNCHANGED inside /\ wait_set' = wait_set
      BY <1>8 DEF notify_wake, AfterNotify, CallAfterNotify, Sleepers, wait_set
    <2> QED
      BY <1>0, <2>1
  <1>9. ASSUME NEW t \in Threads, lock_c(t)
        PROVE  UNCHANGED <<owner, wait_set>>
    <2>1. UNCHANGED inside /\ wait_set' = wait_set
      BY <1>9 DEF lock_c, wait_set
    <2> QED
      BY <1>0, <2>1
  <1>10. ASSUME NEW t \in Threads, unlock_c(t)
        PROVE  M!Unlock(t)
    <2>1. owner = t
      BY <1>10, OwnerInside DEF unlock_c
    <2>2. \A u \in Threads : ~inside'[u]
      BY <1>10 DEF unlock_c, OneHolder, Holds
    <2>3. owner' = NoOne
      BY <2>2 DEF owner
    <2>4. wait_set' = wait_set
      BY <1>10 DEF unlock_c, wait_set
    <2> QED
      BY <2>1, <2>3, <2>4 DEF M!Unlock
  <1>11. ASSUME NEW t \in Threads, wait(t)
        PROVE  M!Wait(t)
    <2>1. owner = t
      BY <1>11, OwnerInside DEF wait
    <2>2. \A u \in Threads : ~inside'[u]
      BY <1>11 DEF wait, OneHolder, Holds
    <2>3. owner' = NoOne
      BY <2>2 DEF owner
    <2>4. wait_set' = wait_set \cup {t}
      BY <1>11 DEF wait, wait_set
    <2> QED
      BY <2>1, <2>3, <2>4 DEF M!Wait
  <1>12. ASSUME NEW t \in Threads, notify(t)
        PROVE  UNCHANGED <<owner, wait_set>>
    <2>1. UNCHANGED inside /\ wait_set' = wait_set
      BY <1>12 DEF notify, wait_set
    <2> QED
      BY <1>0, <2>1
  <1>13. ASSUME NEW t \in Threads, notifyAll(t)
        PROVE  UNCHANGED <<owner, wait_set>>
    <2>1. UNCHANGED inside /\ wait_set' = wait_set
      BY <1>13 DEF notifyAll, wait_set
    <2> QED
      BY <1>0, <2>1
  <1>14. CASE UNCHANGED vars
    BY <1>14 DEF vars, owner, wait_set
  <1> QED
    BY <1>1, <1>2, <1>3, <1>4, <1>5, <1>6, <1>7, <1>8, <1>9, <1>10, <1>11, <1>12,
       <1>13, <1>14 DEF Next, MethodStep, ClientCall, M!Next

\* lock_c(), unlock_c() and wait() (simple.h:39-70) behave as the operations of
\* a monitor, on both memory models.
THEOREM SpecRefinesMonitor == Spec => MonitorSpec
  <1>1. Init => M!Init
    BY DEF Init, M!Init, owner, wait_set
  <1>2. LockInv /\ LockInv' /\ [Next]_vars => [M!Next]_<<owner, wait_set>>
    BY NextRefinesMonitor
  <1> QED
    BY <1>1, <1>2, SpecLockInv, PTL DEF Spec, MonitorSpec, M!Spec

==============================================================================
