-------------------------- MODULE LockVariantsProofs --------------------------
(***************************************************************************)
(* Proofs about the two classes that utils/lock.h can name in place of the *)
(* plain futex lock, for any finite set of threads and any limits of the   *)
(* spinning: both implement the monitor, and the spinning one loses no     *)
(* wake-up although its unlock_c() may skip the system call.               *)
(***************************************************************************)
EXTENDS MC_LockVariants, FiniteSetTheorems, TLAPS

------------------------------------------------------------------------------
(* LockObjectPthread.                                                      *)

\* A thread is in at most one of the library's calls, and owns nothing in it.
OneCall ==
  /\ owner \in Threads \cup {NoOne}
  /\ owner \notin entering \cup waiting \cup woken
  /\ entering \cap (waiting \cup woken) = {} /\ waiting \cap woken = {}
  /\ entering \cup waiting \cup woken \subseteq Threads

LEMMA PthreadOneCall == P!Spec => []OneCall
  <1>1. P!Init => OneCall
    BY DEF P!Init, OneCall
  <1>2. OneCall /\ [P!Next]_P!vars => OneCall'
    <2> SUFFICES ASSUME OneCall, [P!Next]_P!vars PROVE OneCall'
      OBVIOUS
    <2> USE BruteThreadsAssumption DEF OneCall
    <2>1. ASSUME NEW t \in Threads, P!lock_c(t) PROVE OneCall'
      BY <2>1 DEF P!lock_c, P!Busy
    <2>2. ASSUME NEW t \in Threads, P!acquire(t) PROVE OneCall'
      BY <2>2 DEF P!acquire
    <2>3. ASSUME NEW t \in Threads, P!unlock_c(t) PROVE OneCall'
      BY <2>3 DEF P!unlock_c
    <2>4. ASSUME NEW t \in Threads, P!wait(t) PROVE OneCall'
      BY <2>4 DEF P!wait
    <2>5. ASSUME NEW t \in Threads, P!wake_spuriously(t) PROVE OneCall'
      BY <2>5 DEF P!wake_spuriously
    <2>6. ASSUME NEW t \in Threads, P!reacquire(t) PROVE OneCall'
      BY <2>6 DEF P!reacquire
    <2>7. ASSUME P!signal PROVE OneCall'
      BY <2>7 DEF P!signal
    <2>8. CASE UNCHANGED P!vars
      BY <2>8 DEF P!vars
    <2> QED
      BY <2>1, <2>2, <2>3, <2>4, <2>5, <2>6, <2>7, <2>8 DEF P!Next, P!notify, P!notifyAll
  <1> QED
    BY <1>1, <1>2, PTL DEF P!Spec

\* The pthread lock (pthread.h:14-42) implements the monitor: every step is one of
\* the monitor's or changes neither its owner nor its wait set.
THEOREM PthreadRefinesMonitor == P!Spec => PthreadMonitorSpec
  <1>1. P!Init => P!M!Init
    BY DEF P!Init, P!M!Init, P!wait_set
  <1>2. OneCall /\ [P!Next]_P!vars => [P!M!Next]_<<owner, P!wait_set>>
    <2> SUFFICES ASSUME OneCall, [P!Next]_P!vars
                 PROVE  P!M!Next \/ UNCHANGED <<owner, P!wait_set>>
      OBVIOUS
    <2> USE DEF P!wait_set, OneCall
    <2>1. ASSUME NEW t \in Threads, P!lock_c(t) PROVE UNCHANGED <<owner, P!wait_set>>
      BY <2>1 DEF P!lock_c
    <2>2. ASSUME NEW t \in Threads, P!acquire(t) PROVE P!M!Lock(t)
      BY <2>2 DEF P!acquire, P!M!Lock
    <2>3. ASSUME NEW t \in Threads, P!unlock_c(t) PROVE P!M!Unlock(t)
      BY <2>3 DEF P!unlock_c, P!M!Unlock
    <2>4. ASSUME NEW t \in Threads, P!wait(t) PROVE P!M!Wait(t)
      BY <2>4 DEF P!wait, P!M!Wait
    <2>5. ASSUME NEW t \in Threads, P!wake_spuriously(t)
          PROVE  UNCHANGED <<owner, P!wait_set>>
      BY <2>5 DEF P!wake_spuriously
    <2>6. ASSUME NEW t \in Threads, P!reacquire(t) PROVE P!M!Resume(t)
      BY <2>6 DEF P!reacquire, P!M!Resume
    <2>7. ASSUME P!signal PROVE UNCHANGED <<owner, P!wait_set>>
      BY <2>7 DEF P!signal
    <2>8. CASE UNCHANGED P!vars
      BY <2>8 DEF P!vars
    <2> QED
      BY <2>1, <2>2, <2>3, <2>4, <2>5, <2>6, <2>7, <2>8
         DEF P!Next, P!notify, P!notifyAll, P!M!Next
  <1> QED
    BY <1>1, <1>2, PthreadOneCall, PTL DEF P!Spec, PthreadMonitorSpec, P!MonitorSpec, P!M!Spec

------------------------------------------------------------------------------
(* LockObjectBrute: the inductive invariant.                               *)

BruteLabels == L!Labels \cup {"first", "bcheck", "binc", "spin", "bdec", "bnotify"}

Types ==
  /\ futex_var \in {0, 1}
  /\ num_futex_waiters \in Int /\ num_brute_waiters \in Int
  /\ pending \in [Threads -> BOOLEAN]
  /\ pc \in [Threads -> BruteLabels]
  /\ call \in [Threads -> L!Methods]
  /\ start_val \in [Threads -> {0, 1}]
  /\ inside \in [Threads -> BOOLEAN]
  /\ limit \in [Threads -> Int]

\* t holds the lock as far as the memory can tell.
Holds(t) == inside[t] \/ pending[t]

OneHolder ==
  /\ \A s, t \in Threads : Holds(s) /\ Holds(t) => s = t
  /\ \A t \in Threads : Holds(t) => futex_var = 1
  /\ \A t \in Threads : inside[t] => ~pending[t]

\* Which methods are in progress at which label; a spinner that has the lock has
\* still to leave __brute_lock_wait(), and spinners wait for the word to change
\* from 1.
Phases ==
  \A t \in Threads :
    /\ pc[t] = "ready" => call[t] = "none"
    /\ pc[t] \in {"try", "add", "futex", "sleep", "sub", "first", "bcheck", "binc", "spin", "bdec"}
         => call[t] \in {"lock_c", "wait"}
    /\ pc[t] \in {"check", "wake"} => call[t] \in {"unlock_c", "wait", "notify", "notifyAll"}
    /\ pc[t] = "bnotify" => call[t] \in {"unlock_c", "wait"}
    /\ inside[t] => call[t] \in {"none", "notify", "notifyAll"} \/ pc[t] = "bdec"
    /\ pc[t] \in {"bcheck", "binc", "spin", "bdec"} => start_val[t] = 1

\* The threads num_brute_waiters counts.
Spinning == {t \in Threads : pc[t] \in {"spin", "bdec"}}

\* Both counters are exact.
Counts ==
  /\ num_futex_waiters = Cardinality(L!Counted)
  /\ num_brute_waiters = Cardinality(Spinning)

BruteInv == Types /\ OneHolder /\ Phases /\ Counts

\* Without store buffers a release store is in memory before unlock_c() looks for
\* spinners.
ReleasedFirst ==
  ~StoreBuffer => \A t \in Threads : pending[t] => pc[t] = "bnotify"

------------------------------------------------------------------------------
(* The two counters.                                                       *)

LEMMA CountedFinite ==
  ASSUME NEW S \in SUBSET Threads
  PROVE  IsFiniteSet(S) /\ Cardinality(S) \in Nat
  BY BruteThreadsAssumption, FS_Subset, FS_CardinalityType

\* A step that changes neither counter nor the threads they count.
LEMMA CountsKept ==
  ASSUME Counts, UNCHANGED <<num_futex_waiters, num_brute_waiters>>,
         L!Counted' = L!Counted, Spinning' = Spinning
  PROVE  Counts'
  BY DEF Counts

\* One more, and one less, of a set of threads.
LEMMA OneMore ==
  ASSUME NEW S \in SUBSET Threads, NEW t \in Threads, t \notin S
  PROVE  Cardinality(S \cup {t}) = Cardinality(S) + 1
  BY CountedFinite, FS_AddElement

LEMMA OneLess ==
  ASSUME NEW S \in SUBSET Threads, NEW t \in S
  PROVE  Cardinality(S \ {t}) = Cardinality(S) - 1
  BY CountedFinite, FS_RemoveElement

LEMMA CountedThreads == L!Counted \in SUBSET Threads /\ Spinning \in SUBSET Threads
  BY DEF L!Counted, Spinning

------------------------------------------------------------------------------
(* BruteInv and ReleasedFirst are inductive.                               *)

LEMMA InitBruteInv == Init => BruteInv /\ ReleasedFirst
  <1> SUFFICES ASSUME Init PROVE BruteInv /\ ReleasedFirst
    OBVIOUS
  <1> USE DEF Init, L!Init
  <1>1. Types
    BY DEF Types, BruteLabels, L!Labels, L!Methods
  <1>2. OneHolder /\ Phases /\ ReleasedFirst
    BY DEF OneHolder, Holds, Phases, ReleasedFirst
  <1>3. L!Counted = {} /\ Spinning = {}
    BY DEF L!Counted, Spinning
  <1>4. Counts
    BY <1>3, FS_EmptySet DEF Counts
  <1> QED
    BY <1>1, <1>2, <1>4 DEF BruteInv

LEMMA NextTypes ==
  ASSUME Types, Next
  PROVE  Types'
  <1> USE DEF Types, BruteLabels, L!Labels, L!Methods
  <1>1. ASSUME NEW t \in Threads, drain(t) PROVE Types'
    BY <1>1 DEF drain, L!drain, brute_vars
  <1>2. ASSUME NEW t \in Threads, retry_lock(t) PROVE Types'
    BY <1>2 DEF retry_lock, L!atomic_try_lock, brute_vars
  <1>3. ASSUME NEW t \in Threads, futex_wait_add(t) PROVE Types'
    BY <1>3 DEF futex_wait_add, L!futex_wait_add, brute_vars
  <1>4. ASSUME NEW t \in Threads, futex_wait(t) PROVE Types'
    BY <1>4 DEF futex_wait, L!futex_wait, brute_vars
  <1>5. ASSUME NEW t \in Threads, futex_interrupted(t) PROVE Types'
    BY <1>5 DEF futex_interrupted, L!futex_interrupted, brute_vars
  <1>6. ASSUME NEW t \in Threads, futex_wait_sub(t) PROVE Types'
    BY <1>6 DEF futex_wait_sub, brute_vars
  <1>7. ASSUME NEW t \in Threads, notify_check(t) PROVE Types'
    BY <1>7 DEF notify_check, L!notify_check, L!CanLoad, L!AfterNotify, L!CallAfterNotify, brute_vars
  <1>8. ASSUME NEW t \in Threads, notify_wake(t) PROVE Types'
    BY <1>8 DEF notify_wake, L!notify_wake, L!AfterNotify, L!CallAfterNotify, L!Sleepers, brute_vars
  <1>9. ASSUME NEW t \in Threads, lock_c(t) PROVE Types'
    BY <1>9 DEF lock_c, brute_vars
  <1>10. ASSUME NEW t \in Threads, first_try(t) PROVE Types'
    BY <1>10 DEF first_try, TestAndSet, brute_vars
  <1>11. ASSUME NEW t \in Threads, brute_check(t) PROVE Types'
    BY <1>11 DEF brute_check, brute_vars
  <1>12. ASSUME NEW t \in Threads, brute_inc(t) PROVE Types'
    BY <1>12, BruteAssumption DEF brute_inc, brute_vars
  <1>13. ASSUME NEW t \in Threads, brute_spin(t) PROVE Types'
    BY <1>13 DEF brute_spin, TestAndSet, brute_vars
  <1>14. ASSUME NEW t \in Threads, brute_dec(t) PROVE Types'
    BY <1>14 DEF brute_dec, brute_vars
  <1>15. ASSUME NEW t \in Threads, unlock_c(t) PROVE Types'
    BY <1>15 DEF unlock_c, release_then, L!atomic_release, brute_vars
  <1>16. ASSUME NEW t \in Threads, wait(t) PROVE Types'
    BY <1>16 DEF wait, release_then, L!atomic_release, brute_vars
  <1>17. ASSUME NEW t \in Threads, brute_notify(t) PROVE Types'
    BY <1>17 DEF brute_notify, L!CanLoad, L!AfterNotify, L!CallAfterNotify, brute_vars
  <1>18. ASSUME NEW t \in Threads, notify(t) PROVE Types'
    BY <1>18 DEF notify, L!notify, brute_vars
  <1>19. ASSUME NEW t \in Threads, notifyAll(t) PROVE Types'
    BY <1>19 DEF notifyAll, L!notifyAll, brute_vars
  <1> QED
    BY <1>1, <1>2, <1>3, <1>4, <1>5, <1>6, <1>7, <1>8, <1>9, <1>10, <1>11,
       <1>12, <1>13, <1>14, <1>15, <1>16, <1>17, <1>18, <1>19
       DEF Next, MethodStep, ClientCall

LEMMA NextOneHolder ==
  ASSUME Types, Phases, OneHolder, Next
  PROVE  OneHolder'
  <1> USE DEF Types, Phases, OneHolder, Holds
  <1>1. ASSUME NEW t \in Threads, drain(t) PROVE OneHolder'
    BY <1>1 DEF drain, L!drain, brute_vars
  <1>2. ASSUME NEW t \in Threads, retry_lock(t) PROVE OneHolder'
    BY <1>2 DEF retry_lock, L!atomic_try_lock, brute_vars
  <1>3. ASSUME NEW t \in Threads, futex_wait_add(t) PROVE OneHolder'
    BY <1>3 DEF futex_wait_add, L!futex_wait_add, brute_vars
  <1>4. ASSUME NEW t \in Threads, futex_wait(t) PROVE OneHolder'
    BY <1>4 DEF futex_wait, L!futex_wait, brute_vars
  <1>5. ASSUME NEW t \in Threads, futex_interrupted(t) PROVE OneHolder'
    BY <1>5 DEF futex_interrupted, L!futex_interrupted, brute_vars
  <1>6. ASSUME NEW t \in Threads, futex_wait_sub(t) PROVE OneHolder'
    BY <1>6 DEF futex_wait_sub, brute_vars
  <1>7. ASSUME NEW t \in Threads, notify_check(t) PROVE OneHolder'
    BY <1>7 DEF notify_check, L!notify_check, L!CanLoad, L!AfterNotify, L!CallAfterNotify, brute_vars
  <1>8. ASSUME NEW t \in Threads, notify_wake(t) PROVE OneHolder'
    BY <1>8 DEF notify_wake, L!notify_wake, L!AfterNotify, L!CallAfterNotify, L!Sleepers, brute_vars
  <1>9. ASSUME NEW t \in Threads, lock_c(t) PROVE OneHolder'
    BY <1>9 DEF lock_c, brute_vars
  <1>10. ASSUME NEW t \in Threads, first_try(t) PROVE OneHolder'
    BY <1>10 DEF first_try, TestAndSet, brute_vars
  <1>11. ASSUME NEW t \in Threads, brute_check(t) PROVE OneHolder'
    BY <1>11 DEF brute_check, brute_vars
  <1>12. ASSUME NEW t \in Threads, brute_inc(t) PROVE OneHolder'
    BY <1>12 DEF brute_inc, brute_vars
  <1>13. ASSUME NEW t \in Threads, brute_spin(t) PROVE OneHolder'
    BY <1>13 DEF brute_spin, TestAndSet, brute_vars
  <1>14. ASSUME NEW t \in Threads, brute_dec(t) PROVE OneHolder'
    BY <1>14 DEF brute_dec, brute_vars
  <1>15. ASSUME NEW t \in Threads, unlock_c(t) PROVE OneHolder'
    BY <1>15 DEF unlock_c, release_then, L!atomic_release, brute_vars
  <1>16. ASSUME NEW t \in Threads, wait(t) PROVE OneHolder'
    BY <1>16 DEF wait, release_then, L!atomic_release, brute_vars
  <1>17. ASSUME NEW t \in Threads, brute_notify(t) PROVE OneHolder'
    BY <1>17 DEF brute_notify, L!CanLoad, L!AfterNotify, L!CallAfterNotify, brute_vars
  <1>18. ASSUME NEW t \in Threads, notify(t) PROVE OneHolder'
    BY <1>18 DEF notify, L!notify, brute_vars
  <1>19. ASSUME NEW t \in Threads, notifyAll(t) PROVE OneHolder'
    BY <1>19 DEF notifyAll, L!notifyAll, brute_vars
  <1> QED
    BY <1>1, <1>2, <1>3, <1>4, <1>5, <1>6, <1>7, <1>8, <1>9, <1>10, <1>11,
       <1>12, <1>13, <1>14, <1>15, <1>16, <1>17, <1>18, <1>19
       DEF Next, MethodStep, ClientCall

LEMMA NextPhases ==
  ASSUME Types, OneHolder, Phases, Next
  PROVE  Phases'
  <1> USE DEF Types, OneHolder, Holds, Phases, L!Methods
  <1>1. ASSUME NEW t \in Threads, drain(t) PROVE Phases'
    BY <1>1 DEF drain, L!drain, brute_vars
  <1>2. ASSUME NEW t \in Threads, retry_lock(t) PROVE Phases'
    BY <1>2 DEF retry_lock, L!atomic_try_lock, brute_vars
  <1>3. ASSUME NEW t \in Threads, futex_wait_add(t) PROVE Phases'
    BY <1>3 DEF futex_wait_add, L!futex_wait_add, brute_vars
  <1>4. ASSUME NEW t \in Threads, futex_wait(t) PROVE Phases'
    BY <1>4 DEF futex_wait, L!futex_wait, brute_vars
  <1>5. ASSUME NEW t \in Threads, futex_interrupted(t) PROVE Phases'
    BY <1>5 DEF futex_interrupted, L!futex_interrupted, brute_vars
  <1>6. ASSUME NEW t \in Threads, futex_wait_sub(t) PROVE Phases'
    BY <1>6 DEF futex_wait_sub, brute_vars
  <1>7. ASSUME NEW t \in Threads, notify_check(t) PROVE Phases'
    BY <1>7 DEF notify_check, L!notify_check, L!CanLoad, L!AfterNotify, L!CallAfterNotify, brute_vars
  <1>8. ASSUME NEW t \in Threads, notify_wake(t) PROVE Phases'
    BY <1>8 DEF notify_wake, L!notify_wake, L!AfterNotify, L!CallAfterNotify, L!Sleepers, brute_vars
  <1>9. ASSUME NEW t \in Threads, lock_c(t) PROVE Phases'
    BY <1>9 DEF lock_c, brute_vars
  <1>10. ASSUME NEW t \in Threads, first_try(t) PROVE Phases'
    BY <1>10 DEF first_try, TestAndSet, brute_vars
  <1>11. ASSUME NEW t \in Threads, brute_check(t) PROVE Phases'
    BY <1>11 DEF brute_check, brute_vars
  <1>12. ASSUME NEW t \in Threads, brute_inc(t) PROVE Phases'
    BY <1>12 DEF brute_inc, brute_vars
  <1>13. ASSUME NEW t \in Threads, brute_spin(t) PROVE Phases'
    BY <1>13 DEF brute_spin, TestAndSet, brute_vars
  <1>14. ASSUME NEW t \in Threads, brute_dec(t) PROVE Phases'
    BY <1>14 DEF brute_dec, brute_vars
  <1>15. ASSUME NEW t \in Threads, unlock_c(t) PROVE Phases'
    BY <1>15 DEF unlock_c, release_then, L!atomic_release, brute_vars
  <1>16. ASSUME NEW t \in Threads, wait(t) PROVE Phases'
    BY <1>16 DEF wait, release_then, L!atomic_release, brute_vars
  <1>17. ASSUME NEW t \in Threads, brute_notify(t) PROVE Phases'
    BY <1>17 DEF brute_notify, L!CanLoad, L!AfterNotify, L!CallAfterNotify, brute_vars
  <1>18. ASSUME NEW t \in Threads, notify(t) PROVE Phases'
    BY <1>18 DEF notify, L!notify, brute_vars
  <1>19. ASSUME NEW t \in Threads, notifyAll(t) PROVE Phases'
    BY <1>19 DEF notifyAll, L!notifyAll, brute_vars
  <1> QED
    BY <1>1, <1>2, <1>3, <1>4, <1>5, <1>6, <1>7, <1>8, <1>9, <1>10, <1>11,
       <1>12, <1>13, <1>14, <1>15, <1>16, <1>17, <1>18, <1>19
       DEF Next, MethodStep, ClientCall

LEMMA NextReleasedFirst ==
  ASSUME Types, OneHolder, Phases, ReleasedFirst, Next
  PROVE  ReleasedFirst'
  <1> USE DEF Types, OneHolder, Holds, Phases, ReleasedFirst
  <1>1. ASSUME NEW t \in Threads, drain(t) PROVE ReleasedFirst'
    BY <1>1 DEF drain, L!drain, brute_vars
  <1>2. ASSUME NEW t \in Threads, retry_lock(t) PROVE ReleasedFirst'
    BY <1>2 DEF retry_lock, L!atomic_try_lock, brute_vars
  <1>3. ASSUME NEW t \in Threads, futex_wait_add(t) PROVE ReleasedFirst'
    BY <1>3 DEF futex_wait_add, L!futex_wait_add, brute_vars
  <1>4. ASSUME NEW t \in Threads, futex_wait(t) PROVE ReleasedFirst'
    BY <1>4 DEF futex_wait, L!futex_wait, brute_vars
  <1>5. ASSUME NEW t \in Threads, futex_interrupted(t) PROVE ReleasedFirst'
    BY <1>5 DEF futex_interrupted, L!futex_interrupted, brute_vars
  <1>6. ASSUME NEW t \in Threads, futex_wait_sub(t) PROVE ReleasedFirst'
    BY <1>6 DEF futex_wait_sub, brute_vars
  <1>7. ASSUME NEW t \in Threads, notify_check(t) PROVE ReleasedFirst'
    BY <1>7 DEF notify_check, L!notify_check, L!CanLoad, L!AfterNotify, L!CallAfterNotify, brute_vars
  <1>8. ASSUME NEW t \in Threads, notify_wake(t) PROVE ReleasedFirst'
    BY <1>8 DEF notify_wake, L!notify_wake, L!AfterNotify, L!CallAfterNotify, L!Sleepers, brute_vars
  <1>9. ASSUME NEW t \in Threads, lock_c(t) PROVE ReleasedFirst'
    BY <1>9 DEF lock_c, brute_vars
  <1>10. ASSUME NEW t \in Threads, first_try(t) PROVE ReleasedFirst'
    BY <1>10 DEF first_try, TestAndSet, brute_vars
  <1>11. ASSUME NEW t \in Threads, brute_check(t) PROVE ReleasedFirst'
    BY <1>11 DEF brute_check, brute_vars
  <1>12. ASSUME NEW t \in Threads, brute_inc(t) PROVE ReleasedFirst'
    BY <1>12 DEF brute_inc, brute_vars
  <1>13. ASSUME NEW t \in Threads, brute_spin(t) PROVE ReleasedFirst'
    BY <1>13 DEF brute_spin, TestAndSet, brute_vars
  <1>14. ASSUME NEW t \in Threads, brute_dec(t) PROVE ReleasedFirst'
    BY <1>14 DEF brute_dec, brute_vars
  <1>15. ASSUME NEW t \in Threads, unlock_c(t) PROVE ReleasedFirst'
    BY <1>15 DEF unlock_c, release_then, L!atomic_release, brute_vars
  <1>16. ASSUME NEW t \in Threads, wait(t) PROVE ReleasedFirst'
    BY <1>16 DEF wait, release_then, L!atomic_release, brute_vars
  <1>17. ASSUME NEW t \in Threads, brute_notify(t) PROVE ReleasedFirst'
    BY <1>17 DEF brute_notify, L!CanLoad, L!AfterNotify, L!CallAfterNotify, brute_vars
  <1>18. ASSUME NEW t \in Threads, notify(t) PROVE ReleasedFirst'
    BY <1>18 DEF notify, L!notify, brute_vars
  <1>19. ASSUME NEW t \in Threads, notifyAll(t) PROVE ReleasedFirst'
    BY <1>19 DEF notifyAll, L!notifyAll, brute_vars
  <1> QED
    BY <1>1, <1>2, <1>3, <1>4, <1>5, <1>6, <1>7, <1>8, <1>9, <1>10, <1>11,
       <1>12, <1>13, <1>14, <1>15, <1>16, <1>17, <1>18, <1>19
       DEF Next, MethodStep, ClientCall

LEMMA NextCounts ==
  ASSUME Types, Counts, Next
  PROVE  Counts'
  <1> USE DEF Types, L!Counted, Spinning
  <1>1. ASSUME NEW t \in Threads, drain(t) PROVE Counts'
    <2>1. L!Counted' = L!Counted /\ Spinning' = Spinning
      BY <1>1 DEF drain, L!drain
    <2> QED
      BY <1>1, <2>1, CountsKept DEF drain, L!drain, brute_vars
  <1>2. ASSUME NEW t \in Threads, retry_lock(t) PROVE Counts'
    <2>1. L!Counted' = L!Counted /\ Spinning' = Spinning
      BY <1>2 DEF retry_lock, L!atomic_try_lock
    <2> QED
      BY <1>2, <2>1, CountsKept DEF retry_lock, L!atomic_try_lock, brute_vars
  <1>3. ASSUME NEW t \in Threads, futex_wait_add(t) PROVE Counts'
    <2>1. t \notin L!Counted /\ L!Counted' = L!Counted \cup {t} /\ Spinning' = Spinning
      BY <1>3 DEF futex_wait_add, L!futex_wait_add, brute_vars
    <2>2. Cardinality(L!Counted \cup {t}) = Cardinality(L!Counted) + 1
      BY <2>1, OneMore, CountedThreads
    <2> QED
      BY <1>3, <2>1, <2>2 DEF futex_wait_add, L!futex_wait_add, brute_vars, Counts
  <1>4. ASSUME NEW t \in Threads, futex_wait(t) PROVE Counts'
    <2>1. L!Counted' = L!Counted /\ Spinning' = Spinning
      BY <1>4 DEF futex_wait, L!futex_wait
    <2> QED
      BY <1>4, <2>1, CountsKept DEF futex_wait, L!futex_wait, brute_vars
  <1>5. ASSUME NEW t \in Threads, futex_interrupted(t) PROVE Counts'
    <2>1. L!Counted' = L!Counted /\ Spinning' = Spinning
      BY <1>5 DEF futex_interrupted, L!futex_interrupted
    <2> QED
      BY <1>5, <2>1, CountsKept DEF futex_interrupted, L!futex_interrupted, brute_vars
  <1>6. ASSUME NEW t \in Threads, futex_wait_sub(t) PROVE Counts'
    <2>1. t \in L!Counted /\ L!Counted' = L!Counted \ {t} /\ Spinning' = Spinning
      BY <1>6 DEF futex_wait_sub, brute_vars
    <2>2. Cardinality(L!Counted \ {t}) = Cardinality(L!Counted) - 1
      BY <2>1, OneLess, CountedThreads
    <2> QED
      BY <1>6, <2>1, <2>2 DEF futex_wait_sub, brute_vars, Counts
  <1>7. ASSUME NEW t \in Threads, notify_check(t) PROVE Counts'
    <2>1. L!Counted' = L!Counted /\ Spinning' = Spinning
      BY <1>7 DEF notify_check, L!notify_check, L!CanLoad, L!AfterNotify, L!CallAfterNotify
    <2> QED
      BY <1>7, <2>1, CountsKept DEF notify_check, L!notify_check, L!CanLoad, L!AfterNotify, L!CallAfterNotify, brute_vars
  <1>8. ASSUME NEW t \in Threads, notify_wake(t) PROVE Counts'
    <2>1. L!Counted' = L!Counted /\ Spinning' = Spinning
      BY <1>8 DEF notify_wake, L!notify_wake, L!AfterNotify, L!CallAfterNotify, L!Sleepers
    <2> QED
      BY <1>8, <2>1, CountsKept DEF notify_wake, L!notify_wake, L!AfterNotify, L!CallAfterNotify, L!Sleepers, brute_vars
  <1>9. ASSUME NEW t \in Threads, lock_c(t) PROVE Counts'
    <2>1. L!Counted' = L!Counted /\ Spinning' = Spinning
      BY <1>9 DEF lock_c
    <2> QED
      BY <1>9, <2>1, CountsKept DEF lock_c, brute_vars
  <1>10. ASSUME NEW t \in Threads, first_try(t) PROVE Counts'
    <2>1. L!Counted' = L!Counted /\ Spinning' = Spinning
      BY <1>10 DEF first_try, TestAndSet
    <2> QED
      BY <1>10, <2>1, CountsKept DEF first_try, TestAndSet, brute_vars
  <1>11. ASSUME NEW t \in Threads, brute_check(t) PROVE Counts'
    <2>1. L!Counted' = L!Counted /\ Spinning' = Spinning
      BY <1>11 DEF brute_check
    <2> QED
      BY <1>11, <2>1, CountsKept DEF brute_check, brute_vars
  <1>12. ASSUME NEW t \in Threads, brute_inc(t) PROVE Counts'
    <2>1. t \notin Spinning /\ Spinning' = Spinning \cup {t} /\ L!Counted' = L!Counted
      BY <1>12 DEF brute_inc
    <2>2. Cardinality(Spinning \cup {t}) = Cardinality(Spinning) + 1
      BY <2>1, OneMore, CountedThreads
    <2> QED
      BY <1>12, <2>1, <2>2 DEF brute_inc, Counts
  <1>13. ASSUME NEW t \in Threads, brute_spin(t) PROVE Counts'
    <2>1. L!Counted' = L!Counted /\ Spinning' = Spinning
      BY <1>13 DEF brute_spin, TestAndSet
    <2> QED
      BY <1>13, <2>1, CountsKept DEF brute_spin, TestAndSet, brute_vars
  <1>14. ASSUME NEW t \in Threads, brute_dec(t) PROVE Counts'
    <2>1. t \in Spinning /\ Spinning' = Spinning \ {t} /\ L!Counted' = L!Counted
      BY <1>14 DEF brute_dec
    <2>2. Cardinality(Spinning \ {t}) = Cardinality(Spinning) - 1
      BY <2>1, OneLess, CountedThreads
    <2> QED
      BY <1>14, <2>1, <2>2 DEF brute_dec, Counts
  <1>15. ASSUME NEW t \in Threads, unlock_c(t) PROVE Counts'
    <2>1. L!Counted' = L!Counted /\ Spinning' = Spinning
      BY <1>15 DEF unlock_c, release_then, L!atomic_release
    <2> QED
      BY <1>15, <2>1, CountsKept DEF unlock_c, release_then, L!atomic_release, brute_vars
  <1>16. ASSUME NEW t \in Threads, wait(t) PROVE Counts'
    <2>1. L!Counted' = L!Counted /\ Spinning' = Spinning
      BY <1>16 DEF wait, release_then, L!atomic_release
    <2> QED
      BY <1>16, <2>1, CountsKept DEF wait, release_then, L!atomic_release, brute_vars
  <1>17. ASSUME NEW t \in Threads, brute_notify(t) PROVE Counts'
    <2>1. L!Counted' = L!Counted /\ Spinning' = Spinning
      BY <1>17 DEF brute_notify, L!CanLoad, L!AfterNotify, L!CallAfterNotify
    <2> QED
      BY <1>17, <2>1, CountsKept DEF brute_notify, L!CanLoad, L!AfterNotify, L!CallAfterNotify, brute_vars
  <1>18. ASSUME NEW t \in Threads, notify(t) PROVE Counts'
    <2>1. L!Counted' = L!Counted /\ Spinning' = Spinning
      BY <1>18 DEF notify, L!notify
    <2> QED
      BY <1>18, <2>1, CountsKept DEF notify, L!notify, brute_vars
  <1>19. ASSUME NEW t \in Threads, notifyAll(t) PROVE Counts'
    <2>1. L!Counted' = L!Counted /\ Spinning' = Spinning
      BY <1>19 DEF notifyAll, L!notifyAll
    <2> QED
      BY <1>19, <2>1, CountsKept DEF notifyAll, L!notifyAll, brute_vars
  <1> QED
    BY <1>1, <1>2, <1>3, <1>4, <1>5, <1>6, <1>7, <1>8, <1>9, <1>10, <1>11,
       <1>12, <1>13, <1>14, <1>15, <1>16, <1>17, <1>18, <1>19
       DEF Next, MethodStep, ClientCall

\* The spinning lock (brute.h:9-112) on both memory models.
THEOREM SpecBruteInv == Spec => [](BruteInv /\ ReleasedFirst)
  <1>1. Init => BruteInv /\ ReleasedFirst
    BY InitBruteInv
  <1>2. BruteInv /\ ReleasedFirst /\ Next => BruteInv' /\ ReleasedFirst'
    BY NextTypes, NextOneHolder, NextPhases, NextCounts, NextReleasedFirst DEF BruteInv
  <1>3. BruteInv /\ ReleasedFirst /\ UNCHANGED vars => BruteInv' /\ ReleasedFirst'
    <2> SUFFICES ASSUME BruteInv, ReleasedFirst, UNCHANGED vars
                 PROVE  BruteInv' /\ ReleasedFirst'
      OBVIOUS
    <2> USE DEF vars, L!vars, BruteInv
    <2>1. Types'
      BY DEF Types
    <2>2. OneHolder' /\ Phases' /\ ReleasedFirst'
      BY DEF OneHolder, Holds, Phases, ReleasedFirst
    <2>3. Counts'
      BY DEF Counts, L!Counted, Spinning
    <2> QED
      BY <2>1, <2>2, <2>3
  <1> QED
    BY <1>1, <1>2, <1>3, PTL DEF Spec

------------------------------------------------------------------------------
(* No lost wake-up.                                                        *)

\* A sleeping thread makes num_futex_waiters positive, ...
LEMMA SleeperSeen ==
  ASSUME BruteInv, NEW s \in Threads, pc[s] = "sleep"
  PROVE  num_futex_waiters # 0
  <1>1. s \in L!Counted
    BY DEF L!Counted
  <1> QED
    BY <1>1, CountedThreads, CountedFinite, FS_EmptySet DEF BruteInv, Counts

\* ... and a positive num_brute_waiters is a thread that will look at the word.
LEMMA SpinnerSeen ==
  ASSUME BruteInv, num_brute_waiters # 0
  PROVE  \E u \in Threads : pc[u] \in {"spin", "bdec"}
  <1>1. Spinning # {}
    BY CountedThreads, CountedFinite, FS_EmptySet DEF BruteInv, Counts
  <1> QED
    BY <1>1 DEF Spinning

\* LockObjectSimple counts with the same Cardinality.
LEMMA SameCardinality == \A S : L!Cardinality(S) = Cardinality(S)
  BY Zenon DEF Cardinality, L!Cardinality, IsFiniteSet, L!IsFiniteSet

\* FUTEX_WAKE wakes somebody if anybody sleeps.
LEMMA WakeWakes ==
  ASSUME NEW t \in Threads, NEW roused \in SUBSET L!Sleepers, L!Sleepers # {},
         \/ Cardinality(roused) = L!WakeCount(t)
         \/ Cardinality(roused) < L!WakeCount(t) /\ roused = L!Sleepers
  PROVE  roused # {}
  <1> SUFFICES ASSUME roused = {} PROVE FALSE
    OBVIOUS
  <1>1. Cardinality(roused) = 0
    BY FS_EmptySet
  <1>2. Cardinality(Threads) \in Nat /\ Cardinality(Threads) # 0
    BY BruteThreadsAssumption, FS_EmptySet, FS_CardinalityType
  <1> QED
    BY <1>1, <1>2, SameCardinality DEF L!WakeCount

LEMMA NextNoLostWakeup ==
  ASSUME ~StoreBuffer, BruteInv, ReleasedFirst, NoLostWakeup, Next
  PROVE  NoLostWakeup'
  <1> SUFFICES ASSUME futex_var' = 0,
                      NEW s \in Threads, pc'[s] = "sleep", start_val'[s] = 1
               PROVE  \E t \in Threads : Responsible(t)'
    BY DEF NoLostWakeup, L!Sleepers
  <1> USE DEF BruteInv, Types, Responsible, L!Responsible, BruteLabels, L!Labels
  <1>1. ASSUME NEW t \in Threads, drain(t)
        PROVE  \E u \in Threads : Responsible(u)'
    BY <1>1 DEF drain, L!drain, ReleasedFirst
  <1>2. ASSUME NEW t \in Threads, retry_lock(t)
        PROVE  \E u \in Threads : Responsible(u)'
    BY <1>2 DEF retry_lock, L!atomic_try_lock
  <1>3. ASSUME NEW t \in Threads, futex_wait_add(t)
        PROVE  \E u \in Threads : Responsible(u)'
    <2>1. PICK u \in Threads : Responsible(u)
      BY <1>3 DEF futex_wait_add, L!futex_wait_add, NoLostWakeup, L!Sleepers
    <2>2. Responsible(u)' \/ Responsible(t)'
      BY <1>3, <2>1 DEF futex_wait_add, L!futex_wait_add
    <2> QED
      BY <2>2
  <1>4. ASSUME NEW t \in Threads, futex_wait(t)
        PROVE  \E u \in Threads : Responsible(u)'
    <2>1. PICK u \in Threads : Responsible(u)
      BY <1>4 DEF futex_wait, L!futex_wait, NoLostWakeup, L!Sleepers
    <2>2. Responsible(u)' \/ Responsible(t)'
      BY <1>4, <2>1 DEF futex_wait, L!futex_wait
    <2> QED
      BY <2>2
  <1>5. ASSUME NEW t \in Threads, futex_interrupted(t)
        PROVE  \E u \in Threads : Responsible(u)'
    BY <1>5 DEF futex_interrupted, L!futex_interrupted
  <1>6. ASSUME NEW t \in Threads, futex_wait_sub(t)
        PROVE  \E u \in Threads : Responsible(u)'
    BY <1>6 DEF futex_wait_sub
  <1>7. ASSUME NEW t \in Threads, notify_check(t)
        PROVE  \E u \in Threads : Responsible(u)'
    <2>1. pc[s] = "sleep"
      BY <1>7 DEF notify_check, L!notify_check, L!AfterNotify
    <2>2. pc'[t] = "wake"
      BY <1>7, <2>1, SleeperSeen DEF notify_check, L!notify_check
    <2> QED
      BY <2>2
  <1>8. ASSUME NEW t \in Threads, notify_wake(t)
        PROVE  \E u \in Threads : Responsible(u)'
    <2>1. PICK roused \in SUBSET L!Sleepers :
            /\ \/ Cardinality(roused) = L!WakeCount(t)
               \/ Cardinality(roused) < L!WakeCount(t) /\ roused = L!Sleepers
            /\ pc' = [u \in Threads |-> IF u \in roused THEN "sub"
                                       ELSE IF u = t THEN L!AfterNotify(t)
                                       ELSE pc[u]]
      BY <1>8, SameCardinality DEF notify_wake, L!notify_wake
    <2>2. s \in L!Sleepers
      BY <1>8, <2>1 DEF L!Sleepers, L!AfterNotify
    <2>3. PICK u \in roused : TRUE
      BY <2>1, <2>2, WakeWakes
    <2>4. u \in Threads /\ pc'[u] = "sub"
      BY <2>1, <2>3 DEF L!Sleepers
    <2> QED
      BY <2>4
  <1>9. ASSUME NEW t \in Threads, lock_c(t)
        PROVE  \E u \in Threads : Responsible(u)'
    BY <1>9 DEF lock_c
  <1>10. ASSUME NEW t \in Threads, first_try(t)
        PROVE  \E u \in Threads : Responsible(u)'
    BY <1>10 DEF first_try, TestAndSet
  <1>11. ASSUME NEW t \in Threads, brute_check(t)
        PROVE  \E u \in Threads : Responsible(u)'
    BY <1>11 DEF brute_check, Phases
  <1>12. ASSUME NEW t \in Threads, brute_inc(t)
        PROVE  \E u \in Threads : Responsible(u)'
    BY <1>12 DEF brute_inc
  <1>13. ASSUME NEW t \in Threads, brute_spin(t)
        PROVE  \E u \in Threads : Responsible(u)'
    BY <1>13 DEF brute_spin, TestAndSet
  <1>14. ASSUME NEW t \in Threads, brute_dec(t)
        PROVE  \E u \in Threads : Responsible(u)'
    BY <1>14 DEF brute_dec, Phases, OneHolder, Holds
  <1>15. ASSUME NEW t \in Threads, unlock_c(t)
        PROVE  \E u \in Threads : Responsible(u)'
    BY <1>15 DEF unlock_c, release_then
  <1>16. ASSUME NEW t \in Threads, wait(t)
        PROVE  \E u \in Threads : Responsible(u)'
    BY <1>16 DEF wait, release_then
  <1>17. ASSUME NEW t \in Threads, brute_notify(t)
        PROVE  \E u \in Threads : Responsible(u)'
    <2>1. CASE num_brute_waiters = 0
      BY <1>17, <2>1 DEF brute_notify
    <2>2. CASE num_brute_waiters # 0
      <3>1. PICK u \in Threads : pc[u] \in {"spin", "bdec"}
        BY <2>2, SpinnerSeen
      <3>2. pc'[u] = pc[u]
        BY <1>17, <3>1 DEF brute_notify
      <3> QED
        BY <3>1, <3>2
    <2> QED
      BY <2>1, <2>2
  <1>18. ASSUME NEW t \in Threads, notify(t)
        PROVE  \E u \in Threads : Responsible(u)'
    BY <1>18 DEF notify, L!notify
  <1>19. ASSUME NEW t \in Threads, notifyAll(t)
        PROVE  \E u \in Threads : Responsible(u)'
    BY <1>19 DEF notifyAll, L!notifyAll
  <1> QED
    BY <1>1, <1>2, <1>3, <1>4, <1>5, <1>6, <1>7, <1>8, <1>9, <1>10, <1>11,
       <1>12, <1>13, <1>14, <1>15, <1>16, <1>17, <1>18, <1>19
       DEF Next, MethodStep, ClientCall

\* On a sequentially consistent machine the spinning lock loses no wake-up, for any
\* number of spinners and attempts: who reads num_brute_waiters # 0 in unlock_c()
\* (brute.h:95-100) leaves the waking to a thread that tries the lock again or goes
\* through the FUTEX_WAIT of __lock_wait().
THEOREM BruteNoLostWakeup == ~StoreBuffer /\ Spec => []NoLostWakeup
  <1> SUFFICES ASSUME ~StoreBuffer PROVE Spec => []NoLostWakeup
    OBVIOUS
  <1>1. Init => NoLostWakeup
    BY DEF Init, L!Init, NoLostWakeup, L!Sleepers
  <1>2. BruteInv /\ ReleasedFirst /\ NoLostWakeup /\ Next => NoLostWakeup'
    BY NextNoLostWakeup
  <1>3. NoLostWakeup /\ UNCHANGED vars => NoLostWakeup'
    BY DEF NoLostWakeup, L!Sleepers, Responsible, L!Responsible, vars, L!vars
  <1> QED
    BY <1>1, <1>2, <1>3, SpecBruteInv, PTL DEF Spec

------------------------------------------------------------------------------
(* The spinning lock implements the monitor.                               *)

\* Who enters a free lock becomes the owner, out of the wait set if it was there.
LEMMA Enter ==
  ASSUME BruteInv, NEW t \in Threads, futex_var = 0,
         inside' = [inside EXCEPT ![t] = TRUE],
         \A u \in Threads \ {t} : call'[u] = call[u]
  PROVE  L!M!Lock(t) \/ L!M!Resume(t)
  <1>1. \A u \in Threads : ~inside[u]
    BY DEF BruteInv, OneHolder, Holds
  <1>2. L!owner = NoOne
    BY <1>1 DEF L!owner
  <1>3. \A u \in Threads : inside'[u] <=> u = t
    BY <1>1 DEF BruteInv, Types
  <1>4. L!owner' = t
    BY <1>3 DEF L!owner
  <1>5. CASE call[t] = "wait"
    <2>1. t \in L!wait_set /\ L!wait_set' = L!wait_set \ {t}
      BY <1>1, <1>3, <1>5 DEF L!wait_set
    <2> QED
      BY <1>2, <1>4, <2>1 DEF L!M!Resume
  <1>6. CASE call[t] # "wait"
    <2>1. t \notin L!wait_set /\ L!wait_set' = L!wait_set
      BY <1>1, <1>3, <1>6 DEF L!wait_set
    <2> QED
      BY <1>2, <1>4, <2>1 DEF L!M!Lock
  <1> QED
    BY <1>5, <1>6

\* Who leaves its block makes the lock free.
LEMMA Leave ==
  ASSUME BruteInv, NEW t \in Threads, inside[t], inside' = [inside EXCEPT ![t] = FALSE]
  PROVE  L!owner = t /\ L!owner' = NoOne
  <1>1. \A u \in Threads : inside[u] => u = t
    BY DEF BruteInv, OneHolder, Holds
  <1>2. \A u \in Threads : ~inside'[u]
    BY <1>1 DEF BruteInv, Types
  <1> QED
    BY <1>1, <1>2 DEF L!owner

LEMMA NextRefinesMonitor ==
  ASSUME BruteInv, Next
  PROVE  L!M!Next \/ UNCHANGED <<L!owner, L!wait_set>>
  <1> USE DEF BruteInv, Types, Phases, L!Methods
  \* A step that moves nobody in or out of the block or of wait() stutters.
  <1>0. ASSUME UNCHANGED inside, L!wait_set' = L!wait_set
        PROVE  UNCHANGED <<L!owner, L!wait_set>>
    BY <1>0 DEF L!owner
  <1>1. ASSUME NEW t \in Threads, drain(t) PROVE UNCHANGED <<L!owner, L!wait_set>>
    <2>1. UNCHANGED inside /\ L!wait_set' = L!wait_set
      BY <1>1 DEF drain, L!drain, L!wait_set
    <2> QED
      BY <1>0, <2>1
  <1>2. ASSUME NEW t \in Threads, retry_lock(t)
        PROVE  L!M!Lock(t) \/ L!M!Resume(t) \/ UNCHANGED <<L!owner, L!wait_set>>
    <2>1. CASE futex_var = 0
      <3>1. inside' = [inside EXCEPT ![t] = TRUE] /\ \A u \in Threads \ {t} : call'[u] = call[u]
        BY <1>2, <2>1 DEF retry_lock, L!atomic_try_lock
      <3> QED
        BY <2>1, <3>1, Enter
    <2>2. CASE futex_var = 1
      <3>1. inside' = inside /\ call' = call
        BY <1>2, <2>2 DEF retry_lock, L!atomic_try_lock
      <3> QED
        BY <1>0, <3>1 DEF L!wait_set
    <2> QED
      BY <2>1, <2>2
  <1>3. ASSUME NEW t \in Threads, futex_wait_add(t) PROVE UNCHANGED <<L!owner, L!wait_set>>
    <2>1. UNCHANGED inside /\ L!wait_set' = L!wait_set
      BY <1>3 DEF futex_wait_add, L!futex_wait_add, L!wait_set
    <2> QED
      BY <1>0, <2>1
  <1>4. ASSUME NEW t \in Threads, futex_wait(t) PROVE UNCHANGED <<L!owner, L!wait_set>>
    <2>1. UNCHANGED inside /\ L!wait_set' = L!wait_set
      BY <1>4 DEF futex_wait, L!futex_wait, L!wait_set
    <2> QED
      BY <1>0, <2>1
  <1>5. ASSUME NEW t \in Threads, futex_interrupted(t) PROVE UNCHANGED <<L!owner, L!wait_set>>
    <2>1. UNCHANGED inside /\ L!wait_set' = L!wait_set
      BY <1>5 DEF futex_interrupted, L!futex_interrupted, L!wait_set
    <2> QED
      BY <1>0, <2>1
  <1>6. ASSUME NEW t \in Threads, futex_wait_sub(t) PROVE UNCHANGED <<L!owner, L!wait_set>>
    <2>1. UNCHANGED inside /\ L!wait_set' = L!wait_set
      BY <1>6 DEF futex_wait_sub, L!wait_set
    <2> QED
      BY <1>0, <2>1
  <1>7. ASSUME NEW t \in Threads, notify_check(t) PROVE UNCHANGED <<L!owner, L!wait_set>>
    <2>1. UNCHANGED inside /\ L!wait_set' = L!wait_set
      BY <1>7 DEF notify_check, L!notify_check, L!CanLoad, L!AfterNotify, L!CallAfterNotify, L!wait_set
    <2> QED
      BY <1>0, <2>1
  <1>8. ASSUME NEW t \in Threads, notify_wake(t) PROVE UNCHANGED <<L!owner, L!wait_set>>
    <2>1. UNCHANGED inside /\ L!wait_set' = L!wait_set
      BY <1>8 DEF notify_wake, L!notify_wake, L!AfterNotify, L!CallAfterNotify, L!Sleepers, L!wait_set
    <2> QED
      BY <1>0, <2>1
  <1>9. ASSUME NEW t \in Threads, lock_c(t) PROVE UNCHANGED <<L!owner, L!wait_set>>
    <2>1. UNCHANGED inside /\ L!wait_set' = L!wait_set
      BY <1>9 DEF lock_c, L!wait_set
    <2> QED
      BY <1>0, <2>1
  <1>10. ASSUME NEW t \in Threads, first_try(t)
        PROVE  L!M!Lock(t) \/ L!M!Resume(t) \/ UNCHANGED <<L!owner, L!wait_set>>
    <2>1. CASE futex_var = 0
      <3>1. inside' = [inside EXCEPT ![t] = TRUE] /\ \A u \in Threads \ {t} : call'[u] = call[u]
        BY <1>10, <2>1 DEF first_try, TestAndSet
      <3> QED
        BY <2>1, <3>1, Enter
    <2>2. CASE futex_var = 1
      <3>1. inside' = inside /\ call' = call
        BY <1>10, <2>2 DEF first_try, TestAndSet
      <3> QED
        BY <1>0, <3>1 DEF L!wait_set
    <2> QED
      BY <2>1, <2>2
  <1>11. ASSUME NEW t \in Threads, brute_check(t) PROVE UNCHANGED <<L!owner, L!wait_set>>
    <2>1. UNCHANGED inside /\ L!wait_set' = L!wait_set
      BY <1>11 DEF brute_check, L!wait_set
    <2> QED
      BY <1>0, <2>1
  <1>12. ASSUME NEW t \in Threads, brute_inc(t) PROVE UNCHANGED <<L!owner, L!wait_set>>
    <2>1. UNCHANGED inside /\ L!wait_set' = L!wait_set
      BY <1>12 DEF brute_inc, L!wait_set
    <2> QED
      BY <1>0, <2>1
  <1>13. ASSUME NEW t \in Threads, brute_spin(t)
        PROVE  L!M!Lock(t) \/ L!M!Resume(t) \/ UNCHANGED <<L!owner, L!wait_set>>
    <2>1. CASE futex_var = 0
      <3>1. inside' = [inside EXCEPT ![t] = TRUE] /\ \A u \in Threads \ {t} : call'[u] = call[u]
        BY <1>13, <2>1 DEF brute_spin, TestAndSet
      <3> QED
        BY <2>1, <3>1, Enter
    <2>2. CASE futex_var = 1
      <3>1. inside' = inside /\ call' = call
        BY <1>13, <2>2 DEF brute_spin, TestAndSet
      <3> QED
        BY <1>0, <3>1 DEF L!wait_set
    <2> QED
      BY <2>1, <2>2
  <1>14. ASSUME NEW t \in Threads, brute_dec(t) PROVE UNCHANGED <<L!owner, L!wait_set>>
    <2>1. UNCHANGED inside /\ L!wait_set' = L!wait_set
      BY <1>14 DEF brute_dec, L!wait_set
    <2> QED
      BY <1>0, <2>1
  <1>15. ASSUME NEW t \in Threads, unlock_c(t) PROVE L!M!Unlock(t)
    <2>1. L!owner = t /\ L!owner' = NoOne
      BY <1>15, Leave DEF unlock_c, release_then
    <2>2. L!wait_set' = L!wait_set
      BY <1>15 DEF unlock_c, release_then, L!wait_set
    <2> QED
      BY <2>1, <2>2 DEF L!M!Unlock
  <1>16. ASSUME NEW t \in Threads, wait(t) PROVE L!M!Wait(t)
    <2>1. L!owner = t /\ L!owner' = NoOne
      BY <1>16, Leave DEF wait, release_then
    <2>2. L!wait_set' = L!wait_set \cup {t}
      BY <1>16 DEF wait, release_then, L!wait_set
    <2> QED
      BY <2>1, <2>2 DEF L!M!Wait
  <1>17. ASSUME NEW t \in Threads, brute_notify(t) PROVE UNCHANGED <<L!owner, L!wait_set>>
    <2>1. UNCHANGED inside /\ L!wait_set' = L!wait_set
      BY <1>17 DEF brute_notify, L!CanLoad, L!AfterNotify, L!CallAfterNotify, L!wait_set
    <2> QED
      BY <1>0, <2>1
  <1>18. ASSUME NEW t \in Threads, notify(t) PROVE UNCHANGED <<L!owner, L!wait_set>>
    <2>1. UNCHANGED inside /\ L!wait_set' = L!wait_set
      BY <1>18 DEF notify, L!notify, L!wait_set
    <2> QED
      BY <1>0, <2>1
  <1>19. ASSUME NEW t \in Threads, notifyAll(t) PROVE UNCHANGED <<L!owner, L!wait_set>>
    <2>1. UNCHANGED inside /\ L!wait_set' = L!wait_set
      BY <1>19 DEF notifyAll, L!notifyAll, L!wait_set
    <2> QED
      BY <1>0, <2>1
  <1> QED
    BY <1>1, <1>2, <1>3, <1>4, <1>5, <1>6, <1>7, <1>8, <1>9, <1>10, <1>11,
       <1>12, <1>13, <1>14, <1>15, <1>16, <1>17, <1>18, <1>19
       DEF Next, MethodStep, ClientCall, L!M!Next

\* lock_c(), unlock_c() and wait() of the spinning lock (brute.h:57-112) behave as
\* the operations of a monitor, on both memory models.
THEOREM BruteRefinesMonitor == Spec => MonitorSpec
  <1>1. Init => L!M!Init
    BY DEF Init, L!Init, L!M!Init, L!owner, L!wait_set
  <1>2. BruteInv /\ Next => L!M!Next \/ UNCHANGED <<L!owner, L!wait_set>>
    BY NextRefinesMonitor
  <1>3. UNCHANGED vars => UNCHANGED <<L!owner, L!wait_set>>
    BY DEF vars, L!vars, L!owner, L!wait_set
  <1> QED
    BY <1>1, <1>2, <1>3, SpecBruteInv, PTL DEF Spec, MonitorSpec, L!MonitorSpec, L!M!Spec
==============================================================================
