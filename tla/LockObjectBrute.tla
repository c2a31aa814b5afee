--------------------------- MODULE LockObjectBrute ----------------------------
(***************************************************************************)
(* utils/lock/brute.h: the futex lock whose waiters spin for a while before *)
(* they sleep.  futex_wait() and notify() are those of LockObjectSimple;    *)
(* lock_c() may spin, and unlock_c() leaves the waking to the spinners when *)
(* it sees some.                                                            *)
(***************************************************************************)
EXTENDS Integers, FiniteSets

CONSTANTS Threads, NoOne, StoreBuffer,  \* as in LockObjectSimple
          BRUTE_WAIT_LIMIT,             \* attempts of one spinning thread
          BRUTE_WAITERS_COUNT           \* who finds as many spinning sleeps

ASSUME BruteThreadsAssumption == IsFiniteSet(Threads) /\ NoOne \notin Threads
ASSUME BruteAssumption ==
  /\ StoreBuffer \in BOOLEAN
  /\ BRUTE_WAIT_LIMIT \in Nat \ {0}
  /\ BRUTE_WAITERS_COUNT \in Nat

VARIABLES futex_var, num_futex_waiters, pending, pc, call, start_val, inside,
          num_brute_waiters,  \* num_brute_waiters
          limit               \* limit[t]: __brute_lock_wait()'s countdown, 0 outside it

L == INSTANCE LockObjectSimple

vars == <<L!vars, num_brute_waiters, limit>>
brute_vars == <<num_brute_waiters, limit>>

Init ==
  /\ L!Init
  /\ num_brute_waiters = 0
  /\ limit = [t \in Threads |-> 0]

------------------------------------------------------------------------------
(* The parts shared with LockObjectSimple.                                 *)

drain(t) == L!drain(t) /\ UNCHANGED brute_vars
futex_wait_add(t) == L!futex_wait_add(t) /\ UNCHANGED brute_vars
futex_wait(t) == L!futex_wait(t) /\ UNCHANGED brute_vars
futex_interrupted(t) == L!futex_interrupted(t) /\ UNCHANGED brute_vars
notify_check(t) == L!notify_check(t) /\ UNCHANGED brute_vars
notify_wake(t) == L!notify_wake(t) /\ UNCHANGED brute_vars
notify(t) == L!notify(t) /\ UNCHANGED brute_vars
notifyAll(t) == L!notifyAll(t) /\ UNCHANGED brute_vars

\* atomic_try_lock() at the end of the do-loop of __lock_wait().
retry_lock(t) == L!atomic_try_lock(t) /\ UNCHANGED brute_vars

\* A wait() that returns without taking the lock back.
MutSubReturns(t) ==
  /\ pc[t] = "sub"
  /\ num_futex_waiters' = num_futex_waiters - 1
  /\ pc' = [pc EXCEPT ![t] = IF start_val[t] = 0 THEN "ready" ELSE "try"]
  /\ call' = [call EXCEPT ![t] = IF start_val[t] = 0 THEN "none" ELSE @]
  /\ UNCHANGED <<futex_var, pending, start_val, inside>>
  /\ UNCHANGED brute_vars

\* The end of futex_wait(): the loop of __lock_wait() tries again, wait() goes
\* on to lock_c().
futex_wait_sub(t) ==
  /\ pc[t] = "sub"
  /\ num_futex_waiters' = num_futex_waiters - 1
  /\ pc' = [pc EXCEPT ![t] = IF start_val[t] = 0 THEN "first" ELSE "try"]
  /\ UNCHANGED <<futex_var, pending, call, start_val, inside>>
  /\ UNCHANGED brute_vars

------------------------------------------------------------------------------
(* lock_c()                                                                *)

lock_c(t) ==
  /\ pc[t] = "ready" /\ ~inside[t]
  /\ call' = [call EXCEPT ![t] = "lock_c"]
  /\ pc' = [pc EXCEPT ![t] = "first"]
  /\ UNCHANGED <<futex_var, num_futex_waiters, pending, start_val, inside>>
  /\ UNCHANGED brute_vars

\* The test-and-set of a thread at label from: on success it goes to won,
\* holding the lock, otherwise to lost.
TestAndSet(t, from, won, lost) ==
  /\ pc[t] = from /\ ~pending[t]
  /\ futex_var' = 1
  /\ inside' = [inside EXCEPT ![t] = futex_var = 0]
  /\ pc' = [pc EXCEPT ![t] = IF futex_var = 0 THEN won ELSE lost]

\* if (!atomic_try_lock(&_futex_var)) __lock_wait();
first_try(t) ==
  /\ TestAndSet(t, "first", "ready", "bcheck")
  /\ call' = [call EXCEPT ![t] = IF futex_var = 0 THEN "none" ELSE @]
  /\ start_val' = [start_val EXCEPT ![t] = 1]
  /\ UNCHANGED <<num_futex_waiters, pending>>
  /\ UNCHANGED brute_vars

\* num_brute_waiters < BRUTE_WAITERS_COUNT, a plain read
brute_check(t) ==
  /\ pc[t] = "bcheck"
  /\ pc' = [pc EXCEPT ![t] =
               IF num_brute_waiters < BRUTE_WAITERS_COUNT THEN "binc" ELSE "add"]
  /\ UNCHANGED <<futex_var, num_futex_waiters, pending, call, start_val, inside>>
  /\ UNCHANGED brute_vars

\* __brute_lock_wait(BRUTE_WAIT_LIMIT): atomic_add(&num_brute_waiters, 1)
brute_inc(t) ==
  /\ pc[t] = "binc"
  /\ num_brute_waiters' = num_brute_waiters + 1
  /\ limit' = [limit EXCEPT ![t] = BRUTE_WAIT_LIMIT]
  /\ pc' = [pc EXCEPT ![t] = "spin"]
  /\ UNCHANGED <<futex_var, num_futex_waiters, pending, call, start_val, inside>>

\* One turn of the do-loop: try, yield, count down.
brute_spin(t) ==
  /\ TestAndSet(t, "spin", "bdec", IF limit[t] = 1 THEN "bdec" ELSE "spin")
  /\ limit' = [limit EXCEPT ![t] = IF futex_var = 0 THEN @ ELSE @ - 1]
  /\ UNCHANGED <<num_futex_waiters, pending, call, start_val, num_brute_waiters>>

\* atomic_add(&num_brute_waiters, -1), then return from lock_c() with the lock
\* or go to sleep for it.
brute_dec(t) ==
  /\ pc[t] = "bdec"
  /\ num_brute_waiters' = num_brute_waiters - 1
  /\ pc' = [pc EXCEPT ![t] = IF inside[t] THEN "ready" ELSE "add"]
  /\ call' = [call EXCEPT ![t] = IF inside[t] THEN "none" ELSE @]
  /\ limit' = [limit EXCEPT ![t] = 0]
  /\ UNCHANGED <<futex_var, num_futex_waiters, pending, start_val, inside>>

------------------------------------------------------------------------------
(* unlock_c() and wait()                                                   *)

\* atomic_release() and its consequence for the block; the read of
\* num_brute_waiters is the next step.
release_then(t, method) ==
  /\ pc[t] = "ready" /\ inside[t]
  /\ call' = [call EXCEPT ![t] = method]
  /\ L!atomic_release(t)
  /\ inside' = [inside EXCEPT ![t] = FALSE]
  /\ pc' = [pc EXCEPT ![t] = "bnotify"]
  /\ UNCHANGED num_futex_waiters
  /\ UNCHANGED brute_vars

unlock_c(t) == release_then(t, "unlock_c") /\ UNCHANGED start_val

wait(t) ==
  /\ release_then(t, "wait")
  /\ start_val' = [start_val EXCEPT ![t] = 0]

\* An unlock that never notifies, whether or not it sees a spinner.
MutNeverNotify(t) ==
  /\ pc[t] = "bnotify" /\ L!CanLoad(t)
  /\ pc' = [pc EXCEPT ![t] = L!AfterNotify(t)]
  /\ call' = [call EXCEPT ![t] = L!CallAfterNotify(t)]
  /\ UNCHANGED <<futex_var, num_futex_waiters, pending, start_val, inside>>
  /\ UNCHANGED brute_vars

\* if (!num_brute_waiters) notify();
brute_notify(t) ==
  /\ pc[t] = "bnotify" /\ L!CanLoad(t)
  /\ \/ /\ num_brute_waiters = 0
        /\ pc' = [pc EXCEPT ![t] = "check"]
        /\ UNCHANGED call
     \/ /\ num_brute_waiters # 0
        /\ pc' = [pc EXCEPT ![t] = L!AfterNotify(t)]
        /\ call' = [call EXCEPT ![t] = L!CallAfterNotify(t)]
  /\ UNCHANGED <<futex_var, num_futex_waiters, pending, start_val, inside>>
  /\ UNCHANGED brute_vars

------------------------------------------------------------------------------
MethodStep(t) ==
  \/ first_try(t) \/ retry_lock(t)
  \/ brute_check(t) \/ brute_inc(t) \/ brute_spin(t) \/ brute_dec(t)
  \/ futex_wait_add(t) \/ futex_wait(t) \/ futex_wait_sub(t)
  \/ brute_notify(t) \/ notify_check(t) \/ notify_wake(t)

ClientCall(t) ==
  lock_c(t) \/ unlock_c(t) \/ wait(t) \/ notify(t) \/ notifyAll(t)

Next == \E t \in Threads :
  MethodStep(t) \/ ClientCall(t) \/ drain(t) \/ futex_interrupted(t)

Spec == Init /\ [][Next]_vars

\* As for LockObjectSimple: a thread inside a method keeps running.
Fairness == \A t \in Threads : WF_vars(MethodStep(t)) /\ WF_vars(drain(t))

FairSpec == Spec /\ Fairness

------------------------------------------------------------------------------
\* A thread that will look at the word again, or is about to wake another.
Responsible(t) ==
  \/ L!Responsible(t)
  \/ pc[t] \in {"first", "bcheck", "binc", "spin", "bdec", "bnotify"}

\* No lost wake-up although unlock_c() (brute.h:95-100) skips the FUTEX_WAKE
\* when it sees a spinner, even one whose last attempt has just failed.
NoLostWakeup ==
  (futex_var = 0 /\ \E s \in L!Sleepers : start_val[s] = 1)
    => \E t \in Threads : Responsible(t)

\* Deadlock freedom: whoever is in lock_c(), spinning or asleep, somebody gets in.
SomeoneGetsIn ==
  (\E t \in Threads :
     L!WantsLock(t) \/ pc[t] \in {"first", "bcheck", "binc", "spin", "bdec"})
    ~> (\E t \in Threads : inside[t])

\* The spinning lock implements the same monitor.
MonitorSpec == L!MonitorSpec
==============================================================================
