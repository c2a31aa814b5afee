--------------------------- MODULE LockObjectSimple ---------------------------
(***************************************************************************)
(* utils/lock/simple.h: the futex lock with wait() and notify(), executed  *)
(* by a set of threads.  Every access to shared memory is a step.          *)
(*                                                                         *)
(* One futex word serves two purposes: a thread that wants the lock sleeps *)
(* on the value 1, a thread inside wait() sleeps on the value 0, and both  *)
(* kinds share one kernel queue and one counter of waiters.                *)
(*                                                                         *)
(* The read of num_futex_waiters in notify() is an ordinary load after the *)
(* release store of unlock_c(); on the machines the code is built for the  *)
(* store may still be in the store buffer when the load executes.          *)
(* StoreBuffer = TRUE is that machine; on a sequentially consistent one    *)
(* (FALSE) the load waits until the store has reached the memory.          *)
(***************************************************************************)
EXTENDS Integers, FiniteSets

CONSTANTS Threads,      \* the threads that share the lock object
          NoOne,        \* not a thread: the owner of a free lock
          StoreBuffer   \* may a release store be delayed past a later load?

ASSUME ThreadsAssumption == IsFiniteSet(Threads) /\ NoOne \notin Threads
ASSUME StoreBufferAssumption == StoreBuffer \in BOOLEAN

VARIABLES
  futex_var,          \* _futex_var as the memory holds it
  num_futex_waiters,  \* num_futex_waiters
  pending,            \* pending[t]: t's release store has not reached memory
  pc,                 \* pc[t]: where t is inside a method, "ready" if in none
  call,               \* call[t]: the public method t is in
  start_val,          \* start_val[t]: the argument of t's next futex_wait()
  inside              \* inside[t]: t is in a synchronized block

vars == <<futex_var, num_futex_waiters, pending, pc, call, start_val, inside>>

Labels == {"ready", "try", "add", "futex", "sleep", "sub", "check", "wake"}
Methods == {"none", "lock_c", "unlock_c", "wait", "notify", "notifyAll"}

\* The threads the kernel has queued on the futex word.
Sleepers == {t \in Threads : pc[t] = "sleep"}

\* The threads num_futex_waiters counts.
Counted == {t \in Threads : pc[t] \in {"futex", "sleep", "sub"}}

Init ==
  /\ futex_var = 0
  /\ num_futex_waiters = 0
  /\ pending = [t \in Threads |-> FALSE]
  /\ pc = [t \in Threads |-> "ready"]
  /\ call = [t \in Threads |-> "none"]
  /\ start_val = [t \in Threads |-> 1]
  /\ inside = [t \in Threads |-> FALSE]

------------------------------------------------------------------------------
(* ops.h: the atomic operations and the system call order the thread's     *)
(* earlier store first, so they wait for its buffer to drain.              *)

\* The store reaches memory.
drain(t) ==
  /\ pending[t]
  /\ futex_var' = 0
  /\ pending' = [pending EXCEPT ![t] = FALSE]
  /\ UNCHANGED <<num_futex_waiters, pc, call, start_val, inside>>

\* atomic_release(): t issues the store of 0 to the futex word.
atomic_release(t) ==
  /\ pending' = [pending EXCEPT ![t] = TRUE]
  /\ UNCHANGED futex_var

\* May t execute its next ordinary load?
CanLoad(t) == StoreBuffer \/ ~pending[t]

\* Steps that the mutants of the properties' self-tests put in place of the
\* code's: a try-lock that ignores the old value, ...
MutTryLockBlind(t) ==
  /\ pc[t] = "try" /\ ~pending[t]
  /\ futex_var' = 1
  /\ inside' = [inside EXCEPT ![t] = TRUE]
  /\ pc' = [pc EXCEPT ![t] = "ready"]
  /\ call' = [call EXCEPT ![t] = "none"]
  /\ start_val' = [start_val EXCEPT ![t] = 1]
  /\ UNCHANGED <<num_futex_waiters, pending>>

\* atomic_try_lock(), in lock_c() and at the end of the loop of __lock_wait():
\* either the lock is taken and the method returns, or the thread goes to wait
\* for the word to change from 1.
atomic_try_lock(t) ==
  /\ pc[t] = "try" /\ ~pending[t]
  /\ futex_var' = 1
  /\ \/ /\ futex_var = 0
        /\ inside' = [inside EXCEPT ![t] = TRUE]
        /\ pc' = [pc EXCEPT ![t] = "ready"]
        /\ call' = [call EXCEPT ![t] = "none"]
     \/ /\ futex_var = 1
        /\ pc' = [pc EXCEPT ![t] = "add"]
        /\ UNCHANGED <<call, inside>>
  /\ start_val' = [start_val EXCEPT ![t] = 1]
  /\ UNCHANGED <<num_futex_waiters, pending>>

------------------------------------------------------------------------------
(* futex_wait(start_val)                                                   *)

\* ... a waiter that does not count itself, ...
MutAddNothing(t) ==
  /\ pc[t] = "add" /\ ~pending[t]
  /\ pc' = [pc EXCEPT ![t] = "futex"]
  /\ UNCHANGED <<futex_var, num_futex_waiters, pending, call, start_val, inside>>

\* atomic_add(&num_futex_waiters, 1)
futex_wait_add(t) ==
  /\ pc[t] = "add" /\ ~pending[t]
  /\ num_futex_waiters' = num_futex_waiters + 1
  /\ pc' = [pc EXCEPT ![t] = "futex"]
  /\ UNCHANGED <<futex_var, pending, call, start_val, inside>>

\* ... a sleep that does not compare the word first, ...
MutFutexNoCompare(t) ==
  /\ pc[t] = "futex"
  /\ pc' = [pc EXCEPT ![t] = "sleep"]
  /\ UNCHANGED <<futex_var, num_futex_waiters, pending, call, start_val, inside>>

\* futex(FUTEX_WAIT): the kernel compares and queues the thread atomically.
futex_wait(t) ==
  /\ pc[t] = "futex"
  /\ pc' = [pc EXCEPT ![t] = IF futex_var = start_val[t] THEN "sleep" ELSE "sub"]
  /\ UNCHANGED <<futex_var, num_futex_waiters, pending, call, start_val, inside>>

\* FUTEX_WAIT may return without a wake-up, for instance because of a signal.
futex_interrupted(t) ==
  /\ pc[t] = "sleep"
  /\ pc' = [pc EXCEPT ![t] = "sub"]
  /\ UNCHANGED <<futex_var, num_futex_waiters, pending, call, start_val, inside>>

\* ... a wait() that returns without the lock, ...
MutSubReturns(t) ==
  /\ pc[t] = "sub"
  /\ num_futex_waiters' = num_futex_waiters - 1
  /\ pc' = [pc EXCEPT ![t] = IF start_val[t] = 0 THEN "ready" ELSE "try"]
  /\ call' = [call EXCEPT ![t] = IF start_val[t] = 0 THEN "none" ELSE @]
  /\ inside' = [inside EXCEPT ![t] = start_val[t] = 0]
  /\ UNCHANGED <<futex_var, pending, start_val>>

\* atomic_add(&num_futex_waiters, -1); the caller tries the lock next, in the
\* loop of __lock_wait() or in the lock_c() that ends wait().
futex_wait_sub(t) ==
  /\ pc[t] = "sub"
  /\ num_futex_waiters' = num_futex_waiters - 1
  /\ pc' = [pc EXCEPT ![t] = "try"]
  /\ UNCHANGED <<futex_var, pending, call, start_val, inside>>

------------------------------------------------------------------------------
(* notify(n): called by the client, by notifyAll() and by unlock_c().      *)

\* How many threads the call in progress asks FUTEX_WAKE to wake.
WakeCount(t) == IF call[t] = "notifyAll" THEN Cardinality(Threads) ELSE 1

\* Where t continues when notify() returns: wait() goes on to futex_wait(0).
AfterNotify(t) == IF call[t] = "wait" THEN "add" ELSE "ready"
CallAfterNotify(t) == IF call[t] = "wait" THEN "wait" ELSE "none"

\* if (num_futex_waiters)
notify_check(t) ==
  /\ pc[t] = "check" /\ CanLoad(t)
  /\ \/ /\ num_futex_waiters # 0
        /\ pc' = [pc EXCEPT ![t] = "wake"]
        /\ UNCHANGED call
     \/ /\ num_futex_waiters = 0
        /\ pc' = [pc EXCEPT ![t] = AfterNotify(t)]
        /\ call' = [call EXCEPT ![t] = CallAfterNotify(t)]
  /\ UNCHANGED <<futex_var, num_futex_waiters, pending, start_val, inside>>

\* futex(FUTEX_WAKE, n): the kernel promises nothing about whom it wakes.
notify_wake(t) ==
  /\ pc[t] = "wake" /\ ~pending[t]
  /\ \E woken \in SUBSET Sleepers :
       /\ \/ Cardinality(woken) = WakeCount(t)
          \/ Cardinality(woken) < WakeCount(t) /\ woken = Sleepers
       /\ pc' = [u \in Threads |-> IF u \in woken THEN "sub"
                                   ELSE IF u = t THEN AfterNotify(t)
                                   ELSE pc[u]]
  /\ call' = [call EXCEPT ![t] = CallAfterNotify(t)]
  /\ UNCHANGED <<futex_var, num_futex_waiters, pending, start_val, inside>>

------------------------------------------------------------------------------
(* The public methods.  The client follows the rule the code states: it    *)
(* unlocks and waits only inside its own synchronized block (ScopeLock).   *)

lock_c(t) ==
  /\ pc[t] = "ready" /\ ~inside[t]
  /\ call' = [call EXCEPT ![t] = "lock_c"]
  /\ pc' = [pc EXCEPT ![t] = "try"]
  /\ UNCHANGED <<futex_var, num_futex_waiters, pending, start_val, inside>>

\* ... and an unlock that does not notify.
MutUnlockSilent(t) ==
  /\ pc[t] = "ready" /\ inside[t]
  /\ atomic_release(t)
  /\ inside' = [inside EXCEPT ![t] = FALSE]
  /\ UNCHANGED <<num_futex_waiters, pc, call, start_val>>

unlock_c(t) ==
  /\ pc[t] = "ready" /\ inside[t]
  /\ call' = [call EXCEPT ![t] = "unlock_c"]
  /\ atomic_release(t)
  /\ inside' = [inside EXCEPT ![t] = FALSE]
  /\ pc' = [pc EXCEPT ![t] = "check"]
  /\ UNCHANGED <<num_futex_waiters, start_val>>

\* wait(): unlock_c(); futex_wait(0); lock_c()
wait(t) ==
  /\ pc[t] = "ready" /\ inside[t]
  /\ call' = [call EXCEPT ![t] = "wait"]
  /\ atomic_release(t)
  /\ inside' = [inside EXCEPT ![t] = FALSE]
  /\ start_val' = [start_val EXCEPT ![t] = 0]
  /\ pc' = [pc EXCEPT ![t] = "check"]
  /\ UNCHANGED num_futex_waiters

notify(t) ==
  /\ pc[t] = "ready"
  /\ call' = [call EXCEPT ![t] = "notify"]
  /\ pc' = [pc EXCEPT ![t] = "check"]
  /\ UNCHANGED <<futex_var, num_futex_waiters, pending, start_val, inside>>

notifyAll(t) ==
  /\ pc[t] = "ready"
  /\ call' = [call EXCEPT ![t] = "notifyAll"]
  /\ pc' = [pc EXCEPT ![t] = "check"]
  /\ UNCHANGED <<futex_var, num_futex_waiters, pending, start_val, inside>>

------------------------------------------------------------------------------
\* The steps a thread takes inside the lock object's methods.
MethodStep(t) ==
  \/ atomic_try_lock(t)
  \/ futex_wait_add(t) \/ futex_wait(t) \/ futex_wait_sub(t)
  \/ notify_check(t) \/ notify_wake(t)

\* The calls its client chooses to make.
ClientCall(t) ==
  lock_c(t) \/ unlock_c(t) \/ wait(t) \/ notify(t) \/ notifyAll(t)

Next == \E t \in Threads :
  MethodStep(t) \/ ClientCall(t) \/ drain(t) \/ futex_interrupted(t)

Spec == Init /\ [][Next]_vars

\* A thread inside a method keeps being scheduled, and a store buffer drains.
\* Nothing obliges a client to make a call or the kernel to interrupt a sleep.
Fairness == \A t \in Threads : WF_vars(MethodStep(t)) /\ WF_vars(drain(t))

FairSpec == Spec /\ Fairness

------------------------------------------------------------------------------
\* Type invariant: the shared words and every thread's locals stay in range;
\* num_futex_waiters (simple.h:12) is never negative and never above the
\* number of threads.
TypeOK ==
  /\ futex_var \in {0, 1}
  /\ num_futex_waiters \in 0..Cardinality(Threads)
  /\ pending \in [Threads -> BOOLEAN]
  /\ pc \in [Threads -> Labels]
  /\ call \in [Threads -> Methods]
  /\ start_val \in [Threads -> {0, 1}]
  /\ inside \in [Threads -> BOOLEAN]

\* Mutual exclusion: no two threads are inside a synchronized block, and while
\* one is, the word reads as locked, so the ASSERT_DBG(locked()) of wait()
\* (simple.h:40) cannot fail.
MutualExclusion ==
  /\ \A s, t \in Threads : inside[s] /\ inside[t] => s = t
  /\ (\E t \in Threads : inside[t]) => futex_var = 1

\* num_futex_waiters counts exactly the threads between the two atomic_add of
\* futex_wait(), so a zero read by notify() means nobody is asleep.
WaitersCounted == num_futex_waiters = Cardinality(Counted)

\* A thread that will look at the word again, or is about to wake another.
Responsible(t) ==
  \/ pc[t] \in {"try", "sub", "check", "wake"}
  \/ pc[t] \in {"add", "futex"} /\ start_val[t] = 1

\* No lost wake-up: when the lock is free and a thread sleeps waiting for it,
\* some other thread is bound to take the lock or to issue a FUTEX_WAKE
\* (the order release, read of num_futex_waiters, FUTEX_WAKE of unlock_c
\* against add, FUTEX_WAIT of __lock_wait).
NoLostWakeup ==
  (futex_var = 0 /\ \E s \in Sleepers : start_val[s] = 1)
    => \E t \in Threads : Responsible(t)

\* t is in lock_c(), or in the lock_c() at the end of wait().
WantsLock(t) ==
  \/ pc[t] = "try"
  \/ pc[t] \in {"add", "futex", "sleep", "sub"} /\ start_val[t] = 1

\* Deadlock freedom: a thread in lock_c(), or in the lock_c() at the end of
\* wait(), is not left waiting for a lock that nobody takes.
SomeoneGetsIn == (\E t \in Threads : WantsLock(t)) ~> (\E t \in Threads : inside[t])

------------------------------------------------------------------------------
(* The lock object implements the monitor.                                 *)
owner == IF \E t \in Threads : inside[t]
         THEN CHOOSE t \in Threads : inside[t]
         ELSE NoOne

wait_set == {t \in Threads : call[t] = "wait" /\ ~inside[t]}

M == INSTANCE Monitor WITH owner <- owner, wait_set <- wait_set

\* Every step of the lock object is a step of the monitor or invisible to its
\* callers: in particular wait() gives the lock up and returns holding it.
MonitorSpec == M!Spec
==============================================================================
