-------------------------- MODULE LockObjectPthread ---------------------------
(***************************************************************************)
(* utils/lock/pthread.h: the lock object that USE_PTHREAD puts in place of *)
(* the futex ones (utils/lock.h).  The mutex and the condition variable    *)
(* are the C library's and external: a signal wakes at least one thread    *)
(* that waits, and a waiting thread may also wake by itself.               *)
(***************************************************************************)
EXTENDS Naturals

CONSTANTS Threads, NoOne

VARIABLES
  owner,    \* the thread that owns the mutex, or NoOne
  entering, \* the threads blocked in pthread_mutex_lock()
  waiting,  \* the threads asleep in pthread_cond_wait()
  woken,    \* the threads in pthread_cond_wait() that want the mutex back
  missed    \* history: the threads that have slept through a notifyAll()

vars == <<owner, entering, waiting, woken, missed>>

Busy(t) == t \in entering \cup waiting \cup woken

Init == owner = NoOne /\ entering = {} /\ waiting = {} /\ woken = {} /\ missed = {}

\* A lock that two threads can hold.
MutAcquireTaken(t) ==
  /\ t \in entering
  /\ entering' = entering \ {t}
  /\ owner' = t
  /\ UNCHANGED <<waiting, woken, missed>>

\* pthread_mutex_lock() is called, and returns.
lock_c(t) ==
  /\ owner # t /\ ~Busy(t)
  /\ entering' = entering \cup {t}
  /\ UNCHANGED <<owner, waiting, woken, missed>>

acquire(t) ==
  /\ owner = NoOne /\ t \in entering
  /\ entering' = entering \ {t}
  /\ owner' = t
  /\ UNCHANGED <<waiting, woken, missed>>

unlock_c(t) ==
  /\ owner = t
  /\ owner' = NoOne
  /\ UNCHANGED <<entering, waiting, woken, missed>>

\* pthread_cond_wait() gives up the mutex and goes to sleep in one step; the
\* assertion before it calls locked(), which fails to take the caller's own
\* mutex and changes nothing.
wait(t) ==
  /\ owner = t
  /\ owner' = NoOne
  /\ waiting' = waiting \cup {t}
  /\ UNCHANGED <<entering, woken, missed>>

wake_spuriously(t) ==
  /\ t \in waiting
  /\ waiting' = waiting \ {t} /\ woken' = woken \cup {t}
  /\ missed' = missed \ {t}
  /\ UNCHANGED <<owner, entering>>

reacquire(t) ==
  /\ owner = NoOne /\ t \in woken
  /\ woken' = woken \ {t}
  /\ owner' = t
  /\ UNCHANGED <<entering, waiting, missed>>

\* pthread_cond_signal(): wakes one thread, more only spuriously.
signal ==
  /\ \/ \E u \in waiting : waiting' = waiting \ {u} /\ woken' = woken \cup {u}
     \/ waiting = {} /\ UNCHANGED <<waiting, woken>>
  /\ UNCHANGED <<owner, entering>>

notify(t) == ~Busy(t) /\ signal /\ missed' = missed \cap waiting'

\* notifyAll() calls pthread_cond_signal() too.
notifyAll(t) == ~Busy(t) /\ signal /\ missed' = waiting'

Next == \E t \in Threads :
  \/ lock_c(t) \/ acquire(t) \/ unlock_c(t)
  \/ wait(t) \/ wake_spuriously(t) \/ reacquire(t)
  \/ notify(t) \/ notifyAll(t)

Spec == Init /\ [][Next]_vars

------------------------------------------------------------------------------
wait_set == waiting \cup woken

M == INSTANCE Monitor WITH owner <- owner, wait_set <- wait_set

\* The pthread lock (pthread.h:15-42) implements the monitor too.
MonitorSpec == M!Spec

\* The "compatibility pthread version" (pthread.h:7) of the class behaves as
\* the futex one, whose notifyAll() asks FUTEX_WAKE for INT_MAX threads: nobody
\* who sleeps when notifyAll() is called sleeps on.
NotifyAllWakesAll == missed = {}
==============================================================================
