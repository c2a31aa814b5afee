------------------------------- MODULE Monitor -------------------------------
(***************************************************************************)
(* What a lock object of utils/lock promises its callers: a monitor.  At   *)
(* most one thread owns it; wait() gives it up and joins the wait set in   *)
(* one step, and returns owning it again.  A thread may leave the wait set *)
(* whenever the monitor is free (callers must expect spurious wake-ups).   *)
(***************************************************************************)
CONSTANTS Threads, NoOne

VARIABLES owner,     \* the thread inside the synchronized block, or NoOne
          wait_set   \* the threads inside wait() that do not own the monitor

Init == owner = NoOne /\ wait_set = {}

\* lock_c() returns
Lock(t) == /\ owner = NoOne
           /\ t \notin wait_set
           /\ owner' = t
           /\ UNCHANGED wait_set

\* unlock_c()
Unlock(t) == /\ owner = t
             /\ owner' = NoOne
             /\ UNCHANGED wait_set

\* wait() begins
Wait(t) == /\ owner = t
           /\ owner' = NoOne
           /\ wait_set' = wait_set \cup {t}

\* wait() returns
Resume(t) == /\ owner = NoOne
             /\ t \in wait_set
             /\ owner' = t
             /\ wait_set' = wait_set \ {t}

Next == \E t \in Threads : Lock(t) \/ Unlock(t) \/ Wait(t) \/ Resume(t)

Spec == Init /\ [][Next]_<<owner, wait_set>>
==============================================================================
