--------------------------- MODULE MC_LockVariants ----------------------------
(***************************************************************************)
(* The two classes utils/lock.h can name in place of the plain futex lock: *)
(* a build has one of them, so variant is chosen once, and the state of    *)
(* the other class stays as it starts.                                     *)
(***************************************************************************)
EXTENDS LockObjectBrute

VARIABLES variant,                                  \* the class LockObject names
          owner, entering, waiting, woken, missed   \* of LockObjectPthread

P == INSTANCE LockObjectPthread

pthread_vars == <<variant, owner, entering, waiting, woken, missed>>
lock_vars == <<variant, futex_var, num_futex_waiters, pending, pc, call, start_val,
               inside, num_brute_waiters, limit>>
all_vars == <<lock_vars, pthread_vars>>

VariantsInit ==
  /\ variant \in {"brute", "pthread"}
  /\ Init
  /\ P!Init

BruteNext == variant = "brute" /\ Next /\ UNCHANGED pthread_vars

PthreadNext == variant = "pthread" /\ P!Next /\ UNCHANGED lock_vars

BruteMethodStep(t) == variant = "brute" /\ MethodStep(t) /\ UNCHANGED pthread_vars

BruteDrain(t) == variant = "brute" /\ drain(t) /\ UNCHANGED pthread_vars

\* The fairness of LockObjectBrute.
VariantsSpec ==
  /\ VariantsInit
  /\ [][BruteNext \/ PthreadNext]_all_vars
  /\ \A t \in Threads : WF_all_vars(BruteMethodStep(t)) /\ WF_all_vars(BruteDrain(t))

\* The pthread lock (pthread.h:14-42) implements the monitor, as the spinning
\* lock does.
PthreadMonitorSpec == P!MonitorSpec
==============================================================================
