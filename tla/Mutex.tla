-------------------------------- MODULE Mutex --------------------------------
(***************************************************************************)
(* What a lock promises: at most one thread holds it.  This is the         *)
(* abstract specification that Spinlock (lock/spinlock.h) implements, and  *)
(* it is used as it stands for pthread_mutex_t, which the code takes from  *)
(* the C library and which lock/spinlock.h itself wraps when it is built   *)
(* with USE_PTHREAD_LOCK.                                                  *)
(***************************************************************************)

CONSTANT Threads   \* the threads that may call lock and unlock

VARIABLE holders   \* the set of threads inside the critical section

Init == holders = {}

\* lock(t) returns: nobody held the lock, and t now does.
Acquire(t) == /\ holders = {}
              /\ holders' = {t}

\* unlock(t): the holder gives the lock back.
Release(t) == /\ t \in holders
              /\ holders' = holders \ {t}

Next == \E t \in Threads : Acquire(t) \/ Release(t)

Spec == Init /\ [][Next]_holders

=============================================================================
