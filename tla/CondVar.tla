------------------------------- MODULE CondVar -------------------------------
(***************************************************************************)
(* A pthread_cond_t, as POSIX describes it.  The mutex is the caller's     *)
(* business: pthread_cond_wait is Wait together with the release of the    *)
(* mutex, and it returns, once its thread is no longer asleep, with the    *)
(* mutex acquired again.                                                   *)
(***************************************************************************)
VARIABLE asleep   \* the threads blocked in pthread_cond_wait

Init == asleep = {}

Wait(t) == asleep' = asleep \cup {t}

\* pthread_cond_signal wakes at least one sleeper, if there is one; a signal
\* that finds no sleeper is lost.
Signal == \E woken \in SUBSET asleep :
            /\ woken = {} => asleep = {}
            /\ asleep' = asleep \ woken

Broadcast == asleep' = {}

\* A sleeper may also wake up for no reason.
WakeSpuriously(t) == /\ t \in asleep
                     /\ asleep' = asleep \ {t}

=============================================================================
