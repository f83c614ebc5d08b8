------------------------------- MODULE Spinlock -------------------------------
(***************************************************************************)
(* The spin lock of lock/spinlock.h.  Two of its three builds are          *)
(* modelled: the one over C11 atomics, which tests before it exchanges,    *)
(* and the one over the __sync builtins, which only exchanges.  The third  *)
(* wraps pthread_mutex_t and is module Mutex.                              *)
(*                                                                         *)
(* The lock word is read and written only by atomic instructions, so each  *)
(* instruction is one action.  A thread calls spinlock_lock or             *)
(* spinlock_trylock when it holds nothing and spinlock_unlock when it      *)
(* holds the lock, as task_queue.c does.                                   *)
(***************************************************************************)
EXTENDS Naturals, TLAPS

CONSTANTS
  Threads,       \* the threads that share the lock
  HasC11Atomics  \* TRUE: C11 atomics; FALSE: __STDC_NO_ATOMICS__ is defined

ASSUME SpinlockAssumption == HasC11Atomics \in BOOLEAN

VARIABLES
  lock,  \* struct spinlock: 1 when taken
  pc     \* where each thread is

vars == <<lock, pc>>

PCs == {"idle", "exchange", "spin", "tryload", "tryexchange", "held"}

\* spinlock_init stores 0.
Init == /\ lock = 0
        /\ pc = [t \in Threads |-> "idle"]

-----------------------------------------------------------------------------
(* spinlock_lock *)

LockCall(t) == /\ pc[t] = "idle"
               /\ pc' = [pc EXCEPT ![t] = "exchange"]
               /\ UNCHANGED lock

\* atomic_test_and_set_: the old value decides, the word is 1 either way.
\* The C11 build then watches the word; the other exchanges again at once.
Exchange(t) ==
  /\ pc[t] = "exchange"
  /\ lock' = 1
  /\ pc' = [pc EXCEPT ![t] = IF lock = 0 THEN "held"
                             ELSE IF HasC11Atomics THEN "spin"
                             ELSE "exchange"]

\* Faulty form: entering as soon as the word reads 0, without an exchange.
SpinEnters(t) == /\ pc[t] = "spin"
                 /\ lock = 0
                 /\ pc' = [pc EXCEPT ![t] = "held"]
                 /\ UNCHANGED lock

\* while (atomic_load_relaxed_(&lock->lock)) atomic_pause_();
Spin(t) == /\ pc[t] = "spin"
           /\ lock = 0
           /\ pc' = [pc EXCEPT ![t] = "exchange"]
           /\ UNCHANGED lock

-----------------------------------------------------------------------------
(* spinlock_trylock *)

TryCall(t) ==
  /\ pc[t] = "idle"
  /\ pc' = [pc EXCEPT ![t] = IF HasC11Atomics THEN "tryload" ELSE "tryexchange"]
  /\ UNCHANGED lock

\* The left operand of &&: a word that reads 1 makes the call fail.
TryLoad(t) ==
  /\ pc[t] = "tryload"
  /\ pc' = [pc EXCEPT ![t] = IF lock = 0 THEN "tryexchange" ELSE "idle"]
  /\ UNCHANGED lock

\* Faulty form: the result of the exchange is not tested.
TryExchangeUntested(t) == /\ pc[t] = "tryexchange"
                          /\ lock' = 1
                          /\ pc' = [pc EXCEPT ![t] = "held"]

\* Faulty form: the test of the exchanged value has the wrong sense.
TryExchangeInverted(t) ==
  /\ pc[t] = "tryexchange"
  /\ lock' = 1
  /\ pc' = [pc EXCEPT ![t] = IF lock = 0 THEN "idle" ELSE "held"]

\* The right operand of &&: the lock may have been taken since the load.
TryExchange(t) ==
  /\ pc[t] = "tryexchange"
  /\ lock' = 1
  /\ pc' = [pc EXCEPT ![t] = IF lock = 0 THEN "held" ELSE "idle"]

-----------------------------------------------------------------------------
(* spinlock_unlock *)

\* Faulty form: the word is not cleared.
UnlockWithoutStore(t) == /\ pc[t] = "held"
                         /\ pc' = [pc EXCEPT ![t] = "idle"]
                         /\ UNCHANGED lock

Unlock(t) == /\ pc[t] = "held"
             /\ lock' = 0
             /\ pc' = [pc EXCEPT ![t] = "idle"]

-----------------------------------------------------------------------------
Next == \E t \in Threads :
          \/ LockCall(t) \/ Exchange(t) \/ Spin(t)
          \/ TryCall(t) \/ TryLoad(t) \/ TryExchange(t)
          \/ Unlock(t)

Spec == Init /\ [][Next]_vars

\* A thread that has started a call goes on with it, and the code between
\* lock and unlock is straight-line.  Whether a thread calls at all is its
\* own choice, and nothing promises that a given thread wins an exchange.
Fairness == \A t \in Threads :
  /\ WF_vars(Exchange(t))
  /\ WF_vars(Spin(t))
  /\ WF_vars(TryLoad(t))
  /\ WF_vars(TryExchange(t))
  /\ WF_vars(Unlock(t))

FairSpec == Spec /\ Fairness

-----------------------------------------------------------------------------
(* Properties *)

TypeOK == /\ lock \in {0, 1}
          /\ pc \in [Threads -> PCs]

Holders == {t \in Threads : pc[t] = "held"}

\* At most one thread is between spinlock_lock (or a successful
\* spinlock_trylock) and spinlock_unlock.
MutualExclusion == \A t, u \in Threads :
  pc[t] = "held" /\ pc[u] = "held" => t = u

\* The word is 1 exactly while a thread holds the lock: a failed exchange
\* leaves no trace, so it can neither free the lock nor wedge it.
LockWordAgrees == (lock = 1) <=> (\E t \in Threads : pc[t] = "held")

\* spinlock_trylock gives up only on a lock that another thread holds at
\* that moment, at its load as well as at its exchange.
TryFailsOnlyOnHeldLock ==
  [][\A t \in Threads :
       pc[t] \in {"tryload", "tryexchange"} /\ pc'[t] = "idle"
         => \E u \in Threads \ {t} : pc[u] = "held"]_vars

\* Every build implements a lock.
AbstractMutex == INSTANCE Mutex WITH holders <- Holders
ImplementsMutex == AbstractMutex!Spec

\* A free lock with threads waiting in spinlock_lock does not stay free:
\* an unlock is always seen, and one of the callers gets in.  (Which one is
\* not promised: the lock is not fair.)
WaitersAreServed ==
  ((\E t \in Threads : pc[t] \in {"exchange", "spin"}) /\ Holders = {})
    ~> (Holders # {})

-----------------------------------------------------------------------------
(* Proofs, for any set of threads and both builds.  Mutual exclusion alone *)
(* is not inductive: a state where a thread holds the lock and the word is *)
(* 0 would let a second thread in.  What makes it inductive is that the    *)
(* word tells the truth about the holders.                                 *)

\* The inductive invariant.
IInv == /\ TypeOK
        /\ MutualExclusion
        /\ LockWordAgrees

LEMMA InitEstablishesIInv == Init => IInv
  BY DEF Init, IInv, TypeOK, PCs, MutualExclusion, LockWordAgrees

\* A thread that leaves the critical section was alone in it, and no
\* thread enters while the word is 1.
LEMMA StepPreservesIInv == IInv /\ [Next]_vars => IInv'
<1> SUFFICES ASSUME IInv, [Next]_vars PROVE IInv'
  OBVIOUS
<1> USE SpinlockAssumption DEF IInv, TypeOK, PCs, MutualExclusion, LockWordAgrees
<1>1. ASSUME NEW t \in Threads, LockCall(t) PROVE IInv'
  BY <1>1 DEF LockCall
<1>2. ASSUME NEW t \in Threads, Exchange(t) PROVE IInv'
  <2>1. CASE lock = 0
    BY <1>2, <2>1 DEF Exchange
  <2>2. CASE lock = 1
    BY <1>2, <2>2 DEF Exchange
  <2> QED
    BY <2>1, <2>2
<1>3. ASSUME NEW t \in Threads, Spin(t) PROVE IInv'
  BY <1>3 DEF Spin
<1>4. ASSUME NEW t \in Threads, TryCall(t) PROVE IInv'
  BY <1>4 DEF TryCall
<1>5. ASSUME NEW t \in Threads, TryLoad(t) PROVE IInv'
  BY <1>5 DEF TryLoad
<1>6. ASSUME NEW t \in Threads, TryExchange(t) PROVE IInv'
  <2>1. CASE lock = 0
    BY <1>6, <2>1 DEF TryExchange
  <2>2. CASE lock = 1
    BY <1>6, <2>2 DEF TryExchange
  <2> QED
    BY <2>1, <2>2
<1>7. ASSUME NEW t \in Threads, Unlock(t) PROVE IInv'
  BY <1>7 DEF Unlock
<1>8. CASE UNCHANGED vars
  BY <1>8 DEF vars
<1> QED
  BY <1>1, <1>2, <1>3, <1>4, <1>5, <1>6, <1>7, <1>8 DEF Next

\* The inductive invariant holds in every reachable state.
THEOREM SpinlockInvariant == Spec => []IInv
  BY InitEstablishesIInv, StepPreservesIInv, PTL DEF Spec

\* spinlock_lock and spinlock_trylock let at most one thread in.
THEOREM SpinlockExcludes == Spec => []MutualExclusion
<1>1. IInv => MutualExclusion
  BY DEF IInv
<1> QED
  BY <1>1, SpinlockInvariant, PTL

\* spinlock_trylock fails only while another thread holds the lock.
THEOREM TrylockFailsOnlyOnHeldLock == Spec => TryFailsOnlyOnHeldLock
<1> DEFINE HeldByOther(t) == \E u \in Threads \ {t} : pc[u] = "held"
           FailsOnlyOnHeld ==
             \A t \in Threads :
               pc[t] \in {"tryload", "tryexchange"} /\ pc'[t] = "idle"
                 => \E u \in Threads \ {t} : pc[u] = "held"
<1>1. IInv /\ [Next]_vars => [FailsOnlyOnHeld]_vars
  <2> SUFFICES ASSUME IInv, Next, NEW t \in Threads,
                      pc[t] \in {"tryload", "tryexchange"}, pc'[t] = "idle"
               PROVE  HeldByOther(t)
    OBVIOUS
  <2> USE DEF IInv, TypeOK, PCs, LockWordAgrees
  <2>1. lock = 1
    BY SpinlockAssumption DEF Next, LockCall, Exchange, Spin, TryCall,
                              TryLoad, TryExchange, Unlock
  <2> QED
    BY <2>1
<1> QED
  BY <1>1, SpinlockInvariant, PTL DEF Spec, TryFailsOnlyOnHeldLock

-----------------------------------------------------------------------------
(* The refinement: the holders of the abstract lock are the threads in the *)
(* critical section.                                                       *)

\* A step that takes the lock finds no holder; a step that gives it back
\* removes exactly its own thread; every other step leaves the holders.
LEMMA StepRefinesMutex == IInv /\ [Next]_vars => [AbstractMutex!Next]_Holders
<1> SUFFICES ASSUME IInv, [Next]_vars
             PROVE  \/ \E t \in Threads :
                         AbstractMutex!Acquire(t) \/ AbstractMutex!Release(t)
                    \/ Holders' = Holders
  BY DEF AbstractMutex!Next
<1> USE SpinlockAssumption DEF IInv, TypeOK, PCs, MutualExclusion,
        LockWordAgrees, Holders, AbstractMutex!Acquire, AbstractMutex!Release
<1>1. ASSUME NEW t \in Threads,
             LockCall(t) \/ Spin(t) \/ TryCall(t) \/ TryLoad(t)
      PROVE  Holders' = Holders
  BY <1>1 DEF LockCall, Spin, TryCall, TryLoad
<1>2. ASSUME NEW t \in Threads, Exchange(t) \/ TryExchange(t)
      PROVE  AbstractMutex!Acquire(t) \/ Holders' = Holders
  <2>1. CASE lock = 0
    BY <1>2, <2>1 DEF Exchange, TryExchange
  <2>2. CASE lock = 1
    BY <1>2, <2>2 DEF Exchange, TryExchange
  <2> QED
    BY <2>1, <2>2
<1>3. ASSUME NEW t \in Threads, Unlock(t)
      PROVE  AbstractMutex!Release(t)
  BY <1>3 DEF Unlock
<1>4. CASE UNCHANGED vars
  BY <1>4 DEF vars
<1> QED
  BY <1>1, <1>2, <1>3, <1>4 DEF Next

\* Both builds of the spin lock implement module Mutex.
THEOREM SpinlockImplementsMutex == Spec => ImplementsMutex
<1>1. Init => AbstractMutex!Init
  BY DEF Init, AbstractMutex!Init, Holders
<1> QED
  BY <1>1, SpinlockInvariant, StepRefinesMutex, PTL
     DEF Spec, ImplementsMutex, AbstractMutex!Spec

=============================================================================
