------------------------------ MODULE ThreadPool1 ------------------------------
(***************************************************************************)
(* The first thread pool, ThreadPool/ThreadPool.cpp: the owner creates and *)
(* destroys it, an admin thread looks after the workers, and clients add   *)
(* tasks.                                                                  *)
(*                                                                         *)
(* threadpool_add_task stores neither the function nor the argument, and   *)
(* nothing raises queue_size above 0.  So no worker ever takes a task, the *)
(* admin never sees five waiting tasks and starts no thread, live_thr_num  *)
(* stays min_thr_num, and no worker is asked to exit: the code behind      *)
(* those conditions cannot be reached and has no action here.              *)
(*                                                                         *)
(* Undefined behaviour either brings the process down (crashed) or goes    *)
(* unnoticed.  Unlocking a mutex that another thread holds frees it, as    *)
(* the default mutex of the C library does.                                *)
(*                                                                         *)
(* Clients call destory once, on a pool that was created, and start no     *)
(* add_task after it has returned; an add_task may overlap it.             *)
(***************************************************************************)
EXTENDS Integers, FiniteSets, TLAPS

CONSTANTS
  min_thr_num,  \* the number of workers, at most max_thr_num
  Adders,       \* the threads that call threadpool_add_task
  Owner,        \* the thread that calls threadpool_creat and _destory
  Admin         \* the admin thread

Workers == 1 .. min_thr_num
Threads == Workers \cup Adders \cup {Owner, Admin}

ASSUME ThreadPool1Assumption ==
  /\ min_thr_num \in Nat
  /\ Owner # Admin
  /\ Adders \cap {Owner, Admin} = {}
  /\ (Adders \cup {Owner, Admin}) \cap Workers = {}

VARIABLES
  shutdown,    \* pool->shutdown
  queue_size,  \* pool->queue_size
  arg,         \* task_queue[queue_rear].arg: "NULL", or "junk" from malloc
  lock,        \* the holder of pool->lock: a set with at most one member
  asleep,      \* the threads asleep on queue_not_empty
  pc,          \* where each thread is
  idx,         \* the loop counter of the owner, and that of the admin
  crashed,     \* undefined behaviour brought the process down
  missed,      \* history: the workers that missed the last broadcast
  unowned      \* history: a thread unlocked a lock that it did not hold

pool == <<shutdown, queue_size, arg>>
history == <<missed, unowned>>
vars == <<pool, lock, asleep, pc, idx, crashed, history>>

Cond == INSTANCE CondVar

live_thr_num == min_thr_num

Init == /\ shutdown = FALSE
        /\ queue_size = 0
        /\ arg \in {"NULL", "junk"}
        /\ lock = {}
        /\ Cond!Init
        /\ pc = [t \in Threads |-> CASE t = Owner    -> "start"
                                     [] t \in Adders -> "idle"
                                     [] OTHER        -> "unborn"]
        /\ idx = [t \in {Owner, Admin} |-> 1]
        /\ crashed = FALSE
        /\ missed = {}
        /\ unowned = FALSE

Goto(t, from, to) == ~crashed /\ pc[t] = from /\ pc' = [pc EXCEPT ![t] = to]

Acquire(t) == lock = {} /\ lock' = {t}
Release(t) == /\ lock' = {}
              /\ unowned' = (unowned \/ lock # {t})

\* A step that is undefined behaviour ends the process, or t goes on.
Undefined(t, to) == \/ crashed' = TRUE /\ UNCHANGED pc
                    \/ pc' = [pc EXCEPT ![t] = to] /\ UNCHANGED crashed

-----------------------------------------------------------------------------
(* threadpool_thread *)

\* Faulty form: the worker looks at the pool without the lock.
WorkerLockMissing(w) == /\ Goto(w, "lock", "test")
                        /\ UNCHANGED <<pool, lock, asleep, idx, crashed, history>>

WorkerLock(w) == /\ Goto(w, "lock", "test")
                 /\ Acquire(w)
                 /\ UNCHANGED <<pool, asleep, idx, crashed, history>>

\* while (queue_size == 0 && !shutdown) ...; if (shutdown) ...
WorkerTest(w) ==
  /\ Goto(w, "test", IF queue_size = 0 /\ ~shutdown THEN "wait" ELSE "leave")
  /\ UNCHANGED <<pool, lock, asleep, idx, crashed, history>>

WorkerWait(w) == /\ Goto(w, "wait", "sleep")
                 /\ Release(w)
                 /\ Cond!Wait(w)
                 /\ UNCHANGED <<pool, idx, crashed, missed>>

Spurious(w) == /\ ~crashed
               /\ Cond!WakeSpuriously(w)
               /\ UNCHANGED <<pool, lock, pc, idx, crashed, history>>

WorkerWakes(w) == /\ Goto(w, "sleep", "test")
                  /\ w \notin asleep
                  /\ Acquire(w)
                  /\ UNCHANGED <<pool, asleep, idx, crashed, history>>

WorkerLeaves(w) == /\ Goto(w, "leave", "exit")
                   /\ Release(w)
                   /\ UNCHANGED <<pool, asleep, idx, crashed, missed>>

Worker(w) == \/ WorkerLock(w) \/ WorkerTest(w) \/ WorkerWait(w)
             \/ WorkerWakes(w) \/ WorkerLeaves(w)

-----------------------------------------------------------------------------
(* admin_thread *)

\* while (!pool->shutdown), without the lock
AdminCheck == /\ Goto(Admin, "check", IF shutdown THEN "exit" ELSE "nap")
              /\ UNCHANGED <<pool, lock, asleep, idx, crashed, history>>

AdminNap == /\ Goto(Admin, "nap", "lock")
            /\ UNCHANGED <<pool, lock, asleep, idx, crashed, history>>

AdminLock == /\ Goto(Admin, "lock", "unlock")
             /\ Acquire(Admin)
             /\ UNCHANGED <<pool, asleep, idx, crashed, history>>

\* What it has read is queue_size = 0, live_thr_num = min_thr_num and, under
\* the other mutex, busy_thr_num = 0: nothing to add and nothing to remove.
AdminUnlock == /\ Goto(Admin, "unlock", "signal")
               /\ Release(Admin)
               /\ idx' = [idx EXCEPT ![Admin] = 1]
               /\ UNCHANGED <<pool, asleep, crashed, missed>>

\* Two signals (DEFAULT_THREAD_NUM), and round again.
AdminSignal ==
  /\ Goto(Admin, "signal", IF idx[Admin] = 2 THEN "check" ELSE "signal")
  /\ Cond!Signal
  /\ idx' = [idx EXCEPT ![Admin] = 3 - @]
  /\ UNCHANGED <<pool, lock, crashed, history>>

AdminStep == AdminCheck \/ AdminNap \/ AdminLock \/ AdminUnlock \/ AdminSignal

-----------------------------------------------------------------------------
(* threadpool_add_task *)

Exists == pc[Owner] \notin {"start", "spawn", "failed", "gone"}

AddCall(a) == /\ Exists
              /\ Goto(a, "idle", "lock")
              /\ UNCHANGED <<pool, lock, asleep, idx, crashed, history>>

AddLock(a) == /\ Exists
              /\ Goto(a, "lock", "test")
              /\ Acquire(a)
              /\ UNCHANGED <<pool, asleep, idx, crashed, history>>

\* The queue is never full; a pool that is shut down ...
AddTest(a) == /\ Exists
              /\ Goto(a, "test", IF shutdown THEN "early" ELSE "clear")
              /\ UNCHANGED <<pool, lock, asleep, idx, crashed, history>>

\* ... is unlocked, and the call goes on as before.
AddUnlockEarly(a) == /\ Exists
                     /\ Goto(a, "early", "clear")
                     /\ Release(a)
                     /\ UNCHANGED <<pool, asleep, idx, crashed, missed>>

\* free(task_queue[queue_rear].arg), which malloc left as it was.
AddClear(a) == /\ Exists /\ ~crashed
               /\ pc[a] = "clear"
               /\ \/ arg = "junk" /\ Undefined(a, "signal")
                  \/ arg = "NULL" /\ pc' = [pc EXCEPT ![a] = "signal"] /\ UNCHANGED crashed
               /\ arg' = "NULL"
               /\ UNCHANGED <<shutdown, queue_size, lock, asleep, idx, history>>

AddSignal(a) == /\ Exists
                /\ Goto(a, "signal", "unlock")
                /\ Cond!Signal
                /\ UNCHANGED <<pool, lock, idx, crashed, history>>

\* Return 0.
AddUnlock(a) == /\ Exists
                /\ Goto(a, "unlock", "idle")
                /\ Release(a)
                /\ UNCHANGED <<pool, asleep, idx, crashed, missed>>

\* destory has freed the pool under the call.
AddTouchesFreed(a) == /\ ~Exists /\ ~crashed
                      /\ pc[a] # "idle"
                      /\ Undefined(a, "idle")
                      /\ UNCHANGED <<pool, lock, asleep, idx, history>>

Adder(a) == \/ AddLock(a) \/ AddTest(a) \/ AddUnlockEarly(a) \/ AddClear(a)
            \/ AddSignal(a) \/ AddUnlock(a) \/ AddTouchesFreed(a)

-----------------------------------------------------------------------------
(* threadpool_creat *)

\* Memory and mutexes.  When malloc fails for threads, threadpool_free looks
\* at a task_queue that was never assigned.
Creat == /\ ~crashed /\ pc[Owner] = "start"
         /\ \/ \E next \in {"failed", "spawn"} :
                 pc' = [pc EXCEPT ![Owner] = next] /\ UNCHANGED crashed
            \/ Undefined(Owner, "failed")
         /\ UNCHANGED <<pool, lock, asleep, idx, history>>

\* pthread_create, whose result nobody looks at.
Spawn == /\ ~crashed /\ pc[Owner] = "spawn" /\ idx[Owner] <= min_thr_num
         /\ \E state \in {"lock", "unborn"} : pc' = [pc EXCEPT ![idx[Owner]] = state]
         /\ idx' = [idx EXCEPT ![Owner] = @ + 1]
         /\ UNCHANGED <<pool, lock, asleep, crashed, history>>

SpawnAdmin == /\ ~crashed /\ pc[Owner] = "spawn" /\ idx[Owner] > min_thr_num
              /\ \E state \in {"check", "unborn"} :
                   pc' = [pc EXCEPT ![Owner] = "ready", ![Admin] = state]
              /\ UNCHANGED <<pool, lock, asleep, idx, crashed, history>>

-----------------------------------------------------------------------------
(* threadpool_destory and threadpool_free *)

Destory == /\ Goto(Owner, "ready", "shut")
           /\ UNCHANGED <<pool, lock, asleep, idx, crashed, history>>

\* Without the lock.
Shut == /\ Goto(Owner, "shut", "join_admin")
        /\ shutdown' = TRUE
        /\ idx' = [idx EXCEPT ![Owner] = 1]
        /\ UNCHANGED <<queue_size, arg, lock, asleep, crashed, history>>

\* The thread id of an admin that was not started is not assigned.
JoinAdmin == /\ ~crashed /\ pc[Owner] = "join_admin"
             /\ \/ /\ pc[Admin] = "exit"
                   /\ pc' = [pc EXCEPT ![Owner] = "broadcast"] /\ UNCHANGED crashed
                \/ pc[Admin] = "unborn" /\ Undefined(Owner, "broadcast")
             /\ UNCHANGED <<pool, lock, asleep, idx, history>>

\* Faulty form: signals, one for two threads, in place of the broadcasts.
BroadcastSignals ==
  /\ ~crashed /\ pc[Owner] = "broadcast" /\ idx[Owner] <= live_thr_num
  /\ idx' = [idx EXCEPT ![Owner] = @ + 2]
  /\ Cond!Signal
  /\ missed' = {w \in Workers : pc[w] = "wait"}
  /\ UNCHANGED <<pool, lock, pc, crashed, unowned>>

\* As many broadcasts as live threads, without the lock: the last one
\* counts, for whoever sleeps by then.
Broadcast ==
  /\ ~crashed /\ pc[Owner] = "broadcast" /\ idx[Owner] <= live_thr_num
  /\ idx' = [idx EXCEPT ![Owner] = @ + 1]
  /\ Cond!Broadcast
  /\ missed' = {w \in Workers : pc[w] = "wait"}
  /\ UNCHANGED <<pool, lock, pc, crashed, unowned>>

BroadcastsDone == /\ idx[Owner] > live_thr_num
                  /\ Goto(Owner, "broadcast", "join")
                  /\ idx' = [idx EXCEPT ![Owner] = 1]
                  /\ UNCHANGED <<pool, lock, asleep, crashed, history>>

\* Faulty form: the threads are not waited for.
JoinTries ==
  /\ ~crashed /\ pc[Owner] = "join" /\ idx[Owner] <= live_thr_num
  /\ idx' = [idx EXCEPT ![Owner] = @ + 1]
  /\ UNCHANGED <<pool, lock, asleep, pc, crashed, history>>

\* A thread that pthread_create failed to start is joined all the same.
Join ==
  /\ ~crashed /\ pc[Owner] = "join" /\ idx[Owner] <= live_thr_num
  /\ idx' = [idx EXCEPT ![Owner] = @ + 1]
  /\ \/ pc[idx[Owner]] = "exit" /\ UNCHANGED <<pc, crashed>>
     \/ pc[idx[Owner]] = "unborn" /\ Undefined(Owner, "join")
  /\ UNCHANGED <<pool, lock, asleep, history>>

Free == /\ idx[Owner] > live_thr_num
        /\ Goto(Owner, "join", "gone")
        /\ UNCHANGED <<pool, lock, asleep, idx, crashed, history>>

OwnerStep == \/ Creat \/ Spawn \/ SpawnAdmin
             \/ Shut \/ JoinAdmin \/ Broadcast \/ BroadcastsDone \/ Join \/ Free

-----------------------------------------------------------------------------
Next == \/ \E w \in Workers : Worker(w) \/ Spurious(w)
        \/ AdminStep
        \/ \E a \in Adders : AddCall(a) \/ Adder(a)
        \/ OwnerStep \/ Destory

Spec == Init /\ [][Next]_vars

\* Every thread goes on.  Nobody has to call add_task or destory.  Sleepers
\* wake up for no reason finitely often only, and clients add finitely many
\* tasks: the lock is not promised to those who keep asking for it.
Fairness == /\ \A w \in Workers : WF_vars(Worker(w))
            /\ WF_vars(AdminStep)
            /\ \A a \in Adders : WF_vars(Adder(a))
            /\ WF_vars(OwnerStep)
            /\ <>[][\A w \in Workers : ~Spurious(w)]_vars
            /\ <>[][\A a \in Adders : ~AddCall(a)]_vars

FairSpec == Spec /\ Fairness

-----------------------------------------------------------------------------
(* Properties *)

\* The threads that believe that they hold pool->lock.  One that has
\* unlocked it early does not.
Inside == {w \in Workers : pc[w] \in {"test", "wait", "leave"}}
          \cup {t \in {Admin} : pc[t] = "unlock"}
          \cup {a \in Adders : pc[a] \in {"test", "early"}}

\* pool->lock excludes: a thread unlocks what it does not hold only when an
\* add_task has met a pool that is shut down, and unlocked twice; until then
\* nobody is inside with somebody else.
LockExcludes == IF unowned THEN shutdown ELSE \A t, u \in Inside : t = u

\* The pool is freed only when no thread of its own can touch it.
FreedAfterThreads ==
  pc[Owner] = "gone" => \A t \in Workers \cup {Admin} : pc[t] \in {"unborn", "exit"}

\* threadpool_destory returns, unless a worker missed the broadcasts, or the
\* process is down.
DestoryReturnsUnlessMissed ==
  pc[Owner] = "shut" ~> pc[Owner] = "gone" \/ crashed \/ missed # {}

\* "Wake up every blocked thread", says the comment in threadpool_destory,
\* and the call returns 0: no worker sleeps on.
DestoryReturns == pc[Owner] = "shut" ~> pc[Owner] = "gone" \/ crashed

-----------------------------------------------------------------------------
(* Proofs, for any number of workers and any set of clients. *)

\* The points a thread of each kind can be at.
WorkerPCs == {"unborn", "lock", "test", "wait", "sleep", "leave", "exit"}
AdderPCs == {"idle", "lock", "test", "early", "clear", "signal", "unlock"}
AdminPCs == {"unborn", "check", "nap", "lock", "unlock", "signal", "exit"}
OwnerPCs == {"start", "failed", "spawn", "ready", "shut", "join_admin",
             "broadcast", "join", "gone"}

TypeOK == /\ idx \in [{Owner, Admin} -> Nat] /\ idx[Admin] \in {1, 2} /\ idx[Owner] # 0
          /\ pc \in [Threads -> WorkerPCs \cup AdderPCs \cup AdminPCs \cup OwnerPCs]
          /\ \A w \in Workers : pc[w] \in WorkerPCs
          /\ \A a \in Adders : pc[a] \in AdderPCs
          /\ pc[Admin] \in AdminPCs
          /\ pc[Owner] \in OwnerPCs

\* Until a lock was unlocked by a thread that did not hold it, whoever is
\* inside holds the lock; and that can only have been an add_task that met
\* a pool shut down.  Before the shutdown, an add_task holds the lock up to
\* its one unlock.
LockInv == /\ unowned => shutdown
           /\ \A a \in Adders : pc[a] = "early" => shutdown
           /\ ~unowned => \A t \in Inside : lock = {t}
           /\ ~shutdown => \A a \in Adders :
                pc[a] \in {"clear", "signal", "unlock"} => lock = {a}

\* A thread that is not running: it will never touch the pool (again).
Idle(t) == pc[t] \in {"unborn", "exit"}

\* destory goes on only behind the threads it has joined.
JoinInv == /\ pc[Owner] \in {"broadcast", "join", "gone"} => Idle(Admin)
           /\ pc[Owner] = "join" => \A w \in Workers : w < idx[Owner] => Idle(w)
           /\ pc[Owner] = "gone" => \A w \in Workers : Idle(w)

\* The inductive invariant.
IInv == TypeOK /\ LockInv /\ JoinInv

LEMMA ThreadKinds ==
  /\ Owner # Admin
  /\ Owner \in Threads /\ Admin \in Threads
  /\ \A w \in Workers : w \in Threads /\ w \notin Adders /\ w # Owner /\ w # Admin
  /\ \A a \in Adders : a \in Threads /\ a \notin Workers /\ a # Owner /\ a # Admin
  /\ \A t \in Threads : t \in Workers \/ t \in Adders \/ t = Owner \/ t = Admin
  BY ThreadPool1Assumption DEF Threads

\* An unlock: whether the lock was its thread's is kept in unowned.
LEMMA ReleaseFacts ==
  ASSUME NEW t, Release(t)
  PROVE  /\ lock' = {}
         /\ ~unowned' => ~unowned /\ lock = {t}
         /\ unowned' => unowned \/ lock # {t}
  BY Zenon DEF Release

LEMMA InitEstablishesIInv == Init => IInv
<1> SUFFICES ASSUME Init PROVE IInv
  OBVIOUS
<1> USE ThreadKinds DEF Init
<1>1. /\ \A w \in Workers : pc[w] = "unborn"
      /\ \A a \in Adders : pc[a] = "idle"
      /\ pc[Owner] = "start" /\ pc[Admin] = "unborn"
  OBVIOUS
<1>2. TypeOK
  BY <1>1 DEF TypeOK, WorkerPCs, AdderPCs, AdminPCs, OwnerPCs
<1>3. LockInv
  BY <1>1 DEF LockInv, Inside
<1>4. JoinInv
  BY <1>1 DEF JoinInv
<1> QED
  BY <1>2, <1>3, <1>4 DEF IInv

\* A worker's step moves that worker alone.  It takes the lock when it is
\* free, and gives it back when it is inside.
LEMMA WorkerKeepsIInv ==
  ASSUME IInv, NEW w \in Workers, Worker(w) \/ Spurious(w)
  PROVE  IInv'
<1> USE ThreadKinds DEF IInv, TypeOK, WorkerPCs, AdderPCs, AdminPCs, OwnerPCs, Goto
<1>1. TypeOK'
  BY DEF Worker, WorkerLock, WorkerTest, WorkerWait, WorkerWakes, WorkerLeaves,
         Spurious, Release, pool, history
<1>2. LockInv'
  <2>1. CASE WorkerLock(w) \/ WorkerWakes(w)
    BY <2>1 DEF WorkerLock, WorkerWakes, LockInv, Inside, Acquire, pool, history
  <2>2. CASE WorkerTest(w) \/ Spurious(w)
    BY <2>2 DEF WorkerTest, Spurious, LockInv, Inside, pool, history
  <2>3. CASE WorkerWait(w) \/ WorkerLeaves(w)
    BY <2>3, ReleaseFacts DEF WorkerWait, WorkerLeaves, LockInv, Inside, pool, history
  <2> QED
    BY <2>1, <2>2, <2>3 DEF Worker
<1>3. JoinInv'
  BY DEF Worker, WorkerLock, WorkerTest, WorkerWait, WorkerWakes, WorkerLeaves,
         Spurious, JoinInv, Idle
<1> QED
  BY <1>1, <1>2, <1>3

LEMMA AdminKeepsIInv ==
  ASSUME IInv, AdminStep
  PROVE  IInv'
<1> USE ThreadKinds DEF IInv, TypeOK, WorkerPCs, AdderPCs, AdminPCs, OwnerPCs, Goto
<1>1. TypeOK'
  <2>1. CASE AdminCheck \/ AdminNap \/ AdminLock
    BY <2>1 DEF AdminCheck, AdminNap, AdminLock, pool, history
  <2>2. CASE AdminUnlock
    BY <2>2 DEF AdminUnlock, Release, pool, history
  <2>3. CASE AdminSignal
    BY <2>3 DEF AdminSignal, pool, history
  <2> QED
    BY <2>1, <2>2, <2>3 DEF AdminStep
<1>2. LockInv'
  <2>1. CASE AdminLock
    BY <2>1 DEF AdminLock, LockInv, Inside, Acquire, pool, history
  <2>2. CASE AdminUnlock
    BY <2>2, ReleaseFacts DEF AdminUnlock, LockInv, Inside, pool, history
  <2>3. CASE AdminCheck \/ AdminNap \/ AdminSignal
    BY <2>3 DEF AdminCheck, AdminNap, AdminSignal, LockInv, Inside, pool, history
  <2> QED
    BY <2>1, <2>2, <2>3 DEF AdminStep
<1>3. JoinInv'
  BY DEF AdminStep, AdminCheck, AdminNap, AdminLock, AdminUnlock, AdminSignal,
         JoinInv, Idle
<1> QED
  BY <1>1, <1>2, <1>3

\* An add_task that met a pool shut down unlocks twice: that is why unowned
\* may become true, and then shutdown is.
LEMMA AdderKeepsIInv ==
  ASSUME IInv, NEW a \in Adders, AddCall(a) \/ Adder(a)
  PROVE  IInv'
<1> USE ThreadKinds DEF IInv, TypeOK, WorkerPCs, AdderPCs, AdminPCs, OwnerPCs, Goto
<1>1. TypeOK'
  <2>1. CASE AddCall(a) \/ AddLock(a) \/ AddTest(a) \/ AddSignal(a)
    BY <2>1 DEF AddCall, AddLock, AddTest, AddSignal, pool, history
  <2>2. CASE AddUnlockEarly(a) \/ AddUnlock(a)
    BY <2>2 DEF AddUnlockEarly, AddUnlock, Release, pool, history
  <2>3. CASE AddClear(a)
    BY <2>3 DEF AddClear, Undefined, history
  <2>4. CASE AddTouchesFreed(a)
    BY <2>4 DEF AddTouchesFreed, Undefined, pool, history
  <2> QED
    BY <2>1, <2>2, <2>3, <2>4 DEF Adder
<1>2. LockInv'
  <2>1. CASE AddLock(a)
    BY <2>1 DEF AddLock, LockInv, Inside, Acquire, pool, history
  <2>2. CASE AddTest(a)
    BY <2>2 DEF AddTest, LockInv, Inside, pool, history
  <2>3. CASE AddUnlockEarly(a) \/ AddUnlock(a)
    BY <2>3, ReleaseFacts DEF AddUnlockEarly, AddUnlock, LockInv, Inside, pool, history
  <2>4. CASE AddClear(a) \/ AddTouchesFreed(a)
    BY <2>4 DEF AddClear, AddTouchesFreed, Undefined, LockInv, Inside, pool, history
  <2>5. CASE AddCall(a) \/ AddSignal(a)
    BY <2>5 DEF AddCall, AddSignal, LockInv, Inside, pool, history
  <2> QED
    BY <2>1, <2>2, <2>3, <2>4, <2>5 DEF Adder
<1>3. JoinInv'
  BY DEF Adder, AddCall, AddLock, AddTest, AddUnlockEarly, AddClear, AddSignal,
         AddUnlock, AddTouchesFreed, Undefined, JoinInv, Idle
<1> QED
  BY <1>1, <1>2, <1>3

\* destory joins one thread after the other; a thread that has not been
\* started never will be.
LEMMA OwnerKeepsIInv ==
  ASSUME IInv, OwnerStep \/ Destory
  PROVE  IInv'
<1> USE ThreadKinds, ThreadPool1Assumption DEF IInv, Goto
<1>1. TypeOK'
  <2> USE DEF TypeOK, WorkerPCs, AdderPCs, AdminPCs, OwnerPCs
  <2>1. CASE Creat
    BY <2>1 DEF Creat, Undefined, pool, history
  <2>2. CASE Spawn
    <3>1. idx[Owner] \in Workers
      BY <2>2 DEF Spawn, Workers
    <3> QED
      BY <2>2, <3>1 DEF Spawn, pool, history
  <2>3. CASE SpawnAdmin \/ Destory
    BY <2>3 DEF SpawnAdmin, Destory, pool, history
  <2>4. CASE Shut
    BY <2>4 DEF Shut, history
  <2>5. CASE JoinAdmin
    BY <2>5 DEF JoinAdmin, Undefined, pool, history
  <2>6. CASE Broadcast \/ BroadcastsDone
    BY <2>6 DEF Broadcast, BroadcastsDone, pool, history
  <2>7. CASE Join
    BY <2>7 DEF Join, Undefined, pool, history
  <2>8. CASE Free
    BY <2>8 DEF Free, pool, history
  <2> QED
    BY <2>1, <2>2, <2>3, <2>4, <2>5, <2>6, <2>7, <2>8 DEF OwnerStep
<1>2. LockInv'
  <2>1. /\ lock' = lock /\ unowned' = unowned /\ (shutdown => shutdown')
        /\ \A t \in Adders : pc'[t] = pc[t]
        /\ \A t \in Workers \cup {Admin} : pc'[t] \in {pc[t], "lock", "unborn", "check"}
    <3> USE DEF TypeOK
    <3>1. CASE Creat \/ Shut \/ Destory \/ JoinAdmin \/ Join \/ Free
      BY <3>1 DEF Creat, Shut, Destory, JoinAdmin, Join, Free, Undefined, pool, history
    <3>2. CASE Spawn
      <4>1. idx[Owner] \in Workers
        BY <3>2 DEF Spawn, Workers
      <4> QED
        BY <3>2, <4>1 DEF Spawn, pool, history
    <3>3. CASE SpawnAdmin
      BY <3>3 DEF SpawnAdmin, pool, history
    <3>4. CASE Broadcast \/ BroadcastsDone
      BY <3>4 DEF Broadcast, BroadcastsDone, pool, history
    <3> QED
      BY <3>1, <3>2, <3>3, <3>4 DEF OwnerStep
  <2>2. \A t \in Inside' : t \in Inside
    BY <2>1 DEF Inside
  <2> QED
    BY <2>1, <2>2 DEF LockInv
<1>3. JoinInv'
  <2> USE DEF TypeOK, JoinInv, Idle
  <2>1. CASE Creat \/ Spawn \/ SpawnAdmin \/ Shut \/ Destory
    BY <2>1 DEF Creat, Spawn, SpawnAdmin, Shut, Destory, Undefined, Workers
  <2>2. CASE JoinAdmin
    BY <2>2 DEF JoinAdmin, Undefined
  <2>3. CASE Broadcast
    BY <2>3 DEF Broadcast
  <2>4. CASE BroadcastsDone
    BY <2>4 DEF BroadcastsDone, Workers
  <2>5. CASE Join
    <3>1. pc' = pc /\ Idle(idx[Owner]) /\ idx'[Owner] = idx[Owner] + 1
      BY <2>5 DEF Join, Undefined
    <3>2. pc[Owner] = "join"
      BY <2>5 DEF Join
    <3> QED
      BY <3>1, <3>2 DEF Workers
  <2>6. CASE Free
    BY <2>6 DEF Free, live_thr_num, Workers
  <2> QED
    BY <2>1, <2>2, <2>3, <2>4, <2>5, <2>6 DEF OwnerStep
<1> QED
  BY <1>1, <1>2, <1>3

LEMMA StepPreservesIInv == IInv /\ [Next]_vars => IInv'
<1> SUFFICES ASSUME IInv, [Next]_vars PROVE IInv'
  OBVIOUS
<1>1. CASE UNCHANGED vars
  BY <1>1 DEF vars, pool, history, IInv, TypeOK, LockInv, JoinInv, Idle, Inside
<1> QED
  BY <1>1, WorkerKeepsIInv, AdminKeepsIInv, AdderKeepsIInv, OwnerKeepsIInv DEF Next

\* The inductive invariant holds in every reachable state.
THEOREM ThreadPool1Invariant == Spec => []IInv
  BY InitEstablishesIInv, StepPreservesIInv, PTL DEF Spec

\* pool->lock excludes until an add_task on a pool shut down unlocks twice.
THEOREM LockExcludesUntilShutdown == Spec => []LockExcludes
<1>1. IInv => LockExcludes
  <2> SUFFICES ASSUME IInv, ~unowned, NEW t \in Inside, NEW u \in Inside
               PROVE  t = u
    BY DEF LockExcludes, IInv, LockInv
  <2>1. lock = {t} /\ lock = {u}
    BY DEF IInv, LockInv
  <2> QED
    BY <2>1
<1> QED
  BY <1>1, ThreadPool1Invariant, PTL

\* threadpool_destory frees the pool behind every thread of its own.
THEOREM FreedBehindThreads == Spec => []FreedAfterThreads
<1>1. IInv => FreedAfterThreads
  BY DEF IInv, JoinInv, Idle, FreedAfterThreads
<1> QED
  BY <1>1, ThreadPool1Invariant, PTL

=============================================================================
