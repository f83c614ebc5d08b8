------------------------------ MODULE ThreadPool2 ------------------------------
(***************************************************************************)
(* The thread pool of ThreadPool2.0/ThreadPool.c over the task queue of    *)
(* ThreadPool2.0/task_queue.c.                                             *)
(*                                                                         *)
(* Three kinds of threads meet here: the owner, which creates the pool,    *)
(* terminates it and waits for it; the posters, which post tasks; and the  *)
(* workers.  add_task and pop_task take effect in one step each, which is  *)
(* what TaskList is shown to implement; what is fine-grained here is what  *)
(* happens around them: the signal of add_task comes after the list lock   *)
(* is released and without the mutex, and get_task looks at the list       *)
(* before it takes the mutex.                                              *)
(*                                                                         *)
(* The clients keep to what the interface can support: they post only to   *)
(* a pool that was created, terminate it once at most, and call            *)
(* thread_pool_waitdone, which frees the pool, when no post is under way   *)
(* and none will follow.  Handlers return.                                 *)
(***************************************************************************)
EXTENDS Integers, Sequences, FiniteSets, Functions, QueueLemmas, TLAPS

CONSTANTS
  NWorkers,   \* thread_count
  Posters,    \* the threads that call thread_pool_post
  Owner,      \* the thread that creates and ends the pool
  Tasks,      \* the addresses malloc returns for task_t
  NULL,
  Junk        \* a stack word that is neither NULL nor the address of a task

Workers == 1 .. NWorkers
Threads == {Owner} \cup Posters \cup Workers

ASSUME ThreadPool2Assumption ==
  /\ NWorkers \in Nat
  /\ NULL \notin Tasks /\ Junk \notin Tasks /\ NULL # Junk
  /\ (Tasks \cup {NULL}) \cap {"pool", "queue", "threads"} = {}
  /\ Owner \notin Posters
  /\ ({Owner} \cup Posters) \cap Workers = {}

VARIABLES
  quit,     \* thread_pool->quit
  started,  \* the threads created so far; thread_count when that is done
  block,    \* task_queue->block
  queue,    \* the tasks in the list
  mutex,    \* the holder of task_queue->mutex
  asleep,   \* the threads asleep on task_queue->cond
  pc,       \* where each thread is
  op,       \* the call the owner is in
  idx,      \* the owner's loop counter
  task,     \* a thread's local variable task
  heap,     \* what is allocated: the pool, the queue, the array, and tasks
  joined,   \* the workers that were joined
  ran,      \* history: how often each task was run
  missed    \* history: a signal found nobody asleep, but somebody about to be

flags == <<quit, started, block>>
ends == <<op, idx, heap, joined>>
vars == <<flags, queue, mutex, asleep, pc, task, ends, ran, missed>>

Mutex == INSTANCE Mutex WITH holders <- mutex
Cond == INSTANCE CondVar

WorkerPCs == {"unborn", "check", "pop", "lock", "test", "wait", "sleep",
              "unlock", "unlock_null", "run", "exit"}
PosterPCs == {"idle", "alloc", "add", "signal"}
OwnerPCs == {"start", "spawn", "ready", "quit", "t_lock", "t_block", "t_unlock",
             "broadcast", "join", "destroy", "drain", "free", "failed", "done",
             "crashed"}

Init == /\ quit = 0 /\ started = 0 /\ block = 1
        /\ queue = <<>>
        /\ Mutex!Init
        /\ Cond!Init
        /\ pc = [t \in Threads |-> CASE t = Owner -> "start"
                                     [] t \in Posters -> "idle"
                                     [] OTHER -> "unborn"]
        /\ op = "create"
        /\ idx = 1
        /\ task = [t \in Threads |-> NULL]
        /\ heap = {}
        /\ joined = {}
        /\ ran = [x \in Tasks |-> 0]
        /\ missed = FALSE

\* Undefined behaviour has brought the process down.
Running == pc[Owner] # "crashed"

Goto(t, from, to) == Running /\ pc[t] = from /\ pc' = [pc EXCEPT ![t] = to]

-----------------------------------------------------------------------------
(* __thrdpool_worker and get_task *)

\* while (atomic_load(&thread_pool->quit) == 0)
CheckQuit(w) ==
  /\ Goto(w, "check", IF quit = 0 THEN "pop" ELSE "exit")
  /\ UNCHANGED <<flags, queue, mutex, asleep, task, ends, ran, missed>>

\* pop_task
PopTask(w) ==
  /\ Goto(w, "pop", "run")
  /\ queue # <<>>
  /\ task' = [task EXCEPT ![w] = Head(queue)]
  /\ queue' = Tail(queue)
  /\ UNCHANGED <<flags, mutex, asleep, ends, ran, missed>>

PopNothing(w) ==
  /\ Goto(w, "pop", "lock")
  /\ queue = <<>>
  /\ UNCHANGED <<flags, queue, mutex, asleep, task, ends, ran, missed>>

WorkerLock(w) ==
  /\ Goto(w, "lock", "test")
  /\ Mutex!Acquire(w)
  /\ UNCHANGED <<flags, queue, asleep, task, ends, ran, missed>>

\* if (task_queue->block == 0)
TestBlock(w) ==
  /\ Goto(w, "test", IF block = 0 THEN "unlock_null" ELSE "wait")
  /\ UNCHANGED <<flags, queue, mutex, asleep, task, ends, ran, missed>>

\* pthread_cond_wait gives up the mutex and sleeps in one step ...
CondWait(w) ==
  /\ Goto(w, "wait", "sleep")
  /\ Mutex!Release(w)
  /\ Cond!Wait(w)
  /\ UNCHANGED <<flags, queue, task, ends, ran, missed>>

Spurious(w) ==
  /\ Running
  /\ Cond!WakeSpuriously(w)
  /\ UNCHANGED <<flags, queue, mutex, pc, task, ends, ran, missed>>

\* ... and returns holding it again.
WakeUp(w) ==
  /\ Goto(w, "sleep", "unlock")
  /\ w \notin asleep
  /\ Mutex!Acquire(w)
  /\ UNCHANGED <<flags, queue, asleep, task, ends, ran, missed>>

WorkerUnlock(w) ==
  /\ Goto(w, "unlock", "pop")
  /\ Mutex!Release(w)
  /\ UNCHANGED <<flags, queue, asleep, task, ends, ran, missed>>

\* get_task returns NULL and the worker leaves its loop.
GetNothing(w) ==
  /\ Goto(w, "unlock_null", "exit")
  /\ Mutex!Release(w)
  /\ UNCHANGED <<flags, queue, asleep, task, ends, ran, missed>>

\* func(ctx).  The task is not freed.
RunTask(w) ==
  /\ Goto(w, "run", "check")
  /\ ran' = [ran EXCEPT ![task[w]] = @ + 1]
  /\ task' = [task EXCEPT ![w] = NULL]
  /\ UNCHANGED <<flags, queue, mutex, asleep, ends, missed>>

Worker(w) == \/ CheckQuit(w) \/ PopTask(w) \/ PopNothing(w) \/ WorkerLock(w)
             \/ TestBlock(w) \/ CondWait(w) \/ WakeUp(w) \/ WorkerUnlock(w)
             \/ GetNothing(w) \/ RunTask(w)

-----------------------------------------------------------------------------
(* thread_pool_post *)

\* The pool was created and its owner is not waiting for its end.
Usable == op \in {"none", "terminate"}

\* if (atomic_load(&thread_pool->quit) == 1) return -1;
Post(p) ==
  /\ Usable
  /\ Goto(p, "idle", IF quit = 1 THEN "idle" ELSE "alloc")
  /\ UNCHANGED <<flags, queue, mutex, asleep, task, ends, ran, missed>>

\* Faulty form: the task is not allocated for each post.
AllocStatic(p) ==
  /\ Goto(p, "alloc", "add")
  /\ \E x \in Tasks : task' = [task EXCEPT ![p] = x] /\ heap' = heap \cup {x}
  /\ UNCHANGED <<flags, queue, mutex, asleep, op, idx, joined, ran, missed>>

\* malloc(sizeof(task_t)), which may fail: the post then returns -1.
AllocTask(p) ==
  /\ \/ /\ Goto(p, "alloc", "add")
        /\ \E x \in Tasks \ heap :
             task' = [task EXCEPT ![p] = x] /\ heap' = heap \cup {x}
     \/ /\ Goto(p, "alloc", "idle")
        /\ UNCHANGED <<task, heap>>
  /\ UNCHANGED <<flags, queue, mutex, asleep, op, idx, joined, ran, missed>>

AddTask(p) ==
  /\ Goto(p, "add", "signal")
  /\ queue' = Append(queue, task[p])
  /\ task' = [task EXCEPT ![p] = NULL]
  /\ UNCHANGED <<flags, mutex, asleep, ends, ran, missed>>

\* Faulty form: add_task does not signal.
SignalMissing(p) ==
  /\ Goto(p, "signal", "idle")
  /\ UNCHANGED <<flags, queue, mutex, asleep, task, ends, ran, missed>>

\* The workers that have found the list empty and are not asleep yet.
AboutToSleep == {w \in Workers : pc[w] \in {"lock", "test", "wait"}}

\* pthread_cond_signal, without the mutex.
SignalTask(p) ==
  /\ Goto(p, "signal", "idle")
  /\ Cond!Signal
  /\ missed' = (missed \/ (asleep = {} /\ AboutToSleep # {}))
  /\ UNCHANGED <<flags, queue, mutex, task, ends, ran>>

Poster(p) == Post(p) \/ AllocTask(p) \/ AddTask(p) \/ SignalTask(p)

-----------------------------------------------------------------------------
(* thread_pool_create *)

\* The allocations and the initialisations that come before the threads:
\* without the pool or the queue, create returns at once; without the
\* attributes or the array, it goes on to destroy the queue.
Create ==
  /\ Running /\ pc[Owner] = "start"
  /\ \E next \in {"failed", "destroy", "spawn"} :
       /\ pc' = [pc EXCEPT ![Owner] = next]
       /\ heap' = CASE next = "failed"  -> {}
                     [] next = "destroy" -> {"pool", "queue"}
                     [] OTHER            -> {"pool", "queue", "threads"}
  /\ UNCHANGED <<flags, queue, mutex, asleep, task, op, idx, joined, ran, missed>>

\* pthread_create starts the next worker ...
Spawn ==
  /\ Running /\ pc[Owner] = "spawn"
  /\ started < NWorkers
  /\ started' = started + 1
  /\ pc' = [pc EXCEPT ![started + 1] = "check"]
  /\ UNCHANGED <<quit, block, queue, mutex, asleep, task, ends, ran, missed>>

\* ... or fails, and the workers started so far are terminated.
SpawnFails ==
  /\ Goto(Owner, "spawn", "quit")
  /\ started < NWorkers
  /\ UNCHANGED <<flags, queue, mutex, asleep, task, ends, ran, missed>>

Created ==
  /\ Goto(Owner, "spawn", "ready")
  /\ started = NWorkers
  /\ op' = "none"
  /\ UNCHANGED <<flags, queue, mutex, asleep, task, idx, heap, joined, ran, missed>>

-----------------------------------------------------------------------------
(* __threads_terminate and thread_pool_terminate, and nonblock *)

Terminate ==
  /\ op = "none"
  /\ quit = 0
  /\ Goto(Owner, "ready", "quit")
  /\ op' = "terminate"
  /\ UNCHANGED <<flags, queue, mutex, asleep, task, idx, heap, joined, ran, missed>>

StoreQuit ==
  /\ Goto(Owner, "quit", "t_lock")
  /\ quit' = 1
  /\ UNCHANGED <<started, block, queue, mutex, asleep, task, ends, ran, missed>>

\* Faulty form: block is cleared without the mutex.
NonblockLockMissing ==
  /\ Goto(Owner, "t_lock", "broadcast")
  /\ block' = 0
  /\ UNCHANGED <<quit, started, queue, mutex, asleep, task, ends, ran, missed>>

NonblockLock ==
  /\ Goto(Owner, "t_lock", "t_block")
  /\ Mutex!Acquire(Owner)
  /\ UNCHANGED <<flags, queue, asleep, task, ends, ran, missed>>

NonblockClear ==
  /\ Goto(Owner, "t_block", "t_unlock")
  /\ block' = 0
  /\ UNCHANGED <<quit, started, queue, mutex, asleep, task, ends, ran, missed>>

NonblockUnlock ==
  /\ Goto(Owner, "t_unlock", "broadcast")
  /\ Mutex!Release(Owner)
  /\ UNCHANGED <<flags, queue, asleep, task, ends, ran, missed>>

NonblockBroadcast ==
  /\ Goto(Owner, "broadcast", "join")
  /\ Cond!Broadcast
  /\ idx' = 1
  /\ UNCHANGED <<flags, queue, mutex, task, op, heap, joined, ran, missed>>

\* Faulty form: threads that are still running are detached, not joined.
JoinDetaches ==
  /\ Running /\ pc[Owner] = "join" /\ idx <= started
  /\ joined' = joined \cup {idx}
  /\ idx' = idx + 1
  /\ UNCHANGED <<flags, queue, mutex, asleep, pc, task, op, heap, ran, missed>>

\* pthread_join waits for the next worker.
Join ==
  /\ Running /\ pc[Owner] = "join" /\ idx <= started
  /\ idx \notin joined
  /\ pc[idx] = "exit"
  /\ joined' = joined \cup {idx}
  /\ idx' = idx + 1
  /\ UNCHANGED <<flags, queue, mutex, asleep, pc, task, op, heap, ran, missed>>

\* Joining a thread a second time is undefined: an error comes back, which
\* nobody looks at, or the process dies.
JoinAgain ==
  /\ Running /\ pc[Owner] = "join" /\ idx <= started
  /\ idx \in joined
  /\ idx' = idx + 1
  /\ \/ UNCHANGED pc
     \/ pc' = [pc EXCEPT ![Owner] = "crashed"]
  /\ UNCHANGED <<flags, queue, mutex, asleep, task, op, heap, joined, ran, missed>>

\* Everybody is joined: the caller goes on, and create frees the array.
Joined ==
  /\ idx > started
  /\ Goto(Owner, "join", IF op = "terminate" THEN "ready" ELSE "destroy")
  /\ op' = IF op = "terminate" THEN "none" ELSE op
  /\ heap' = IF op = "create" THEN heap \ {"threads"} ELSE heap
  /\ UNCHANGED <<flags, queue, mutex, asleep, task, idx, joined, ran, missed>>

-----------------------------------------------------------------------------
(* thread_pool_waitdone and task_queue_destroy *)

\* Faulty form: the threads are not waited for.
WaitdoneWithoutJoin ==
  /\ op = "none"
  /\ \A p \in Posters : pc[p] = "idle"
  /\ Goto(Owner, "ready", "destroy")
  /\ op' = "waitdone"
  /\ UNCHANGED <<flags, queue, mutex, asleep, task, idx, heap, joined, ran, missed>>

Waitdone ==
  /\ op = "none"
  /\ \A p \in Posters : pc[p] = "idle"
  /\ Goto(Owner, "ready", "join")
  /\ op' = "waitdone"
  /\ idx' = 1
  /\ UNCHANGED <<flags, queue, mutex, asleep, task, heap, joined, ran, missed>>

\* The local variable task of task_queue_destroy is never assigned.
Destroy ==
  /\ Goto(Owner, "destroy", "drain")
  /\ \E word \in Tasks \cup {NULL, Junk} : task' = [task EXCEPT ![Owner] = word]
  /\ UNCHANGED <<flags, queue, mutex, asleep, ends, ran, missed>>

\* while ((task == pop_task(task_queue))) free(task): a comparison, so a task
\* that happens to equal the stack word is freed, any other is lost and ends
\* the loop, and a word that is NULL never leaves an empty list.
Drain ==
  LET popped == IF queue = <<>> THEN NULL ELSE Head(queue)
  IN  /\ Running /\ pc[Owner] = "drain"
      /\ queue' = IF queue = <<>> THEN queue ELSE Tail(queue)
      /\ IF task[Owner] = popped
           THEN heap' = heap \ {popped} /\ UNCHANGED pc
           ELSE heap' = heap \ {"queue"} /\ pc' = [pc EXCEPT ![Owner] = "free"]
      /\ UNCHANGED <<flags, mutex, asleep, task, op, idx, joined, ran, missed>>

\* thread_pool_waitdone frees the array as well as the pool.
Free ==
  /\ Goto(Owner, "free", IF op = "create" THEN "failed" ELSE "done")
  /\ heap' = heap \ (IF op = "create" THEN {"pool"} ELSE {"pool", "threads"})
  /\ UNCHANGED <<flags, queue, mutex, asleep, task, op, idx, joined, ran, missed>>

OwnerStep == \/ Create \/ Spawn \/ SpawnFails \/ Created
             \/ Terminate \/ StoreQuit \/ NonblockLock \/ NonblockClear
             \/ NonblockUnlock \/ NonblockBroadcast
             \/ Join \/ JoinAgain \/ Joined
             \/ Waitdone \/ Destroy \/ Drain \/ Free

Next == \/ \E w \in Workers : Worker(w) \/ Spurious(w)
        \/ \E p \in Posters : Poster(p)
        \/ OwnerStep

Spec == Init /\ [][Next]_vars

\* Threads that are not waiting for anything run on, and handlers return.
\* Clients are free to call or not; sleepers wake up for no reason finitely
\* often only.
Fairness ==
  /\ \A w \in Workers : WF_vars(Worker(w))
  /\ \A p \in Posters : WF_vars(AllocTask(p) \/ AddTask(p) \/ SignalTask(p))
  /\ WF_vars(OwnerStep /\ ~(Terminate \/ Waitdone))
  /\ <>[][\A w \in Workers : ~Spurious(w)]_vars

FairSpec == Spec /\ Fairness

-----------------------------------------------------------------------------
(* Properties *)

TypeOK ==
  /\ quit \in {0, 1} /\ started \in 0 .. NWorkers /\ block \in {0, 1}
  /\ queue \in Seq(Tasks)
  /\ mutex \in SUBSET Threads /\ asleep \in SUBSET Workers
  /\ pc \in [Threads -> WorkerPCs \cup PosterPCs \cup OwnerPCs]
  /\ \A w \in Workers : pc[w] \in WorkerPCs
  /\ \A p \in Posters : pc[p] \in PosterPCs
  /\ pc[Owner] \in OwnerPCs
  /\ op \in {"create", "none", "terminate", "waitdone"}
  /\ idx \in 1 .. NWorkers + 1
  /\ task \in [Threads -> Tasks \cup {NULL, Junk}]
  /\ heap \in SUBSET (Tasks \cup {"pool", "queue", "threads"})
  /\ joined \in SUBSET Workers
  /\ ran \in [Tasks -> Nat]
  /\ missed \in BOOLEAN

\* A task is run at most once, and until then it is in one place: in the
\* list, once, or with one thread.  (The list threads through the tasks
\* themselves, so a task in two places is a broken list.)
InHand(x) == {t \in Posters \cup Workers : task[t] = x}
EachTaskOnce ==
  \A x \in Tasks :
    /\ ran[x] <= 1
    /\ \A j, k \in DOMAIN queue : queue[j] = x /\ queue[k] = x => j = k
    /\ \A t, u \in InHand(x) : t = u
    /\ x \in Range(queue) => InHand(x) = {} /\ ran[x] = 0
    /\ InHand(x) # {} => ran[x] = 0

\* Until the queue is destroyed no accepted task is lost: what was allocated
\* is in the list, with a thread, or was run.
NoTaskLost ==
  op # "waitdone" =>
    \A x \in Tasks \cap heap : x \in Range(queue) \/ InHand(x) # {} \/ ran[x] = 1

\* Each task runs exactly once, as far as the pool gets: never twice, and it is
\* never lost.
TasksAreKept == EachTaskOnce /\ NoTaskLost

\* The pool's memory outlives everybody who uses it, and a create that
\* returns NULL leaves neither memory nor a thread behind.
Alive == {w \in Workers : pc[w] \notin {"unborn", "exit"}}
MemoryOutlivesUsers ==
  /\ Alive # {} \/ (\E p \in Posters : pc[p] # "idle") => {"pool", "queue"} \subseteq heap
  /\ pc[Owner] = "failed" => heap = {} /\ Alive = {}

\* With a task in the list, no post under way and no end in sight, some
\* worker is up and will look at the list; the one exception is a signal
\* that went out while a worker was between the list and its sleep.
Active == {w \in Workers : \/ pc[w] \in {"check", "pop", "unlock", "run"}
                           \/ pc[w] = "sleep" /\ w \notin asleep}
StrandedOnlyIfMissed ==
  quit = 0 /\ queue # <<>> /\ NWorkers > 0 /\ (\A p \in Posters : pc[p] # "signal")
    => Active # {} \/ missed

\* Once thread_pool_terminate has returned, no handler runs.
NoRunAfterTerminate == [][quit = 1 /\ op = "none" => ran' = ran]_vars

\* thread_pool_terminate returns, since no worker misses the broadcast; and so
\* does thread_pool_create, unless task_queue_destroy finds NULL in its
\* unassigned variable.
OwnerReturns ==
  /\ op = "terminate" ~> op # "terminate"
  /\ pc[Owner] = "spawn" ~> \/ op = "none" \/ pc[Owner] = "failed"
                            \/ pc[Owner] = "drain" /\ task[Owner] = NULL

\* A task in the list is taken, unless the pool is ended or a signal was
\* missed.
QueuedTaskIsTaken ==
  \A x \in Tasks :
    x \in Range(queue) ~> x \notin Range(queue) \/ quit = 1 \/ missed

\* Create, terminate and the tasks come to their end.
EverybodyGetsOn == OwnerReturns /\ QueuedTaskIsTaken

-----------------------------------------------------------------------------
(* Proofs, for any number of workers, posters and tasks                    *)
(*                                                                         *)
(* The signal of add_task can be lost in one way only.  The argument looks *)
(* at the last post that has not signalled yet: as long as there is one,   *)
(* somebody is still going to be woken; when its signal goes out and finds *)
(* a sleeper, that one is up and will look at the list; when it finds none *)
(* then either some worker is between the list and its sleep, which is the *)
(* lost wakeup, or every worker is up already.  A worker that finds the    *)
(* list empty changes nothing, because an empty list strands nobody.       *)
(*                                                                         *)
(* The rest is about ends: when the last thread is gone, what is allocated *)
(* until then, and where each task is.  These parts are proved each from   *)
(* the ones before it.                                                     *)

\* Only workers in pthread_cond_wait are asleep.
AsleepInv == \A w \in asleep : pc[w] = "sleep"

\* block is cleared, and workers leave, only after quit was set.
QuitInv == /\ block = 0 => quit = 1
           /\ \A w \in Workers : pc[w] \in {"exit", "unlock_null"} => quit = 1
           /\ pc[Owner] \in {"t_lock", "t_block"} => quit = 1

\* A poster at add has a task to add.
HandInv == \A p \in Posters : pc[p] = "add" => task[p] \in Tasks

\* Which calls the owner can be in at each point of its program; no task is
\* posted before the pool was created, and by then every worker was started.
OwnerInv ==
  /\ op = "none" <=> pc[Owner] = "ready"
  /\ pc[Owner] \in {"start", "spawn"} => op = "create"
  /\ op # "create" => started = NWorkers
  /\ op = "create" => queue = <<>> /\ \A p \in Posters : pc[p] = "idle"
  /\ \A w \in Workers : pc[w] = "unborn" <=> w > started

IInv == /\ TypeOK
        /\ AsleepInv
        /\ QuitInv
        /\ HandInv
        /\ OwnerInv
        /\ StrandedOnlyIfMissed

LEMMA ThreadKinds ==
  /\ Owner \in Threads /\ Posters \subseteq Threads /\ Workers \subseteq Threads
  /\ \A w \in Workers : w # Owner /\ w \notin Posters /\ w \in Nat
  /\ \A p \in Posters : p # Owner /\ p \notin Workers
  BY ThreadPool2Assumption DEF Threads, Workers

LEMMA InitEstablishesIInv == Init => IInv
<1> SUFFICES ASSUME Init PROVE IInv
  OBVIOUS
<1> USE ThreadPool2Assumption, ThreadKinds DEF Init, Mutex!Init, Cond!Init
<1>0. /\ pc[Owner] = "start"
      /\ \A p \in Posters : pc[p] = "idle"
      /\ \A w \in Workers : pc[w] = "unborn"
  OBVIOUS
<1>1. TypeOK
  <2>1. /\ queue \in Seq(Tasks)
        /\ task \in [Threads -> Tasks \cup {NULL, Junk}]
        /\ ran \in [Tasks -> Nat]
    BY EmptySeq
  <2>2. pc \in [Threads -> WorkerPCs \cup PosterPCs \cup OwnerPCs]
    BY DEF WorkerPCs, PosterPCs, OwnerPCs
  <2>3. pc[Owner] \in OwnerPCs /\ (\A p \in Posters : pc[p] \in PosterPCs)
        /\ (\A w \in Workers : pc[w] \in WorkerPCs)
    BY <1>0 DEF WorkerPCs, PosterPCs, OwnerPCs
  <2>4. quit \in {0, 1} /\ started \in 0 .. NWorkers /\ block \in {0, 1} /\ idx \in 1 .. NWorkers + 1
    OBVIOUS
  <2>5. missed \in BOOLEAN
    BY Zenon
  <2>6. /\ mutex \in SUBSET Threads /\ asleep \in SUBSET Workers
        /\ heap \in SUBSET (Tasks \cup {"pool", "queue", "threads"})
        /\ joined \in SUBSET Workers
        /\ op \in {"create", "none", "terminate", "waitdone"}
    OBVIOUS
  <2> QED
    BY <2>1, <2>2, <2>3, <2>4, <2>5, <2>6 DEF TypeOK
<1>2. AsleepInv /\ QuitInv /\ HandInv
  BY <1>0 DEF AsleepInv, QuitInv, HandInv
<1>3. OwnerInv
  BY <1>0 DEF OwnerInv, Workers
<1>4. StrandedOnlyIfMissed
  BY DEF StrandedOnlyIfMissed
<1> QED
  BY <1>1, <1>2, <1>3, <1>4 DEF IInv

-----------------------------------------------------------------------------
(* Each kind of step keeps the types *)

LEMMA WorkerKeepsTypes ==
  ASSUME TypeOK, NEW w \in Workers, Worker(w) \/ Spurious(w)
  PROVE  TypeOK'
<1> USE ThreadKinds DEF TypeOK, Goto, flags, ends, WorkerPCs
<1>1. CASE CheckQuit(w) \/ PopNothing(w) \/ TestBlock(w)
  BY <1>1 DEF CheckQuit, PopNothing, TestBlock
<1>2. CASE PopTask(w)
  <2>1. queue' \in Seq(Tasks) /\ Head(queue) \in Tasks
    BY <1>2, TailFacts DEF PopTask
  <2> QED
    BY <1>2, <2>1 DEF PopTask
<1>3. CASE WorkerLock(w) \/ WakeUp(w)
  BY SMTT(30), <1>3 DEF WorkerLock, WakeUp, Mutex!Acquire
<1>4. CASE WorkerUnlock(w) \/ GetNothing(w)
  BY <1>4 DEF WorkerUnlock, GetNothing, Mutex!Release
<1>5. CASE CondWait(w)
  BY <1>5 DEF CondWait, Mutex!Release, Cond!Wait
<1>6. CASE RunTask(w)
  <2>1. ran' = [x \in Tasks |-> IF x = task[w] THEN ran[x] + 1 ELSE ran[x]]
    BY <1>6 DEF RunTask
  <2>2. task' \in [Threads -> Tasks \cup {NULL, Junk}]
    BY <1>6 DEF RunTask
  <2>3. ran' \in [Tasks -> Nat]
    <3>1. \A x \in Tasks : ran[x] + 1 \in Nat /\ ran[x] \in Nat
      OBVIOUS
    <3> QED
      BY <2>1, <3>1
  <2> QED
    BY <1>6, <2>2, <2>3 DEF RunTask
<1>7. CASE Spurious(w)
  BY <1>7 DEF Spurious, Cond!WakeSpuriously
<1> QED
  BY <1>1, <1>2, <1>3, <1>4, <1>5, <1>6, <1>7 DEF Worker

LEMMA PosterKeepsTypes ==
  ASSUME TypeOK, HandInv, NEW p \in Posters, Poster(p)
  PROVE  TypeOK'
<1> USE ThreadKinds DEF TypeOK, Goto, flags, ends, PosterPCs
<1>1. CASE Post(p)
  BY <1>1 DEF Post
<1>2. CASE AllocTask(p)
  BY SMTT(30), <1>2 DEF AllocTask
<1>3. CASE AddTask(p)
  BY <1>3, AppendFacts DEF AddTask, HandInv
<1>4. CASE SignalTask(p)
  BY <1>4 DEF SignalTask, Cond!Signal
<1> QED
  BY <1>1, <1>2, <1>3, <1>4 DEF Poster

LEMMA OwnerKeepsTypes ==
  ASSUME TypeOK, OwnerStep
  PROVE  TypeOK'
<1> USE ThreadKinds, ThreadPool2Assumption DEF TypeOK, Goto, flags, ends, OwnerPCs
<1>1. CASE Create
  BY <1>1 DEF Create
<1>2. CASE Spawn
  <2>1. started + 1 \in Workers
    BY <1>2 DEF Spawn, Workers
  <2> QED
    BY <1>2, <2>1 DEF Spawn, WorkerPCs
<1>3. CASE SpawnFails \/ Created
  BY <1>3 DEF SpawnFails, Created
<1>4. CASE Terminate \/ StoreQuit
  BY <1>4 DEF Terminate, StoreQuit
<1>5. CASE NonblockLock
  BY <1>5 DEF NonblockLock, Mutex!Acquire
<1>6. CASE NonblockClear
  BY <1>6 DEF NonblockClear
<1>7. CASE NonblockUnlock
  BY <1>7 DEF NonblockUnlock, Mutex!Release
<1>8. CASE NonblockBroadcast
  BY <1>8 DEF NonblockBroadcast, Cond!Broadcast
<1>9. CASE Join
  <2>1. idx \in Workers
    BY <1>9 DEF Join, Workers
  <2> QED
    BY <1>9, <2>1 DEF Join
<1>10. CASE JoinAgain
  <2>1. idx' \in 1 .. NWorkers + 1
    BY <1>10 DEF JoinAgain
  <2>2. CASE pc' = pc
    BY <1>10, <2>1, <2>2 DEF JoinAgain
  <2>3. CASE pc' = [pc EXCEPT ![Owner] = "crashed"]
    BY <1>10, <2>1, <2>3 DEF JoinAgain
  <2> QED
    BY <1>10, <2>2, <2>3 DEF JoinAgain
<1>11. CASE Joined
  BY <1>11 DEF Joined
<1>12. CASE Waitdone \/ Destroy
  <2>1. CASE Waitdone
    BY <2>1, 1 \in 1 .. NWorkers + 1 DEF Waitdone
  <2>2. CASE Destroy
    BY <2>2 DEF Destroy
  <2> QED
    BY <1>12, <2>1, <2>2
<1>13. CASE Drain
  <2>1. queue' \in Seq(Tasks)
    BY <1>13, TailFacts DEF Drain
  <2>2. heap' \in SUBSET (Tasks \cup {"pool", "queue", "threads"})
    BY <1>13 DEF Drain
  <2> QED
    BY <1>13, <2>1, <2>2 DEF Drain
<1>14. CASE Free
  BY <1>14 DEF Free
<1> QED
  BY <1>1, <1>2, <1>3, <1>4, <1>5, <1>6, <1>7, <1>8, <1>9, <1>10, <1>11,
     <1>12, <1>13, <1>14 DEF OwnerStep

-----------------------------------------------------------------------------
(* Each kind of step keeps the rest of the invariant *)

\* A step of thread t moves t and nobody else.
LEMMA PcStep ==
  ASSUME TypeOK, NEW t \in Threads, NEW p, pc' = [pc EXCEPT ![t] = p]
  PROVE  pc'[t] = p /\ \A u \in Threads \ {t} : pc'[u] = pc[u]
  BY DEF TypeOK

LEMMA WorkerKeepsInv ==
  ASSUME IInv, NEW w \in Workers, Worker(w)
  PROVE  AsleepInv' /\ QuitInv' /\ HandInv' /\ OwnerInv'
<1> USE ThreadKinds DEF IInv, Goto
<1>0. /\ pc'[w] # "unborn" /\ pc[w] # "unborn"
      /\ \A u \in Threads \ {w} : pc'[u] = pc[u]
  BY PcStep DEF Worker, CheckQuit, PopTask, PopNothing, WorkerLock, TestBlock,
     CondWait, WakeUp, WorkerUnlock, GetNothing, RunTask
<1>1. /\ UNCHANGED <<quit, started, block, op>>
      /\ asleep' \subseteq asleep \cup {w}
      /\ \A p \in Posters : task'[p] = task[p]
      /\ queue = <<>> => queue' = <<>>
  BY DEF Worker, CheckQuit, PopTask, PopNothing, WorkerLock, TestBlock,
     CondWait, Cond!Wait, WakeUp, WorkerUnlock, GetNothing, RunTask,
     flags, ends, TypeOK
<1>2. AsleepInv'
  <2>1. w \in asleep' => pc'[w] = "sleep"
    BY PcStep DEF AsleepInv, Worker, CheckQuit, PopTask, PopNothing, WorkerLock,
       TestBlock, CondWait, WakeUp, WorkerUnlock, GetNothing, RunTask, TypeOK
  <2> QED
    BY <1>0, <1>1, <2>1 DEF AsleepInv, TypeOK
<1>3. QuitInv'
  <2>1. pc'[w] \in {"exit", "unlock_null"} => quit = 1
    BY PcStep DEF QuitInv, Worker, CheckQuit, PopTask, PopNothing, WorkerLock,
       TestBlock, CondWait, WakeUp, WorkerUnlock, GetNothing, RunTask, TypeOK
  <2> QED
    BY <1>0, <1>1, <2>1 DEF QuitInv
<1>4. HandInv' /\ OwnerInv'
  BY <1>0, <1>1 DEF HandInv, OwnerInv
<1> QED
  BY <1>2, <1>3, <1>4

\* A worker that gives up being active has found the list empty.
LEMMA WorkerStrandsNobody ==
  ASSUME IInv, NEW w \in Workers, Worker(w)
  PROVE  StrandedOnlyIfMissed'
<1> USE ThreadKinds DEF IInv, Goto
<1>1. \A u \in Threads \ {w} : pc'[u] = pc[u]
  BY PcStep DEF Worker, CheckQuit, PopTask, PopNothing, WorkerLock, TestBlock,
     CondWait, WakeUp, WorkerUnlock, GetNothing, RunTask
<1>2. /\ UNCHANGED <<quit, missed>>
      /\ asleep' \subseteq asleep \cup {w}
      /\ queue = <<>> => queue' = <<>>
  BY DEF Worker, CheckQuit, PopTask, PopNothing, WorkerLock, TestBlock,
     CondWait, Cond!Wait, WakeUp, WorkerUnlock, GetNothing, RunTask, flags, TypeOK
<1>3. \A u \in Active : u # w => u \in Active'
  BY <1>1, <1>2 DEF Active
<1>4. quit = 0 /\ queue' # <<>> /\ w \in Active => w \in Active'
  BY PcStep DEF Active, AsleepInv, Worker, CheckQuit, PopTask, PopNothing,
     WorkerLock, TestBlock, CondWait, WakeUp, WorkerUnlock, GetNothing, RunTask,
     flags, TypeOK
<1> QED
  BY <1>1, <1>2, <1>3, <1>4 DEF StrandedOnlyIfMissed

LEMMA SpuriousKeepsInv ==
  ASSUME IInv, NEW w \in Workers, Spurious(w)
  PROVE  AsleepInv' /\ QuitInv' /\ HandInv' /\ OwnerInv' /\ StrandedOnlyIfMissed'
<1> USE DEF IInv, Spurious, Cond!WakeSpuriously, flags, ends
<1>1. AsleepInv' /\ QuitInv' /\ HandInv' /\ OwnerInv'
  BY DEF AsleepInv, QuitInv, HandInv, OwnerInv
<1>2. Active \subseteq Active'
  BY DEF Active
<1> QED
  BY <1>1, <1>2 DEF StrandedOnlyIfMissed

LEMMA PosterKeepsInv ==
  ASSUME IInv, NEW p \in Posters, Poster(p)
  PROVE  AsleepInv' /\ QuitInv' /\ HandInv' /\ OwnerInv'
<1> USE ThreadKinds DEF IInv, Goto
<1>0. \A u \in Threads \ {p} : pc'[u] = pc[u]
  BY PcStep DEF Poster, Post, AllocTask, AddTask, SignalTask
<1>1. /\ UNCHANGED <<quit, started, block, op>>
      /\ asleep' \subseteq asleep
      /\ \A q \in Posters \ {p} : task'[q] = task[q]
  BY DEF Poster, Post, AllocTask, AddTask, SignalTask, Cond!Signal, flags, ends, TypeOK
<1>2. op # "create"
  BY DEF Poster, Post, AllocTask, AddTask, SignalTask, Usable, OwnerInv
<1>3. AsleepInv' /\ QuitInv'
  BY <1>0, <1>1 DEF AsleepInv, QuitInv, TypeOK
<1>4. HandInv'
  <2>1. pc'[p] = "add" => task'[p] \in Tasks
    BY PcStep DEF Poster, Post, AllocTask, AddTask, SignalTask, TypeOK
  <2> QED
    BY <1>0, <1>1, <2>1 DEF HandInv
<1>5. OwnerInv'
  BY <1>0, <1>1, <1>2 DEF OwnerInv
<1> QED
  BY <1>3, <1>4, <1>5

\* A signal wakes a sleeper; without one either somebody is about to sleep,
\* and the signal is missed, or every worker is active.
LEMMA PosterStrandsNobody ==
  ASSUME IInv, NEW p \in Posters, Poster(p)
  PROVE  StrandedOnlyIfMissed'
<1> USE ThreadKinds DEF IInv, Goto
<1>1. CASE Post(p) \/ AllocTask(p)
  <2>1. pc[p] # "signal" /\ \A u \in Threads \ {p} : pc'[u] = pc[u]
    BY <1>1, PcStep DEF Post, AllocTask
  <2>2. UNCHANGED <<quit, missed, asleep, queue>>
    BY <1>1 DEF Post, AllocTask, flags
  <2>3. Active' = Active
    BY <2>1, <2>2 DEF Active
  <2> QED
    BY <2>1, <2>2, <2>3 DEF StrandedOnlyIfMissed
<1>2. CASE AddTask(p)
  BY <1>2, PcStep DEF AddTask, StrandedOnlyIfMissed
<1>3. CASE SignalTask(p)
  <2> SUFFICES ASSUME quit = 0, NWorkers > 0, ~missed'
               PROVE  Active' # {}
    BY <1>3 DEF SignalTask, StrandedOnlyIfMissed, flags
  <2>1. \A w \in Workers : pc'[w] = pc[w]
    BY <1>3, PcStep DEF SignalTask
  <2>2. CASE asleep # {}
    <3>1. PICK w \in asleep : w \notin asleep'
      BY <1>3, <2>2 DEF SignalTask, Cond!Signal
    <3> QED
      BY <2>1, <3>1 DEF Active, AsleepInv, TypeOK
  <2>3. CASE asleep = {}
    <3>1. 1 \in Workers /\ started = NWorkers
      BY <1>3, ThreadPool2Assumption DEF Workers, OwnerInv, SignalTask
    <3>2. pc[1] \in WorkerPCs
      BY <3>1 DEF TypeOK
    <3>3. pc[1] # "unborn"
      BY <3>1, ThreadPool2Assumption DEF OwnerInv
    <3>4. pc[1] \notin {"exit", "unlock_null"}
      BY <3>1 DEF QuitInv
    <3>5. pc[1] \notin {"lock", "test", "wait"}
      BY <1>3, <2>3, <3>1 DEF SignalTask, AboutToSleep
    <3>6. asleep' = {}
      BY <1>3, <2>3 DEF SignalTask, Cond!Signal
    <3> QED
      BY <2>1, <3>1, <3>2, <3>3, <3>4, <3>5, <3>6 DEF Active, WorkerPCs
  <2> QED
    BY <2>2, <2>3
<1> QED
  BY <1>1, <1>2, <1>3 DEF Poster

LEMMA OwnerKeepsInv ==
  ASSUME IInv, OwnerStep
  PROVE  AsleepInv' /\ QuitInv' /\ HandInv' /\ OwnerInv'
<1> USE ThreadKinds, ThreadPool2Assumption DEF IInv, Goto
<1>1. CASE Create \/ SpawnFails \/ Created
  BY <1>1, PcStep DEF Create, SpawnFails, Created, flags, ends, TypeOK,
     AsleepInv, QuitInv, HandInv, OwnerInv
<1>2. CASE Spawn
  <2>1. started + 1 \in Workers
    BY <1>2 DEF Spawn, Workers, TypeOK
  <2>2. pc'[started + 1] = "check" /\ \A u \in Threads \ {started + 1} : pc'[u] = pc[u]
    BY <1>2, <2>1, PcStep DEF Spawn
  <2>3. pc[started + 1] = "unborn"
    BY <2>1 DEF OwnerInv, TypeOK
  <2>4. AsleepInv' /\ QuitInv' /\ HandInv'
    BY <1>2, <2>1, <2>2, <2>3 DEF Spawn, ends, AsleepInv, QuitInv, HandInv, TypeOK
  <2>5. \A w \in Workers : pc'[w] = "unborn" <=> w > started'
    BY <1>2, <2>1, <2>2 DEF Spawn, OwnerInv, TypeOK, Workers
  <2>6. OwnerInv'
    BY <1>2, <2>1, <2>2, <2>5 DEF Spawn, ends, OwnerInv
  <2> QED
    BY <2>4, <2>6
<1>3. CASE Terminate \/ StoreQuit
  BY <1>3, PcStep DEF Terminate, StoreQuit, flags, ends, TypeOK,
     AsleepInv, QuitInv, HandInv, OwnerInv
<1>4. CASE NonblockLock \/ NonblockClear
  BY <1>4, PcStep DEF NonblockLock, NonblockClear, flags, ends, TypeOK,
     AsleepInv, QuitInv, HandInv, OwnerInv
<1>5. CASE NonblockUnlock \/ NonblockBroadcast
  BY <1>5, PcStep DEF NonblockUnlock, NonblockBroadcast, Cond!Broadcast, flags,
     ends, TypeOK, AsleepInv, QuitInv, HandInv, OwnerInv
<1>6. CASE Join \/ JoinAgain
  BY <1>6, PcStep DEF Join, JoinAgain, flags, ends, TypeOK,
     AsleepInv, QuitInv, HandInv, OwnerInv
<1>7. CASE Joined \/ Waitdone
  BY <1>7, PcStep DEF Joined, Waitdone, flags, ends, TypeOK,
     AsleepInv, QuitInv, HandInv, OwnerInv
<1>8. CASE Destroy \/ Free
  BY <1>8, PcStep DEF Destroy, Free, flags, ends, TypeOK,
     AsleepInv, QuitInv, HandInv, OwnerInv
<1>9. CASE Drain
  <2>1. /\ \A u \in Threads \ {Owner} : pc'[u] = pc[u]
        /\ pc[Owner] = "drain" /\ pc'[Owner] \in {"drain", "free"}
        /\ queue = <<>> => queue' = <<>>
        /\ UNCHANGED <<flags, asleep, task, op>>
    BY <1>9, PcStep DEF Drain
  <2> QED
    BY <2>1 DEF flags, AsleepInv, QuitInv, HandInv, OwnerInv, TypeOK
<1> QED
  BY <1>1, <1>2, <1>3, <1>4, <1>5, <1>6, <1>7, <1>8, <1>9 DEF OwnerStep

\* The owner wakes workers and puts none to sleep.
LEMMA OwnerStrandsNobody ==
  ASSUME IInv, OwnerStep
  PROVE  StrandedOnlyIfMissed'
<1> USE ThreadKinds DEF IInv, Goto
<1>1. CASE Spawn
  <2>1. queue' = <<>>
    BY <1>1 DEF Spawn, OwnerInv
  <2> QED
    BY <2>1 DEF StrandedOnlyIfMissed
<1>2. CASE ~Spawn
  <2>1. \A u \in Threads \ {Owner} : pc'[u] = pc[u]
    BY <1>2, PcStep DEF OwnerStep, Create, SpawnFails, Created, Terminate, StoreQuit,
       NonblockLock, NonblockClear, NonblockUnlock, NonblockBroadcast, Join,
       JoinAgain, Joined, Waitdone, Destroy, Drain, Free
  <2>2. /\ quit' = 0 => quit = 0
        /\ queue = <<>> => queue' = <<>>
        /\ asleep' \subseteq asleep
        /\ missed' = missed
    BY <1>2 DEF OwnerStep, Create, SpawnFails, Created, Terminate, StoreQuit,
       NonblockLock, NonblockClear, NonblockUnlock, NonblockBroadcast, Join,
       JoinAgain, Joined, Waitdone, Destroy, Drain, Free, Cond!Broadcast,
       flags, ends
  <2>3. Active \subseteq Active'
    BY <2>1, <2>2 DEF Active
  <2> QED
    BY <2>1, <2>2, <2>3 DEF StrandedOnlyIfMissed
<1> QED
  BY <1>1, <1>2

LEMMA StepPreservesIInv == IInv /\ [Next]_vars => IInv'
<1> SUFFICES ASSUME IInv, [Next]_vars PROVE IInv'
  OBVIOUS
<1>1. CASE UNCHANGED vars
  BY <1>1 DEF vars, flags, ends, IInv, TypeOK, AsleepInv, QuitInv, HandInv,
              OwnerInv, StrandedOnlyIfMissed, Active
<1>2. ASSUME NEW w \in Workers, Worker(w) PROVE IInv'
  BY <1>2, WorkerKeepsTypes, WorkerKeepsInv, WorkerStrandsNobody DEF IInv
<1>3. ASSUME NEW w \in Workers, Spurious(w) PROVE IInv'
  BY <1>3, WorkerKeepsTypes, SpuriousKeepsInv DEF IInv
<1>4. ASSUME NEW p \in Posters, Poster(p) PROVE IInv'
  BY <1>4, PosterKeepsTypes, PosterKeepsInv, PosterStrandsNobody DEF IInv
<1>5. CASE OwnerStep
  BY <1>5, OwnerKeepsTypes, OwnerKeepsInv, OwnerStrandsNobody DEF IInv
<1> QED
  BY <1>1, <1>2, <1>3, <1>4, <1>5 DEF Next

\* The inductive invariant, and with it the types, in every reachable state.
THEOREM ThreadPool2Invariant == Spec => []IInv
  BY InitEstablishesIInv, StepPreservesIInv, PTL DEF Spec

\* A queued task is left to sleeping workers only by a signal that was sent
\* while a worker was between its look at the list and its sleep.
THEOREM OnlyAMissedSignalStrands == Spec => []StrandedOnlyIfMissed
<1>1. IInv => StrandedOnlyIfMissed
  BY DEF IInv
<1> QED
  BY <1>1, ThreadPool2Invariant, PTL

-----------------------------------------------------------------------------
(* The end of the threads, of the memory and of each task                  *)
(*                                                                         *)
(* The invariant above says nothing of how far the owner has come.  What   *)
(* follows rests on it: whoever has been joined has left its loop, and the *)
(* loop index tells who was; when the owner is past its loop, no worker is *)
(* alive; and the owner frees only then.                                   *)

Terminating == {"quit", "t_lock", "t_block", "t_unlock", "broadcast", "join"}
Ending == {"destroy", "drain", "free", "failed", "done"}

\* Which points of the owner's program belong to which call; posters are in
\* thread_pool_post only while the pool is in use; and a worker that was
\* joined, or that the loop has passed, is at its end.
JoinInv ==
  /\ pc[Owner] \in {"start", "spawn"} => quit = 0
  /\ pc[Owner] = "start" => started = 0
  /\ op = "terminate" => pc[Owner] \in Terminating \cup {"crashed"}
  /\ op = "waitdone" => pc[Owner] \in {"join", "crashed"} \cup (Ending \ {"failed"})
  /\ op = "create" => pc[Owner] # "done"
  /\ op \in {"create", "waitdone"} => \A p \in Posters : pc[p] = "idle"
  /\ \A w \in joined : pc[w] = "exit"
  /\ pc[Owner] = "join" => \A w \in Workers : w < idx => w \in joined
  /\ pc[Owner] \in Ending \/ (quit = 1 /\ op = "none") => Alive = {}

\* What is allocated at each point of the owner's program.
HeapInv ==
  /\ pc[Owner] \in {"spawn", "ready", "destroy", "drain", "crashed"} \cup Terminating
       => {"pool", "queue"} \subseteq heap
  /\ pc[Owner] \in {"start", "failed"} => heap = {}
  /\ op = "create" /\ pc[Owner] \in Terminating \cup {"spawn"} => heap = {"pool", "queue", "threads"}
  /\ op = "create" /\ pc[Owner] \in {"destroy", "drain"} => heap = {"pool", "queue"}
  /\ op = "create" /\ pc[Owner] = "free" => heap = {"pool"}

\* Workers have a task exactly while they run it, and posters from malloc to
\* add_task.
HandsInv ==
  /\ \A w \in Workers : IF pc[w] = "run" THEN task[w] \in Tasks ELSE task[w] = NULL
  /\ \A p \in Posters : IF pc[p] = "add" THEN task[p] \in Tasks ELSE task[p] = NULL

\* No task is twice in the list.
Once(q) == \A j, k \in DOMAIN q : q[j] = q[k] => j = k

\* A task that was allocated, and nothing else, is in one place: in the list,
\* with one thread, or behind it, run.
OnePlace(x) ==
  /\ ran[x] <= 1
  /\ \A t, u \in InHand(x) : t = u
  /\ x \in Range(queue) => InHand(x) = {} /\ ran[x] = 0
  /\ InHand(x) # {} => ran[x] = 0
  /\ op # "waitdone" => (x \in heap <=> x \in Range(queue) \/ InHand(x) # {} \/ ran[x] # 0)

TaskInv == HandsInv /\ Once(queue) /\ \A x \in Tasks : OnePlace(x)

KInv == IInv /\ JoinInv /\ HeapInv /\ TaskInv

LEMMA InitEstablishesKInv == Init => KInv
<1> SUFFICES ASSUME Init PROVE KInv
  OBVIOUS
<1> USE ThreadPool2Assumption, ThreadKinds
<1>0. /\ pc[Owner] = "start"
      /\ \A p \in Posters : pc[p] = "idle" /\ task[p] = NULL
      /\ \A w \in Workers : pc[w] = "unborn" /\ task[w] = NULL
      /\ op = "create" /\ quit = 0 /\ started = 0 /\ queue = <<>> /\ heap = {}
      /\ joined = {}
      /\ \A x \in Tasks : ran[x] = 0
  BY DEF Init
<1>1. IInv
  BY InitEstablishesIInv
<1>2. JoinInv
  BY <1>0 DEF JoinInv, Alive, Ending
<1>3. HeapInv
  BY <1>0 DEF HeapInv, Terminating
<1>4. Range(queue) = {} /\ DOMAIN queue = {}
  BY <1>0, EmptySeq, RangeFacts DEF Range
<1>5. \A x \in Tasks : InHand(x) = {}
  BY <1>0 DEF InHand
<1>6. TaskInv
  BY <1>0, <1>4, <1>5 DEF TaskInv, HandsInv, Once, OnePlace
<1> QED
  BY <1>1, <1>2, <1>3, <1>6 DEF KInv

-----------------------------------------------------------------------------
(* How far the owner has come *)

LEMMA WorkerKeepsJoinInv ==
  ASSUME IInv, JoinInv, NEW w \in Workers, Worker(w)
  PROVE  JoinInv'
<1> USE ThreadKinds
<1>1. /\ pc[w] \notin {"unborn", "exit"}
      /\ \A u \in Threads \ {w} : pc'[u] = pc[u]
      /\ UNCHANGED <<quit, started, op, idx, joined>>
  BY PcStep DEF IInv, Goto, flags, ends, Worker, CheckQuit, PopTask, PopNothing,
     WorkerLock, TestBlock, CondWait, WakeUp, WorkerUnlock, GetNothing, RunTask
<1>2. w \notin joined /\ w \in Alive
  BY <1>1 DEF JoinInv, Alive
<1>3. joined \subseteq Workers
  BY DEF IInv, TypeOK
<1>4. ~(pc[Owner] \in Ending \/ (quit = 1 /\ op = "none"))
  BY <1>2 DEF JoinInv
<1>5. pc'[Owner] = pc[Owner] /\ \A p \in Posters : pc'[p] = pc[p]
  BY <1>1
<1>6. \A u \in joined : pc'[u] = pc[u]
  BY <1>1, <1>2, <1>3
<1> QED
  BY <1>1, <1>4, <1>5, <1>6 DEF JoinInv

LEMMA PosterKeepsJoinInv ==
  ASSUME IInv, JoinInv, NEW p \in Posters, Poster(p)
  PROVE  JoinInv'
<1> USE ThreadKinds
<1>1. /\ \A u \in Threads \ {p} : pc'[u] = pc[u]
      /\ UNCHANGED <<quit, started, op, idx, joined>>
      /\ op \notin {"create", "waitdone"}
  BY PcStep DEF IInv, Goto, flags, ends, Poster, Post, AllocTask, AddTask,
     SignalTask, Usable, JoinInv
<1>2. pc'[Owner] = pc[Owner] /\ \A w \in Workers : pc'[w] = pc[w]
  BY <1>1
<1>3. Alive' = Alive
  BY <1>2 DEF Alive
<1>4. joined \subseteq Workers
  BY DEF IInv, TypeOK
<1> QED
  BY <1>1, <1>2, <1>3, <1>4 DEF JoinInv

\* Steps of the owner that move nobody else, and neither join nor return.
LEMMA OwnerMovesOn ==
  ASSUME IInv, JoinInv,
         \/ StoreQuit \/ NonblockLock \/ NonblockClear \/ NonblockUnlock
         \/ Destroy \/ Drain \/ Free
  PROVE  JoinInv'
<1> USE ThreadKinds
<1>1. /\ \A u \in Threads \ {Owner} : pc'[u] = pc[u]
      /\ UNCHANGED <<started, op, idx, joined>>
      /\ \/ pc[Owner] = "quit" /\ pc'[Owner] = "t_lock"
         \/ pc[Owner] = "t_lock" /\ pc'[Owner] = "t_block"
         \/ pc[Owner] = "t_block" /\ pc'[Owner] = "t_unlock"
         \/ pc[Owner] = "t_unlock" /\ pc'[Owner] = "broadcast"
         \/ pc[Owner] = "destroy" /\ pc'[Owner] = "drain"
         \/ pc[Owner] = "drain" /\ pc'[Owner] \in {"drain", "free"}
         \/ pc[Owner] = "free" /\ pc'[Owner] = "failed" /\ op = "create"
         \/ pc[Owner] = "free" /\ pc'[Owner] = "done" /\ op # "create"
      /\ pc[Owner] = "quit" \/ quit' = quit
  BY PcStep DEF IInv, Goto, flags, ends, StoreQuit, NonblockLock, NonblockClear,
     NonblockUnlock, Destroy, Drain, Free
<1>2. /\ \A w \in Workers : pc'[w] = pc[w]
      /\ \A p \in Posters : pc'[p] = pc[p]
  BY <1>1
<1>3. Alive' = Alive /\ joined \subseteq Workers
  BY <1>2 DEF Alive, IInv, TypeOK
<1>4. op # "none"
  BY <1>1 DEF IInv, OwnerInv
<1>5. op = "waitdone" => pc[Owner] \in {"destroy", "drain", "free"}
  BY <1>1 DEF JoinInv, Ending
<1>6. op = "terminate" => pc[Owner] \in Terminating
  BY <1>1 DEF JoinInv
<1> QED
  BY <1>1, <1>2, <1>3, <1>4, <1>5, <1>6 DEF JoinInv, Terminating, Ending

LEMMA OwnerKeepsJoinInv ==
  ASSUME IInv, JoinInv, OwnerStep
  PROVE  JoinInv'
<1> USE ThreadKinds, ThreadPool2Assumption
<1>0. joined \subseteq Workers /\ started \in 0 .. NWorkers /\ idx \in 1 .. NWorkers + 1
  BY DEF IInv, TypeOK
<1>1. CASE Create
  <2>1. /\ \A u \in Threads \ {Owner} : pc'[u] = pc[u]
        /\ pc[Owner] = "start" /\ pc'[Owner] \in {"failed", "destroy", "spawn"}
        /\ UNCHANGED <<quit, started, op, idx, joined>>
    BY <1>1, PcStep DEF IInv, Create, flags, ends
  <2>2. started = 0 /\ quit = 0 /\ op = "create"
    BY <2>1 DEF JoinInv, IInv, OwnerInv
  <2>3. \A w \in Workers : pc'[w] = pc[w] /\ pc[w] = "unborn"
    BY <2>1, <2>2 DEF IInv, OwnerInv, Workers
  <2>4. Alive' = {}
    BY <2>3 DEF Alive
  <2> QED
    BY <1>0, <2>1, <2>2, <2>3, <2>4 DEF JoinInv
<1>2. CASE Spawn
  <2>1. started + 1 \in Workers
    BY <1>0, <1>2 DEF Spawn, Workers
  <2>2. /\ pc'[started + 1] = "check"
        /\ \A u \in Threads \ {started + 1} : pc'[u] = pc[u]
        /\ pc[Owner] = "spawn"
        /\ UNCHANGED <<quit, op, idx, joined>>
    BY <1>2, <2>1, PcStep DEF IInv, Spawn, ends
  <2>3. started + 1 \notin joined
    <3>1. pc[started + 1] = "unborn"
      BY <1>0, <2>1 DEF IInv, OwnerInv
    <3> QED
      BY <3>1 DEF JoinInv
  <2>4. /\ pc'[Owner] = "spawn"
        /\ \A p \in Posters : pc'[p] = pc[p]
        /\ \A w \in joined : pc'[w] = pc[w]
    BY <1>0, <2>1, <2>2, <2>3
  <2>5. quit = 0 /\ op = "create"
    BY <2>2 DEF JoinInv, IInv, OwnerInv
  <2> QED
    BY <2>2, <2>4, <2>5 DEF JoinInv, Terminating, Ending
<1>3. CASE SpawnFails \/ Created \/ Terminate \/ NonblockBroadcast \/ Waitdone
  <2>1. /\ \A u \in Threads \ {Owner} : pc'[u] = pc[u]
        /\ UNCHANGED <<quit, started, joined>>
        /\ \/ pc[Owner] = "spawn" /\ pc'[Owner] = "quit" /\ op' = op
           \/ pc[Owner] = "spawn" /\ pc'[Owner] = "ready" /\ op' = "none"
           \/ pc[Owner] = "ready" /\ pc'[Owner] = "quit" /\ op' = "terminate"
           \/ pc[Owner] = "broadcast" /\ pc'[Owner] = "join" /\ op' = op /\ idx' = 1
           \/ /\ pc[Owner] = "ready" /\ pc'[Owner] = "join"
              /\ op' = "waitdone" /\ idx' = 1
              /\ \A p \in Posters : pc[p] = "idle"
    BY <1>3, PcStep DEF IInv, Goto, flags, ends, SpawnFails, Created, Terminate,
       NonblockBroadcast, Waitdone
  <2>2. /\ \A w \in Workers : pc'[w] = pc[w]
        /\ \A p \in Posters : pc'[p] = pc[p]
    BY <2>1
  <2>3. pc[Owner] = "spawn" => quit = 0 /\ op = "create"
    BY DEF JoinInv, IInv, OwnerInv
  <2>4. pc[Owner] = "ready" => op = "none"
    BY DEF IInv, OwnerInv
  <2>5. pc[Owner] = "broadcast" => op \in {"create", "terminate"}
    BY DEF IInv, OwnerInv, TypeOK, JoinInv, Ending
  <2>6. \A w \in Workers : ~(w < 1)
    BY DEF Workers
  <2> QED
    BY <1>0, <2>1, <2>2, <2>3, <2>4, <2>5, <2>6 DEF JoinInv, Terminating, Ending
<1>4. CASE StoreQuit \/ NonblockLock \/ NonblockClear \/ NonblockUnlock
           \/ Destroy \/ Drain \/ Free
  BY <1>4, OwnerMovesOn
<1>5. CASE Join \/ JoinAgain
  <2>1. /\ pc[Owner] = "join" /\ pc'[Owner] \in {"join", "crashed"}
        /\ \A u \in Threads \ {Owner} : pc'[u] = pc[u]
        /\ UNCHANGED <<quit, started, op>>
        /\ idx' = idx + 1
        /\ joined' = joined \cup {idx}
        /\ idx \in joined \/ pc[idx] = "exit"
    BY <1>5, PcStep DEF IInv, Join, JoinAgain, flags, ends
  <2>2. idx \in Workers /\ idx <= started
    BY <1>0, <1>5 DEF Join, JoinAgain, Workers
  <2>3. /\ \A w \in Workers : pc'[w] = pc[w]
        /\ \A p \in Posters : pc'[p] = pc[p]
    BY <2>1
  <2>4. \A w \in joined' : pc'[w] = "exit"
    BY <1>0, <2>1, <2>2, <2>3 DEF JoinInv
  <2>5. \A w \in Workers : w < idx + 1 => w \in joined'
    <3>1. \A w \in Workers : w < idx + 1 => w < idx \/ w = idx
      BY <1>0 DEF Workers
    <3> QED
      BY <2>1, <3>1 DEF JoinInv
  <2>6. op # "none"
    BY <2>1 DEF IInv, OwnerInv
  <2> QED
    BY <2>1, <2>3, <2>4, <2>5, <2>6 DEF JoinInv, Terminating, Ending
<1>6. CASE Joined
  <2>1. /\ pc[Owner] = "join"
        /\ pc'[Owner] = IF op = "terminate" THEN "ready" ELSE "destroy"
        /\ op' = IF op = "terminate" THEN "none" ELSE op
        /\ \A u \in Threads \ {Owner} : pc'[u] = pc[u]
        /\ UNCHANGED <<quit, started, idx, joined>>
        /\ idx > started
    BY <1>6, PcStep DEF IInv, Goto, Joined, flags
  <2>2. /\ \A w \in Workers : pc'[w] = pc[w]
        /\ \A p \in Posters : pc'[p] = pc[p]
    BY <2>1
  <2>3. \A w \in Workers : pc[w] \in {"unborn", "exit"}
    <3> SUFFICES ASSUME NEW w \in Workers, pc[w] # "unborn" PROVE pc[w] = "exit"
      OBVIOUS
    <3>1. w <= started
      BY <1>0 DEF IInv, OwnerInv, Workers
    <3>2. w < idx
      BY <1>0, <2>1, <3>1 DEF Workers
    <3> QED
      BY <2>1, <3>2 DEF JoinInv
  <2>4. Alive' = {}
    BY <2>2, <2>3 DEF Alive
  <2>5. op \in {"create", "terminate", "waitdone"}
    BY <2>1 DEF IInv, TypeOK, OwnerInv
  <2> QED
    BY <1>0, <2>1, <2>2, <2>4, <2>5 DEF JoinInv, Terminating, Ending
<1> QED
  BY <1>1, <1>2, <1>3, <1>4, <1>5, <1>6 DEF OwnerStep

LEMMA StepPreservesJoinInv == IInv /\ JoinInv /\ [Next]_vars => JoinInv'
<1> SUFFICES ASSUME IInv, JoinInv, [Next]_vars PROVE JoinInv'
  OBVIOUS
<1>1. CASE UNCHANGED vars \/ \E w \in Workers : Spurious(w)
  BY <1>1 DEF vars, flags, ends, Spurious, JoinInv, Alive
<1>2. CASE ~(UNCHANGED vars \/ \E w \in Workers : Spurious(w))
  BY <1>2, WorkerKeepsJoinInv, PosterKeepsJoinInv, OwnerKeepsJoinInv DEF Next
<1> QED
  BY <1>1, <1>2

\* A worker runs a task only while it is alive.
LEMMA OnlyWorkersRun ==
  ASSUME IInv, JoinInv, [Next]_vars, quit = 1, op = "none"
  PROVE  ran' = ran
<1>1. \A w \in Workers : pc[w] \in {"unborn", "exit"}
  BY DEF JoinInv, Alive
<1>2. ASSUME NEW w \in Workers, Worker(w) PROVE FALSE
  BY <1>1, <1>2 DEF Goto, Worker, CheckQuit, PopTask, PopNothing, WorkerLock,
     TestBlock, CondWait, WakeUp, WorkerUnlock, GetNothing, RunTask
<1>3. ASSUME NEW w \in Workers, Spurious(w) PROVE ran' = ran
  BY <1>3 DEF Spurious
<1>4. ASSUME NEW p \in Posters, Poster(p) PROVE ran' = ran
  BY <1>4 DEF Poster, Post, AllocTask, AddTask, SignalTask
<1>5. CASE OwnerStep
  BY <1>5 DEF OwnerStep, Create, Spawn, SpawnFails, Created, Terminate, StoreQuit,
     NonblockLock, NonblockClear, NonblockUnlock, NonblockBroadcast, Join,
     JoinAgain, Joined, Waitdone, Destroy, Drain, Free
<1> QED
  BY <1>2, <1>3, <1>4, <1>5 DEF Next, vars

-----------------------------------------------------------------------------
(* What is allocated *)

LEMMA OthersKeepHeapInv ==
  ASSUME IInv, JoinInv, HeapInv,
         NEW t, \/ t \in Workers /\ Worker(t)
                \/ t \in Posters /\ Poster(t)
  PROVE  HeapInv'
<1> USE ThreadKinds
<1>1. pc'[Owner] = pc[Owner] /\ op' = op /\ heap \subseteq heap'
  BY PcStep DEF IInv, Goto, flags, ends, Worker, CheckQuit, PopTask, PopNothing,
     WorkerLock, TestBlock, CondWait, WakeUp, WorkerUnlock, GetNothing, RunTask,
     Poster, Post, AllocTask, AddTask, SignalTask
<1>2. CASE t \in Workers /\ Worker(t)
  <2>1. heap' = heap
    BY <1>2 DEF ends, Worker, CheckQuit, PopTask, PopNothing,
       WorkerLock, TestBlock, CondWait, WakeUp, WorkerUnlock, GetNothing, RunTask
  <2> QED
    BY <1>1, <2>1 DEF HeapInv
<1>3. CASE t \in Posters /\ Poster(t)
  <2>1. op \notin {"create", "waitdone"}
    BY <1>3 DEF Goto, Poster, Post, AllocTask, AddTask, SignalTask, Usable, JoinInv
  <2>2. pc[Owner] \notin {"start", "failed"}
    BY <2>1 DEF IInv, TypeOK, OwnerInv, JoinInv, Terminating
  <2> QED
    BY <1>1, <2>1, <2>2 DEF HeapInv
<1> QED
  BY <1>2, <1>3

LEMMA OwnerKeepsHeapInv ==
  ASSUME IInv, JoinInv, HeapInv, OwnerStep
  PROVE  HeapInv'
<1> USE ThreadKinds, ThreadPool2Assumption DEF Goto
<1>1. CASE Create
  <2>1. /\ op' = op /\ pc[Owner] = "start"
        /\ \/ pc'[Owner] = "failed" /\ heap' = {}
           \/ pc'[Owner] = "destroy" /\ heap' = {"pool", "queue"}
           \/ pc'[Owner] = "spawn" /\ heap' = {"pool", "queue", "threads"}
    BY <1>1, PcStep DEF IInv, Create
  <2> QED
    BY <2>1 DEF HeapInv, Terminating
<1>2. CASE Spawn
  <2>1. started + 1 \in Workers
    BY <1>2 DEF Spawn, Workers, IInv, TypeOK
  <2>2. pc'[Owner] = pc[Owner] /\ op' = op /\ heap' = heap
    BY <1>2, <2>1, PcStep DEF IInv, Spawn, ends
  <2> QED
    BY <2>2 DEF HeapInv
<1>3. CASE SpawnFails \/ Created \/ Terminate \/ StoreQuit \/ NonblockLock
           \/ NonblockClear \/ NonblockUnlock \/ NonblockBroadcast \/ Join
           \/ JoinAgain \/ Waitdone \/ Destroy
  <2>1. /\ heap' = heap
        /\ \/ pc'[Owner] = pc[Owner] /\ op' = op
           \/ pc[Owner] = "spawn" /\ pc'[Owner] = "quit" /\ op' = op
           \/ pc[Owner] = "spawn" /\ pc'[Owner] = "ready" /\ op' = "none"
           \/ pc[Owner] = "ready" /\ pc'[Owner] = "quit" /\ op' = "terminate"
           \/ /\ pc[Owner] \in Terminating /\ op' = op
              /\ pc'[Owner] \in Terminating \cup {"crashed"}
           \/ pc[Owner] = "ready" /\ pc'[Owner] = "join" /\ op' = "waitdone"
           \/ pc[Owner] = "destroy" /\ pc'[Owner] = "drain" /\ op' = op
    BY <1>3, PcStep DEF IInv, flags, ends, Terminating, SpawnFails, Created, Terminate,
       StoreQuit, NonblockLock, NonblockClear, NonblockUnlock, NonblockBroadcast, Join,
       JoinAgain, Waitdone, Destroy
  <2> QED
    BY <2>1 DEF HeapInv, Terminating
<1>4. CASE Joined
  <2>1. /\ pc[Owner] = "join"
        /\ pc'[Owner] = IF op = "terminate" THEN "ready" ELSE "destroy"
        /\ op' = IF op = "terminate" THEN "none" ELSE op
        /\ heap' = IF op = "create" THEN heap \ {"threads"} ELSE heap
    BY <1>4, PcStep DEF IInv, Joined
  <2> QED
    BY <2>1 DEF HeapInv, Terminating
<1>5. CASE Drain
  <2>1. PICK popped \in Tasks \cup {NULL} :
          /\ queue = <<>> => popped = NULL
          /\ pc[Owner] = "drain" /\ op' = op
          /\ \/ pc'[Owner] = "drain" /\ heap' = heap \ {popped}
             \/ pc'[Owner] = "free" /\ heap' = heap \ {"queue"}
    <3>1. queue # <<>> => Head(queue) \in Tasks
      BY TailFacts DEF IInv, TypeOK
    <3>2. pc[Owner] = "drain" /\ op' = op
      BY <1>5 DEF Drain
    <3> DEFINE head == IF queue = <<>> THEN NULL ELSE Head(queue)
    <3>3. \/ pc' = pc /\ heap' = heap \ {head}
          \/ pc'[Owner] = "free" /\ heap' = heap \ {"queue"}
      BY <1>5, PcStep DEF IInv, Drain
    <3>4. head \in Tasks \cup {NULL} /\ (queue = <<>> => head = NULL)
      BY <3>1
    <3> HIDE DEF head
    <3> QED
      BY <3>2, <3>3, <3>4
  <2>2. op = "create" => popped = NULL
    BY <2>1 DEF IInv, OwnerInv
  <2>3. popped \notin {"pool", "queue", "threads"}
    BY <2>1
  <2> QED
    BY <2>1, <2>2, <2>3 DEF HeapInv, Terminating
<1>6. CASE Free
  <2>1. /\ pc[Owner] = "free" /\ op' = op
        /\ pc'[Owner] = IF op = "create" THEN "failed" ELSE "done"
        /\ op = "create" => heap' = heap \ {"pool"}
    BY <1>6, PcStep DEF IInv, Free
  <2> QED
    BY <2>1 DEF HeapInv, Terminating
<1> QED
  BY <1>1, <1>2, <1>3, <1>4, <1>5, <1>6 DEF OwnerStep

LEMMA StepPreservesHeapInv == IInv /\ JoinInv /\ HeapInv /\ [Next]_vars => HeapInv'
<1> SUFFICES ASSUME IInv, JoinInv, HeapInv, [Next]_vars PROVE HeapInv'
  OBVIOUS
<1>1. CASE UNCHANGED vars \/ \E w \in Workers : Spurious(w)
  BY <1>1 DEF vars, flags, ends, Spurious, HeapInv
<1>2. ASSUME NEW w \in Workers, Worker(w) PROVE HeapInv'
  BY <1>2, OthersKeepHeapInv
<1>3. ASSUME NEW p \in Posters, Poster(p) PROVE HeapInv'
  BY <1>3, OthersKeepHeapInv
<1>4. CASE OwnerStep
  BY <1>4, OwnerKeepsHeapInv
<1> QED
  BY <1>1, <1>2, <1>3, <1>4 DEF Next

\* Where the owner is when somebody uses the pool, and what is allocated then.
LEMMA UsersHaveTheirMemory ==
  ASSUME IInv, JoinInv, HeapInv
  PROVE  MemoryOutlivesUsers
<1>1. ASSUME Alive # {} PROVE {"pool", "queue"} \subseteq heap
  <2>1. pc[Owner] \notin Ending
    BY <1>1 DEF JoinInv
  <2>2. pc[Owner] # "start"
    <3> SUFFICES ASSUME pc[Owner] = "start" PROVE FALSE
      OBVIOUS
    <3>1. \A w \in Workers : w > started
      BY DEF JoinInv, Workers
    <3> QED
      BY <1>1, <3>1 DEF IInv, OwnerInv, Alive
  <2>3. pc[Owner] \in OwnerPCs
    BY DEF IInv, TypeOK
  <2> QED
    BY <2>1, <2>2, <2>3 DEF HeapInv, OwnerPCs, Ending, Terminating
<1>2. ASSUME NEW p \in Posters, pc[p] # "idle" PROVE {"pool", "queue"} \subseteq heap
  <2>1. op \in {"none", "terminate"}
    BY <1>2 DEF JoinInv, IInv, TypeOK
  <2> QED
    BY <2>1 DEF IInv, OwnerInv, JoinInv, HeapInv
<1>3. pc[Owner] = "failed" => heap = {} /\ Alive = {}
  BY DEF HeapInv, JoinInv, Ending
<1> QED
  BY <1>1, <1>2, <1>3 DEF MemoryOutlivesUsers

-----------------------------------------------------------------------------
(* Each task is in one place                                               *)

\* The list without its first task, which it then holds no more.
LEMMA OnceAfterTail ==
  ASSUME NEW S, NEW q \in Seq(S), q # <<>>, Once(q)
  PROVE  Once(Tail(q)) /\ Head(q) \notin Range(Tail(q)) /\ Head(q) \in Range(q)
<1>1. /\ Tail(q) \in Seq(S) /\ Len(Tail(q)) = Len(q) - 1
      /\ \A i \in 1 .. Len(Tail(q)) : Tail(q)[i] = q[i + 1]
      /\ Head(q) = q[1] /\ Len(q) \in Nat /\ Len(q) >= 1
  BY TailFacts
<1>2. DOMAIN q = 1 .. Len(q) /\ DOMAIN Tail(q) = 1 .. Len(q) - 1
  BY <1>1, RangeFacts
<1>3. \A j, k \in 1 .. Len(q) : q[j] = q[k] => j = k
  BY <1>2 DEF Once
<1>4. \A i \in 1 .. Len(q) - 1 : i + 1 \in 1 .. Len(q) /\ i + 1 # 1 /\ i \in Int
  BY <1>1
<1>5. Once(Tail(q))
  <2> SUFFICES ASSUME NEW j \in 1 .. Len(q) - 1, NEW k \in 1 .. Len(q) - 1,
                      Tail(q)[j] = Tail(q)[k]
               PROVE  j = k
    BY <1>2 DEF Once
  <2>1. q[j + 1] = q[k + 1]
    BY <1>1
  <2>2. j + 1 = k + 1
    BY <1>3, <1>4, <2>1
  <2> QED
    BY <1>4, <2>2
<1>6. Head(q) \notin Range(Tail(q))
  <2> SUFFICES ASSUME Head(q) \in Range(Tail(q)) PROVE FALSE
    OBVIOUS
  <2>1. PICK k \in 1 .. Len(q) - 1 : Tail(q)[k] = Head(q)
    <3>1. \E k \in 1 .. Len(Tail(q)) : Tail(q)[k] = Head(q)
      BY ZenonT(60), <1>1, RangeFacts
    <3> QED
      BY <1>1, <3>1
  <2>2. q[k + 1] = q[1] /\ 1 \in 1 .. Len(q)
    BY <1>1, <2>1
  <2> QED
    BY <1>3, <1>4, <2>2
<1>7. Head(q) \in Range(q)
  <2>1. 1 \in 1 .. Len(q)
    BY <1>1
  <2> QED
    BY <1>1, <2>1, RangeFacts
<1> QED
  BY <1>5, <1>6, <1>7

\* The list with one task more that it did not hold.
LEMMA OnceAfterAppend ==
  ASSUME NEW S, NEW q \in Seq(S), Once(q), NEW x \in S, x \notin Range(q)
  PROVE  Once(Append(q, x))
<1>1. /\ Append(q, x) \in Seq(S) /\ Len(Append(q, x)) = Len(q) + 1
      /\ \A i \in 1 .. Len(q) : Append(q, x)[i] = q[i]
      /\ Append(q, x)[Len(q) + 1] = x
      /\ Len(q) \in Nat
  BY AppendFacts, EmptyFacts
<1>2. DOMAIN q = 1 .. Len(q) /\ DOMAIN Append(q, x) = 1 .. Len(q) + 1
  BY <1>1, RangeFacts
<1>3. \A i \in 1 .. Len(q) : q[i] # x
  BY RangeFacts
<1>4. \A i \in 1 .. Len(q) + 1 : i \in 1 .. Len(q) \/ i = Len(q) + 1
  BY <1>1
<1> SUFFICES ASSUME NEW j \in 1 .. Len(q) + 1, NEW k \in 1 .. Len(q) + 1,
                    Append(q, x)[j] = Append(q, x)[k]
             PROVE  j = k
  BY <1>2 DEF Once
<1>5. CASE j \in 1 .. Len(q) /\ k \in 1 .. Len(q)
  BY <1>1, <1>2, <1>5 DEF Once
<1>6. CASE ~(j \in 1 .. Len(q) /\ k \in 1 .. Len(q))
  BY <1>1, <1>3, <1>4, <1>6
<1> QED
  BY <1>5, <1>6

\* Tasks in nobody's hands change neither place nor owner.
LEMMA StillTasks ==
  ASSUME TypeOK, TaskInv, HandsInv',
         UNCHANGED <<queue, ran>>,
         \A t \in Posters \cup Workers : task'[t] = task[t],
         heap' \cap Tasks = heap \cap Tasks,
         op' # "waitdone" => op # "waitdone"
  PROVE  TaskInv'
<1>1. \A x : InHand(x)' = InHand(x)
  BY DEF InHand
<1>2. \A x \in Tasks : x \in heap' <=> x \in heap
  OBVIOUS
<1> QED
  BY <1>1, <1>2 DEF TaskInv, OnePlace

LEMMA WorkerKeepsTaskInv ==
  ASSUME IInv, TaskInv, NEW w \in Workers, Worker(w)
  PROVE  TaskInv'
<1> USE ThreadKinds, ThreadPool2Assumption
<1>0. TypeOK /\ task \in [Threads -> Tasks \cup {NULL, Junk}] /\ HandsInv
  BY DEF IInv, TypeOK, TaskInv
<1>1. CASE PopTask(w)
  <2>0. PICK h : h = Head(queue)
    OBVIOUS
  <2>1. /\ queue \in Seq(Tasks) /\ queue # <<>> /\ Once(queue)
        /\ queue' = Tail(queue)
        /\ task' = [task EXCEPT ![w] = h]
        /\ pc[w] = "pop" /\ pc'[w] = "run"
        /\ \A u \in Threads \ {w} : pc'[u] = pc[u]
        /\ UNCHANGED <<op, heap, ran>>
    BY <1>0, <1>1, <2>0, PcStep DEF PopTask, Goto, ends, TypeOK, TaskInv
  <2>2. h \in Tasks /\ h \in Range(queue) /\ h \notin Range(Tail(queue)) /\ Once(Tail(queue))
    BY <2>0, <2>1, OnceAfterTail, TailFacts
  <2>3. Range(queue) = Range(Tail(queue)) \cup {h}
    BY <2>0, <2>1, RangeOfTail
  <2>4. task[w] = NULL /\ task'[w] = h /\ \A u \in Threads \ {w} : task'[u] = task[u]
    BY <1>0, <2>1 DEF HandsInv
  <2>5. HandsInv'
    BY SMTT(30), <1>0, <2>1, <2>2, <2>4 DEF HandsInv
  <2>6. InHand(h) = {} /\ InHand(h)' = {w}
    <3>1. InHand(h) = {}
      BY <2>2 DEF TaskInv, OnePlace
    <3> QED
      BY <2>4, <3>1 DEF InHand
  <2>7. \A x \in Tasks \ {h} : InHand(x)' = InHand(x)
    BY <2>4 DEF InHand
  <2>8. OnePlace(h)'
    BY <2>1, <2>2, <2>6 DEF TaskInv, OnePlace
  <2>9. \A x \in Tasks \ {h} : OnePlace(x)'
    <3> SUFFICES ASSUME NEW x \in Tasks \ {h} PROVE OnePlace(x)'
      OBVIOUS
    <3>1. OnePlace(x) /\ InHand(x)' = InHand(x)
      BY <2>7 DEF TaskInv
    <3>2. x \in Range(queue') <=> x \in Range(queue)
      BY <2>1, <2>3
    <3> QED
      BY <2>1, <3>1, <3>2 DEF OnePlace
  <2> QED
    BY <2>1, <2>2, <2>5, <2>8, <2>9 DEF TaskInv
<1>2. CASE RunTask(w)
  <2>0. PICK r : r = task[w]
    OBVIOUS
  <2>1. /\ ran' = [ran EXCEPT ![r] = @ + 1]
        /\ task' = [task EXCEPT ![w] = NULL]
        /\ pc[w] = "run" /\ pc'[w] = "check"
        /\ \A u \in Threads \ {w} : pc'[u] = pc[u]
        /\ UNCHANGED <<op, heap, queue>>
        /\ ran \in [Tasks -> Nat]
    BY <1>0, <1>2, <2>0, PcStep DEF RunTask, Goto, ends, TypeOK
  <2>2. r \in Tasks /\ w \in InHand(r)
    BY <1>0, <2>0, <2>1 DEF HandsInv, InHand
  <2>3. task'[w] = NULL /\ \A u \in Threads \ {w} : task'[u] = task[u]
    BY <1>0, <2>1
  <2>4. HandsInv'
    BY <1>0, <2>1, <2>3 DEF HandsInv
  <2>5. InHand(r)' = {} /\ NULL # r
    <3>1. \A u \in InHand(r) : u = w
      BY <2>2 DEF TaskInv, OnePlace
    <3> QED
      BY <2>2, <2>3, <3>1 DEF InHand
  <2>6. \A x \in Tasks \ {r} : InHand(x)' = InHand(x)
    BY <2>0, <2>3 DEF InHand
  <2>7. ran[r] = 0 /\ ran'[r] = 1 /\ \A x \in Tasks \ {r} : ran'[x] = ran[x]
    <3>1. ran[r] = 0
      BY <2>2 DEF TaskInv, OnePlace
    <3> QED
      BY <2>1, <2>2, <3>1
  <2>8. OnePlace(r)'
    <3>1. OnePlace(r) /\ InHand(r) # {}
      BY <2>2 DEF TaskInv
    <3>2. r \notin Range(queue) /\ (op # "waitdone" => r \in heap)
      BY <3>1 DEF OnePlace
    <3> QED
      BY <2>1, <2>5, <2>7, <3>2 DEF OnePlace
  <2>9. \A x \in Tasks \ {r} : OnePlace(x)'
    BY <2>1, <2>6, <2>7 DEF TaskInv, OnePlace
  <2> QED
    BY <2>1, <2>4, <2>8, <2>9 DEF TaskInv
<1>3. CASE ~PopTask(w) /\ ~RunTask(w)
  <2>1. /\ pc[w] # "run" /\ pc'[w] # "run"
        /\ \A u \in Threads \ {w} : pc'[u] = pc[u]
        /\ UNCHANGED <<queue, ran, task, op, heap>>
    BY <1>0, <1>3, PcStep DEF Worker, CheckQuit, PopNothing, WorkerLock,
       TestBlock, CondWait, WakeUp, WorkerUnlock, GetNothing, Goto, ends
  <2>2. HandsInv'
    BY <1>0, <2>1 DEF HandsInv
  <2> QED
    BY <1>0, <2>1, <2>2, StillTasks
<1> QED
  BY <1>1, <1>2, <1>3

LEMMA PosterKeepsTaskInv ==
  ASSUME IInv, JoinInv, TaskInv, NEW p \in Posters, Poster(p)
  PROVE  TaskInv'
<1> USE ThreadKinds, ThreadPool2Assumption
<1>0. TypeOK /\ task \in [Threads -> Tasks \cup {NULL, Junk}] /\ HandsInv
  BY DEF IInv, TypeOK, TaskInv
<1>1. CASE AllocTask(p) /\ pc'[p] = "add"
  <2>1. PICK x \in Tasks \ heap : task' = [task EXCEPT ![p] = x] /\ heap' = heap \cup {x}
    BY <1>0, <1>1, PcStep DEF AllocTask, Goto
  <2>2. /\ pc[p] = "alloc"
        /\ \A u \in Threads \ {p} : pc'[u] = pc[u]
        /\ UNCHANGED <<queue, ran, op>>
    BY <1>0, <1>1, PcStep DEF AllocTask, Goto
  <2>3. task[p] = NULL /\ task'[p] = x /\ \A u \in Threads \ {p} : task'[u] = task[u]
    BY <1>0, <2>1, <2>2 DEF HandsInv
  <2>4. HandsInv'
    BY <1>0, <1>1, <2>1, <2>2, <2>3 DEF HandsInv
  <2>5. op # "waitdone"
    BY <2>2 DEF JoinInv
  <2>6. x \notin Range(queue) /\ InHand(x) = {} /\ ran[x] = 0
    BY <2>1, <2>5 DEF TaskInv, OnePlace
  <2>7. InHand(x)' = {p}
    BY <2>3, <2>6 DEF InHand
  <2>8. \A y \in Tasks \ {x} : InHand(y)' = InHand(y)
    BY <2>3 DEF InHand
  <2>9. OnePlace(x)'
    BY <2>1, <2>2, <2>6, <2>7 DEF OnePlace
  <2>10. \A y \in Tasks \ {x} : OnePlace(y)'
    BY <2>1, <2>2, <2>8 DEF TaskInv, OnePlace
  <2> QED
    BY <2>2, <2>4, <2>9, <2>10 DEF TaskInv
<1>2. CASE AddTask(p)
  <2>0. PICK x : x = task[p]
    OBVIOUS
  <2>1. /\ queue' = Append(queue, x) /\ queue \in Seq(Tasks) /\ Once(queue)
        /\ task' = [task EXCEPT ![p] = NULL]
        /\ pc[p] = "add" /\ pc'[p] = "signal"
        /\ \A u \in Threads \ {p} : pc'[u] = pc[u]
        /\ UNCHANGED <<ran, op, heap>>
    BY <1>0, <1>2, <2>0, PcStep DEF AddTask, Goto, ends, TypeOK, TaskInv
  <2>2. x \in Tasks /\ p \in InHand(x)
    BY <1>0, <2>0, <2>1 DEF HandsInv, InHand
  <2>3. task'[p] = NULL /\ \A u \in Threads \ {p} : task'[u] = task[u]
    BY <1>0, <2>1
  <2>4. HandsInv'
    BY <1>0, <2>1, <2>3 DEF HandsInv
  <2>5. x \notin Range(queue) /\ ran[x] = 0 /\ (\A u \in InHand(x) : u = p)
        /\ (op # "waitdone" => x \in heap)
    BY <2>2 DEF TaskInv, OnePlace
  <2>6. InHand(x)' = {} /\ \A y \in Tasks \ {x} : InHand(y)' = InHand(y)
    BY <2>0, <2>2, <2>3, <2>5 DEF InHand
  <2>7. Once(queue') /\ Range(queue') = Range(queue) \cup {x}
    BY <2>1, <2>2, <2>5, OnceAfterAppend, RangeOfAppend
  <2>8. OnePlace(x)'
    BY <2>1, <2>5, <2>6, <2>7 DEF OnePlace
  <2>9. \A y \in Tasks \ {x} : OnePlace(y)'
    BY <2>1, <2>6, <2>7 DEF TaskInv, OnePlace
  <2> QED
    BY <2>4, <2>7, <2>8, <2>9 DEF TaskInv
<1>3. CASE ~AddTask(p) /\ ~(AllocTask(p) /\ pc'[p] = "add")
  <2>1. /\ pc[p] # "add" /\ pc'[p] # "add"
        /\ \A u \in Threads \ {p} : pc'[u] = pc[u]
        /\ UNCHANGED <<queue, ran, task, op, heap>>
    BY <1>0, <1>3, PcStep DEF Poster, Post, AllocTask, SignalTask, Goto, ends
  <2>2. HandsInv'
    BY <1>0, <2>1 DEF HandsInv
  <2> QED
    BY <1>0, <2>1, <2>2, StillTasks
<1> QED
  BY <1>1, <1>2, <1>3

LEMMA OwnerKeepsTaskInv ==
  ASSUME IInv, JoinInv, HeapInv, TaskInv, OwnerStep
  PROVE  TaskInv'
<1> USE ThreadKinds, ThreadPool2Assumption
<1>0. /\ TypeOK /\ HandsInv
      /\ task \in [Threads -> Tasks \cup {NULL, Junk}]
      /\ queue \in Seq(Tasks)
  BY DEF IInv, TypeOK, TaskInv
<1>1. CASE Drain
  <2>1. /\ pc[Owner] = "drain" /\ pc'[Owner] \in {"drain", "free"}
        /\ \A u \in Threads \ {Owner} : pc'[u] = pc[u]
        /\ UNCHANGED <<task, ran, op>>
        /\ queue = <<>> => queue' = queue
        /\ queue # <<>> => queue' = Tail(queue)
    BY <1>0, <1>1, PcStep DEF Drain
  <2>2. HandsInv'
    BY <1>0, <2>1 DEF HandsInv
  <2>3. CASE queue = <<>>
    <3>1. heap' \cap Tasks = heap \cap Tasks
      BY <1>1, <2>3 DEF Drain
    <3> QED
      BY <1>0, <2>1, <2>2, <2>3, <3>1, StillTasks
  <2>4. CASE queue # <<>>
    <3>1. op = "waitdone"
      <4>1. op # "create" /\ op # "none"
        BY <2>1, <2>4 DEF IInv, OwnerInv
      <4>2. op # "terminate"
        BY <2>1 DEF JoinInv, Terminating
      <4> QED
        BY <1>0, <4>1, <4>2 DEF TypeOK
    <3>2. Once(queue') /\ Range(queue') \subseteq Range(queue)
      <4>1. Once(queue)
        BY DEF TaskInv
      <4>2. Once(Tail(queue))
        BY <1>0, <2>4, <4>1, OnceAfterTail
      <4>3. Range(Tail(queue)) \subseteq Range(queue)
        BY <1>0, <2>4, RangeOfTail
      <4> QED
        BY <2>1, <2>4, <4>2, <4>3
    <3>3. \A x \in Tasks : InHand(x)' = InHand(x)
      BY <2>1 DEF InHand
    <3>4. \A x \in Tasks : OnePlace(x)'
      BY <2>1, <3>1, <3>2, <3>3 DEF TaskInv, OnePlace
    <3> QED
      BY <2>2, <3>2, <3>4 DEF TaskInv
  <2> QED
    BY <2>3, <2>4
<1>2. CASE Spawn
  <2>1. started + 1 \in Workers
    BY <1>0, <1>2 DEF Spawn, Workers, TypeOK
  <2>2. /\ pc'[started + 1] = "check"
        /\ \A u \in Threads \ {started + 1} : pc'[u] = pc[u]
        /\ UNCHANGED <<queue, ran, task, op, heap>>
    BY <1>0, <1>2, <2>1, PcStep DEF Spawn, ends
  <2>3. pc[started + 1] = "unborn"
    BY <1>0, <2>1 DEF IInv, OwnerInv, TypeOK
  <2>4. HandsInv'
    BY <1>0, <2>1, <2>2, <2>3 DEF HandsInv
  <2> QED
    BY <1>0, <2>2, <2>4, StillTasks
<1>3. CASE ~Drain /\ ~Spawn
  <2>1. \A u \in Threads \ {Owner} : pc'[u] = pc[u]
    BY <1>0, <1>3, PcStep DEF OwnerStep, Create, SpawnFails, Created, Terminate, StoreQuit,
       NonblockLock, NonblockClear, NonblockUnlock, NonblockBroadcast, Join,
       JoinAgain, Joined, Waitdone, Destroy, Free, Goto
  <2>2. /\ \A t \in Threads \ {Owner} : task'[t] = task[t]
        /\ UNCHANGED <<queue, ran>>
    BY <1>0, <1>3 DEF OwnerStep, Create, SpawnFails, Created, Terminate, StoreQuit,
       NonblockLock, NonblockClear, NonblockUnlock, NonblockBroadcast, Join,
       JoinAgain, Joined, Waitdone, Destroy, Free, Goto, ends
  <2>3. op' # "waitdone" => op # "waitdone"
    BY <1>3 DEF OwnerStep, Create, SpawnFails, Created, Terminate, StoreQuit,
       NonblockLock, NonblockClear, NonblockUnlock, NonblockBroadcast, Join,
       JoinAgain, Joined, Waitdone, Destroy, Free, Goto, ends, IInv, OwnerInv
  <2>4. heap' \cap Tasks = heap \cap Tasks
    <3>1. CASE Create
      <4>1. heap = {}
        BY <3>1 DEF Create, HeapInv
      <4>2. heap' \subseteq {"pool", "queue", "threads"}
        BY <3>1 DEF Create
      <4> QED
        BY <4>1, <4>2
    <3>2. CASE Joined \/ Free
      BY <3>2 DEF Joined, Free
    <3>3. CASE ~(Create \/ Joined \/ Free)
      <4>1. heap' = heap
        BY <1>3, <3>3 DEF OwnerStep, SpawnFails, Created, Terminate, StoreQuit,
           NonblockLock, NonblockClear, NonblockUnlock, NonblockBroadcast, Join,
           JoinAgain, Waitdone, Destroy, ends
      <4> QED
        BY <4>1
    <3> QED
      BY <3>1, <3>2, <3>3
  <2>5. HandsInv'
    BY <1>0, <2>1, <2>2 DEF HandsInv
  <2> QED
    BY <1>0, <2>2, <2>3, <2>4, <2>5, StillTasks
<1> QED
  BY <1>1, <1>2, <1>3

LEMMA StepPreservesTaskInv ==
  IInv /\ JoinInv /\ HeapInv /\ TaskInv /\ [Next]_vars => TaskInv'
<1> SUFFICES ASSUME IInv, JoinInv, HeapInv, TaskInv, [Next]_vars PROVE TaskInv'
  OBVIOUS
<1>1. CASE UNCHANGED vars \/ \E w \in Workers : Spurious(w)
  <2>1. UNCHANGED <<queue, ran, task, op, heap, pc>>
    BY <1>1 DEF vars, flags, ends, Spurious
  <2>2. HandsInv'
    BY <2>1 DEF TaskInv, HandsInv
  <2> QED
    BY <2>1, <2>2, StillTasks DEF IInv
<1>2. ASSUME NEW w \in Workers, Worker(w) PROVE TaskInv'
  BY <1>2, WorkerKeepsTaskInv
<1>3. ASSUME NEW p \in Posters, Poster(p) PROVE TaskInv'
  BY <1>3, PosterKeepsTaskInv
<1>4. CASE OwnerStep
  BY <1>4, OwnerKeepsTaskInv
<1> QED
  BY <1>1, <1>2, <1>3, <1>4 DEF Next

-----------------------------------------------------------------------------
(* The theorems *)

\* In every reachable state the owner has come as far as the joined workers,
\* the memory and the tasks say.
THEOREM ThreadPool2Ends == Spec => []KInv
<1>1. KInv /\ [Next]_vars => KInv'
  BY StepPreservesIInv, StepPreservesJoinInv, StepPreservesHeapInv,
     StepPreservesTaskInv DEF KInv
<1> QED
  BY <1>1, InitEstablishesKInv, PTL DEF Spec

\* Once thread_pool_terminate has returned, no handler runs.
THEOREM NothingRunsAfterTerminate == Spec => NoRunAfterTerminate
<1>1. KInv /\ [Next]_vars => [quit = 1 /\ op = "none" => ran' = ran]_vars
  BY OnlyWorkersRun DEF KInv
<1> QED
  BY <1>1, ThreadPool2Ends, PTL DEF Spec, NoRunAfterTerminate

\* The pool and its queue are freed behind the last worker and the last post,
\* and a failed thread_pool_create leaves nothing behind.
THEOREM MemoryIsFreedLast == Spec => []MemoryOutlivesUsers
<1>1. KInv => MemoryOutlivesUsers
  BY UsersHaveTheirMemory DEF KInv
<1> QED
  BY <1>1, ThreadPool2Ends, PTL

\* A task runs at most once, is in one place until then, and is not lost
\* before the queue is destroyed.
THEOREM TasksRunOnce == Spec => []TasksAreKept
<1>1. KInv => TasksAreKept
  <2> SUFFICES ASSUME KInv PROVE TasksAreKept
    OBVIOUS
  <2>1. TypeOK /\ Once(queue) /\ \A x \in Tasks : OnePlace(x)
    BY DEF KInv, IInv, TaskInv
  <2>2. \A x \in Tasks : \A j, k \in DOMAIN queue : queue[j] = x /\ queue[k] = x => j = k
    BY <2>1 DEF Once
  <2>3. EachTaskOnce
    BY <2>1, <2>2 DEF EachTaskOnce, OnePlace
  <2>4. NoTaskLost
    <3> SUFFICES ASSUME op # "waitdone", NEW x \in Tasks, x \in heap,
                        x \notin Range(queue), InHand(x) = {}
                 PROVE  ran[x] = 1
      BY DEF NoTaskLost
    <3>1. ran[x] # 0 /\ ran[x] <= 1 /\ ran[x] \in Nat
      BY <2>1 DEF OnePlace, TypeOK
    <3> QED
      BY <3>1
  <2> QED
    BY <2>3, <2>4 DEF TasksAreKept
<1> QED
  BY <1>1, ThreadPool2Ends, PTL

=============================================================================
