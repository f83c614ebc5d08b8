------------------------------- MODULE TaskList -------------------------------
(***************************************************************************)
(* The linked list of ThreadPool2.0/task_queue.c, pointer by pointer:      *)
(* add_task and pop_task as they run in several threads.  The first word   *)
(* of a task is its link; tail is the address of the word that the next    *)
(* add_task fills in: the link of the last task, or, when the list is      *)
(* empty, the word head itself.                                            *)
(*                                                                         *)
(* The spin lock is module Mutex, which module Spinlock implements.  The   *)
(* signal of add_task and the sleep of get_task are in ThreadPool2.        *)
(***************************************************************************)
EXTENDS Integers, Sequences, Functions

CONSTANTS
  Threads,  \* the threads that call add_task and pop_task
  Tasks,    \* the addresses of task_t objects
  NULL,
  HEAD      \* the address &task_queue->head, as a value of tail

ASSUME TaskListAssumption == /\ NULL \notin Tasks
                             /\ HEAD \notin Tasks
                             /\ NULL # HEAD

VARIABLES
  head,     \* task_queue->head
  tail,     \* task_queue->tail
  next,     \* the first word of each task, in the queue or not
  holders,  \* the holder of task_queue->lock
  pc,       \* where each thread is
  task,     \* the task a thread is adding, or the local variable of pop_task
  items     \* history: the tasks in the list, in the order they were linked

vars == <<head, tail, next, holders, pc, task, items>>

Lock == INSTANCE Mutex

PCs == {"idle", "add_lock", "add_link", "add_tail", "add_unlock",
        "pop_lock", "pop_test", "pop_null", "pop_next", "pop_reset", "pop_unlock"}

\* task_queueu_create.  The memory of the tasks is the caller's: their first
\* words hold whatever was there before.
Init == /\ head = NULL
        /\ tail = HEAD
        /\ next \in [Tasks -> Tasks \cup {NULL}]
        /\ holders = {}
        /\ pc = [t \in Threads |-> "idle"]
        /\ task = [t \in Threads |-> NULL]
        /\ items = <<>>

Goto(t, from, to) == pc[t] = from /\ pc' = [pc EXCEPT ![t] = to]

-----------------------------------------------------------------------------
(* add_task *)

InUse == Range(items) \cup {task[t] : t \in Threads}

\* add_task(x) is called with a task nobody else uses, and clears its link
\* before it takes the lock.
AddCall(t, x) ==
  /\ x \notin InUse
  /\ Goto(t, "idle", "add_lock")
  /\ task' = [task EXCEPT ![t] = x]
  /\ next' = [next EXCEPT ![x] = NULL]
  /\ UNCHANGED <<head, tail, holders, items>>

AddLock(t) == /\ Goto(t, "add_lock", "add_link")
              /\ Lock!Acquire(t)
              /\ UNCHANGED <<head, tail, next, task, items>>

\* *task_queue->tail = link
AddLink(t) ==
  /\ Goto(t, "add_link", "add_tail")
  /\ IF tail = HEAD
       THEN head' = task[t] /\ UNCHANGED next
       ELSE next' = [next EXCEPT ![tail] = task[t]] /\ UNCHANGED head
  /\ items' = Append(items, task[t])
  /\ UNCHANGED <<tail, holders, task>>

\* Faulty form: tail does not follow.
AddTailMissing(t) ==
  /\ Goto(t, "add_tail", "add_unlock")
  /\ UNCHANGED <<head, tail, next, holders, task, items>>

\* task_queue->tail = link
AddTail(t) == /\ Goto(t, "add_tail", "add_unlock")
              /\ tail' = task[t]
              /\ UNCHANGED <<head, next, holders, task, items>>

AddUnlock(t) == /\ Goto(t, "add_unlock", "idle")
                /\ Lock!Release(t)
                /\ task' = [task EXCEPT ![t] = NULL]
                /\ UNCHANGED <<head, tail, next, items>>

-----------------------------------------------------------------------------
(* pop_task *)

PopCall(t) == /\ Goto(t, "idle", "pop_lock")
              /\ UNCHANGED <<head, tail, next, holders, task, items>>

\* Faulty form: the list is read without the lock.
PopLockMissing(t) == /\ Goto(t, "pop_lock", "pop_test")
                     /\ UNCHANGED <<head, tail, next, holders, task, items>>

PopLock(t) == /\ Goto(t, "pop_lock", "pop_test")
              /\ Lock!Acquire(t)
              /\ UNCHANGED <<head, tail, next, task, items>>

\* if (task_queue->head == NULL) ..., and otherwise task = task_queue->head
PopTest(t) ==
  /\ Goto(t, "pop_test", IF head = NULL THEN "pop_null" ELSE "pop_next")
  /\ task' = [task EXCEPT ![t] = head]
  /\ UNCHANGED <<head, tail, next, holders, items>>

\* task_queue->head = *link
PopNext(t) == /\ Goto(t, "pop_next", "pop_reset")
              /\ head' = next[task[t]]
              /\ items' = Tail(items)
              /\ UNCHANGED <<tail, next, holders, task>>

\* Faulty form: tail is not set back when the list becomes empty.
PopResetMissing(t) == /\ Goto(t, "pop_reset", "pop_unlock")
                      /\ UNCHANGED <<head, tail, next, holders, task, items>>

\* An empty list sets tail back to the word head.
PopReset(t) == /\ Goto(t, "pop_reset", "pop_unlock")
               /\ tail' = IF head = NULL THEN HEAD ELSE tail
               /\ UNCHANGED <<head, next, holders, task, items>>

\* Either unlock; the caller has its result, and may use the task again.
PopUnlock(t) == /\ pc[t] \in {"pop_null", "pop_unlock"}
                /\ pc' = [pc EXCEPT ![t] = "idle"]
                /\ Lock!Release(t)
                /\ task' = [task EXCEPT ![t] = NULL]
                /\ UNCHANGED <<head, tail, next, items>>

-----------------------------------------------------------------------------
Add(t) == \/ \E x \in Tasks : AddCall(t, x)
          \/ AddLock(t) \/ AddLink(t) \/ AddTail(t) \/ AddUnlock(t)

Pop(t) == \/ PopCall(t) \/ PopLock(t) \/ PopTest(t)
          \/ PopNext(t) \/ PopReset(t) \/ PopUnlock(t)

Next == \E t \in Threads : Add(t) \/ Pop(t)

Spec == Init /\ [][Next]_vars

-----------------------------------------------------------------------------
(* Properties *)

TypeOK == /\ head \in Tasks \cup {NULL}
          /\ tail \in Tasks \cup {HEAD}
          /\ next \in [Tasks -> Tasks \cup {NULL}]
          /\ holders \in SUBSET Threads
          /\ pc \in [Threads -> PCs]
          /\ task \in [Threads -> Tasks \cup {NULL}]
          /\ items \in Seq(Tasks)

\* Between two critical sections the pointers spell the queue: head is its
\* first task, every link is the task behind it, the last link is NULL, and
\* tail is the word that the next add_task must fill in.
Chained == \A i \in 1 .. Len(items) :
             next[items[i]] = IF i = Len(items) THEN NULL ELSE items[i + 1]

ListSpellsQueue ==
  holders = {} =>
    /\ head = IF items = <<>> THEN NULL ELSE items[1]
    /\ tail = IF items = <<>> THEN HEAD ELSE items[Len(items)]
    /\ Chained

\* No task is in the list twice, and none is in the list while a caller is
\* still adding it or has already been given it.
EachTaskOnce ==
  /\ \A i, j \in 1 .. Len(items) : items[i] = items[j] => i = j
  /\ \A t \in Threads :
       pc[t] \in {"add_lock", "add_link", "pop_reset", "pop_unlock"}
         => task[t] \notin Range(items)
  /\ \A t, u \in Threads : task[t] = task[u] /\ task[t] # NULL => t = u

\* The list implements the queue the thread pool relies on.  add_task takes
\* effect when it links the task in, pop_task when it moves head, or when
\* it finds head NULL.
FifoCall == [t \in Threads |->
  CASE pc[t] = "idle"                             -> "none"
    [] pc[t] \in {"add_lock", "add_link"}         -> "put"
    [] pc[t] \in {"pop_lock", "pop_test", "pop_next"} -> "get"
    [] OTHER                                      -> "done"]
FifoVal == [t \in Threads |->
  IF pc[t] \in {"add_lock", "add_link", "pop_reset", "pop_unlock"}
    THEN task[t] ELSE NULL]

Fifo == INSTANCE TaskFifo WITH queue <- items, call <- FifoCall, val <- FifoVal
ImplementsFifo == Fifo!Spec

=============================================================================
