--------------------------- MODULE ServersProofs ---------------------------
(***************************************************************************)
(* What module MCServers checks on small instances, for all values of the  *)
(* constants: first the task queue, then the two echo servers and the UDP  *)
(* group.                                                                  *)
(*                                                                         *)
(* ListSpellsQueue speaks of the moments between two critical sections.    *)
(* To make it inductive, IInv says what holds inside one: head and the     *)
(* links are right at every step, and tail lags behind in two places only, *)
(* after add_task has linked its task and after pop_task has moved head.   *)
(* The list also implements module TaskFifo.                               *)
(*                                                                         *)
(* RepliesAreTrue is the echo servers' conservation of bytes, which with   *)
(* the types is inductive, and of the UDP group what follows from there    *)
(* being one datagram in flight for a client that was never late.          *)
(***************************************************************************)
EXTENDS MCServers, QueueLemmas, TLAPS

\* The program points between spinlock_lock and spinlock_unlock.
Inside == {"add_link", "add_tail", "add_unlock",
           "pop_test", "pop_null", "pop_next", "pop_reset", "pop_unlock"}

\* The lock's holder is the thread inside, and there is one at most.
LockInv == /\ holders = {t \in Threads : pc[t] \in Inside}
           /\ \A t, u \in holders : t = u

\* What a thread's task is at each point of its program.
TaskInv == \A t \in Threads :
  /\ pc[t] \in {"idle", "pop_lock", "pop_test", "pop_null"} <=> task[t] = NULL
  /\ pc[t] \in {"add_lock", "add_link"} => next[task[t]] = NULL
  /\ pc[t] \in {"add_tail", "add_unlock"} =>
       items # <<>> /\ task[t] = items[Len(items)]
  /\ pc[t] = "pop_next" => items # <<>> /\ task[t] = items[1]

HeadInv == head = IF items = <<>> THEN NULL ELSE items[1]

\* tail names the last link, or the word head; it is behind by one task at
\* add_tail, and may still name the task just removed at pop_reset.
TailInv ==
  /\ (\A t \in Threads : pc[t] \notin {"add_tail", "pop_reset"}) =>
       tail = IF items = <<>> THEN HEAD ELSE items[Len(items)]
  /\ (\E t \in Threads : pc[t] = "add_tail") =>
       tail = IF Len(items) = 1 THEN HEAD ELSE items[Len(items) - 1]
  /\ (\E t \in Threads : pc[t] = "pop_reset") =>
       (items # <<>> => tail = items[Len(items)])

IInv == /\ TypeOK
        /\ LockInv
        /\ TaskInv
        /\ HeadInv
        /\ TailInv
        /\ Chained
        /\ EachTaskOnce

-----------------------------------------------------------------------------
(* Facts about sequences *)

LEMMA RangeOfItems == TypeOK =>
  \A x : x \in Range(items) <=> \E i \in 1 .. Len(items) : items[i] = x
  BY LenProperties DEF TypeOK, Range

-----------------------------------------------------------------------------
(* The invariant *)

LEMMA InitEstablishesIInv == Init => IInv
<1> SUFFICES ASSUME Init PROVE IInv
  OBVIOUS
<1> USE TaskListAssumption DEF Init
<1>1. items \in Seq(Tasks) /\ Len(items) = 0 /\ items = <<>>
  BY EmptySeq
<1>2. TypeOK
  BY <1>1 DEF TypeOK, PCs
<1>3. LockInv /\ TaskInv /\ HeadInv /\ TailInv /\ Chained
  BY <1>1 DEF LockInv, Inside, TaskInv, HeadInv, TailInv, Chained
<1>4. EachTaskOnce
  BY <1>1 DEF EachTaskOnce
<1> QED
  BY <1>2, <1>3, <1>4 DEF IInv

\* The steps that leave the list, its tail and the history alone: a thread
\* moves on, and at most takes or gives back the lock and its task.
LEMMA AddCallPreserves ==
  ASSUME IInv, NEW t \in Threads, NEW x \in Tasks, AddCall(t, x)
  PROVE  IInv'
<1> USE TaskListAssumption DEF IInv, AddCall, Goto
<1>0. \A i \in 1 .. Len(items) : items[i] \in Tasks /\ items[i] # x
  BY EmptyFacts, RangeOfItems DEF InUse, TypeOK
<1>1. TypeOK'
  BY DEF TypeOK, PCs
<1>2. LockInv'
  BY DEF LockInv, TypeOK, PCs, Inside
<1>3. TaskInv'
  BY <1>0, EmptyFacts DEF TaskInv, TypeOK, PCs, InUse
<1>4. HeadInv' /\ TailInv'
  BY DEF HeadInv, TailInv, TypeOK
<1>5. Chained'
  BY <1>0 DEF Chained, TypeOK
<1>6. EachTaskOnce'
  BY DEF EachTaskOnce, TypeOK, InUse, PCs
<1> QED
  BY <1>1, <1>2, <1>3, <1>4, <1>5, <1>6

LEMMA AddLockPreserves ==
  ASSUME IInv, NEW t \in Threads, AddLock(t)
  PROVE  IInv'
<1> USE TaskListAssumption DEF IInv, AddLock, Goto, Lock!Acquire
<1>1. TypeOK'
  BY DEF TypeOK, PCs
<1>2. LockInv'
  BY DEF LockInv, TypeOK, PCs, Inside
<1>3. TaskInv'
  BY DEF TaskInv, TypeOK, PCs
<1>4. HeadInv' /\ TailInv' /\ Chained'
  BY DEF HeadInv, TailInv, Chained, TypeOK
<1>6. EachTaskOnce'
  BY DEF EachTaskOnce, TypeOK, PCs
<1> QED
  BY <1>1, <1>2, <1>3, <1>4, <1>6

\* The task becomes the last of the list: the old last link, or head, names
\* it, and tail is now one task behind.
LEMMA AddLinkPreserves ==
  ASSUME IInv, NEW t \in Threads, AddLink(t)
  PROVE  IInv'
<1> DEFINE n == Len(items)
<1> USE TaskListAssumption DEF IInv, AddLink, Goto
<1>0. /\ n \in Nat
      /\ items = <<>> <=> n = 0
      /\ \A i \in 1 .. n : items[i] \in Tasks
  BY EmptyFacts DEF TypeOK
<1>1. /\ task[t] \in Tasks
      /\ next[task[t]] = NULL
      /\ \A i \in 1 .. n : items[i] # task[t]
  BY RangeOfItems DEF TypeOK, PCs, TaskInv, EachTaskOnce
<1>2. /\ items' \in Seq(Tasks)
      /\ items' # <<>>
      /\ Len(items') = n + 1
      /\ \A i \in 1 .. n : items'[i] = items[i]
      /\ items'[n + 1] = task[t]
  BY <1>1, AppendFacts DEF TypeOK
<1>3. \A u \in Threads \ {t} : pc[u] \notin Inside
  BY DEF LockInv, Inside
<1>4. tail = IF n = 0 THEN HEAD ELSE items[n]
  BY <1>0, <1>3 DEF TailInv, Inside
<1>5. TypeOK'
  BY <1>1, <1>2 DEF TypeOK, PCs
<1>6. LockInv'
  BY DEF LockInv, TypeOK, PCs, Inside
<1>7. TaskInv'
  <2>1. \A u \in Threads : task[u] # NULL /\ u # t => next'[task[u]] = next[task[u]]
                           \/ pc[u] \notin {"add_lock", "add_link"}
    BY <1>0, <1>4 DEF TypeOK, PCs, EachTaskOnce, Range
  <2>2. \A u \in Threads \ {t} : pc'[u] = pc[u] /\ pc[u] \notin Inside
    BY <1>3 DEF TypeOK
  <2>3. pc'[t] = "add_tail" /\ task' = task
    BY DEF TypeOK
  <2> QED
    BY <1>1, <1>2, <2>1, <2>2, <2>3 DEF TaskInv, TypeOK, PCs, Inside
<1>8. HeadInv'
  BY <1>0, <1>2, <1>4 DEF HeadInv, TypeOK
<1>9. TailInv'
  BY <1>0, <1>2, <1>3, <1>4 DEF TailInv, TypeOK, Inside
<1>10. Chained'
  BY <1>0, <1>1, <1>2, <1>4 DEF Chained, TypeOK, EachTaskOnce
<1>11. \A x : x \in Range(items)' <=> x = task[t] \/ x \in Range(items)
  BY SMTT(30), <1>0, <1>2, <1>5, RangeOfItems, LenProperties DEF TypeOK, Range
<1>12. EachTaskOnce'
  BY <1>0, <1>1, <1>2, <1>3, <1>11 DEF EachTaskOnce, TypeOK, PCs, Inside
<1> QED
  BY <1>5, <1>6, <1>7, <1>8, <1>9, <1>10, <1>12

LEMMA AddTailPreserves ==
  ASSUME IInv, NEW t \in Threads, AddTail(t)
  PROVE  IInv'
<1> USE TaskListAssumption DEF IInv, AddTail, Goto
<1>0. items # <<>> /\ task[t] = items[Len(items)] /\ task[t] \in Tasks
  BY DEF TaskInv, TypeOK, PCs
<1>1. \A u \in Threads \ {t} : pc[u] \notin Inside
  BY DEF LockInv, Inside
<1>2. TypeOK'
  BY <1>0 DEF TypeOK, PCs
<1>3. LockInv'
  BY DEF LockInv, TypeOK, PCs, Inside
<1>4. TaskInv' /\ HeadInv' /\ Chained'
  BY <1>0 DEF TaskInv, HeadInv, Chained, TypeOK, PCs
<1>5. TailInv'
  BY <1>0, <1>1 DEF TailInv, TypeOK, PCs, Inside
<1>6. EachTaskOnce'
  BY DEF EachTaskOnce, TypeOK, PCs
<1> QED
  BY <1>2, <1>3, <1>4, <1>5, <1>6

LEMMA AddUnlockPreserves ==
  ASSUME IInv, NEW t \in Threads, AddUnlock(t)
  PROVE  IInv'
<1> USE TaskListAssumption DEF IInv, AddUnlock, Goto, Lock!Release
<1>1. TypeOK'
  BY DEF TypeOK, PCs
<1>2. LockInv'
  BY DEF LockInv, TypeOK, PCs, Inside
<1>3. TaskInv' /\ HeadInv' /\ Chained'
  BY DEF TaskInv, HeadInv, Chained, TypeOK, PCs
<1>4. TailInv'
  BY DEF TailInv, TypeOK, PCs
<1>5. EachTaskOnce'
  BY DEF EachTaskOnce, TypeOK, PCs
<1> QED
  BY <1>1, <1>2, <1>3, <1>4, <1>5

LEMMA PopCallPreserves ==
  ASSUME IInv, NEW t \in Threads, PopCall(t)
  PROVE  IInv'
<1> USE TaskListAssumption DEF IInv, PopCall, Goto
<1>1. TypeOK'
  BY DEF TypeOK, PCs
<1>2. LockInv'
  BY DEF LockInv, TypeOK, PCs, Inside
<1>3. TaskInv' /\ HeadInv' /\ Chained'
  BY DEF TaskInv, HeadInv, Chained, TypeOK, PCs
<1>4. TailInv'
  BY DEF TailInv, TypeOK, PCs
<1>5. EachTaskOnce'
  BY DEF EachTaskOnce, TypeOK, PCs
<1> QED
  BY <1>1, <1>2, <1>3, <1>4, <1>5

LEMMA PopLockPreserves ==
  ASSUME IInv, NEW t \in Threads, PopLock(t)
  PROVE  IInv'
<1> USE TaskListAssumption DEF IInv, PopLock, Goto, Lock!Acquire
<1>1. TypeOK'
  BY DEF TypeOK, PCs
<1>2. LockInv'
  BY DEF LockInv, TypeOK, PCs, Inside
<1>3. TaskInv' /\ HeadInv' /\ Chained'
  BY DEF TaskInv, HeadInv, Chained, TypeOK, PCs
<1>4. TailInv'
  BY DEF TailInv, TypeOK, PCs
<1>5. EachTaskOnce'
  BY DEF EachTaskOnce, TypeOK, PCs
<1> QED
  BY <1>1, <1>2, <1>3, <1>4, <1>5

\* pop_task reads head: the first task of the list, or NULL.
LEMMA PopTestPreserves ==
  ASSUME IInv, NEW t \in Threads, PopTest(t)
  PROVE  IInv'
<1> USE TaskListAssumption DEF IInv, PopTest, Goto
<1>0. /\ Len(items) \in Nat
      /\ items = <<>> <=> Len(items) = 0
      /\ \A i \in 1 .. Len(items) : items[i] \in Tasks
  BY EmptyFacts DEF TypeOK
<1>1. \A u \in Threads \ {t} : pc[u] \notin Inside
  BY DEF LockInv, Inside
<1>2. TypeOK'
  BY DEF TypeOK, PCs
<1>3. LockInv'
  BY DEF LockInv, TypeOK, PCs, Inside
<1>4. TaskInv'
  BY <1>0 DEF TaskInv, HeadInv, TypeOK, PCs
<1>5. HeadInv' /\ Chained' /\ TailInv'
  BY DEF HeadInv, Chained, TailInv, TypeOK, PCs
<1>6. EachTaskOnce'
  <2>1. \A u \in Threads \ {t} : task[u] = head /\ head # NULL => FALSE
    BY <1>0, <1>1, RangeOfItems DEF EachTaskOnce, TaskInv, HeadInv, TypeOK, PCs, Inside
  <2> QED
    BY <2>1 DEF EachTaskOnce, TypeOK, PCs
<1> QED
  BY <1>2, <1>3, <1>4, <1>5, <1>6

\* The first task leaves: head takes its link, and it is nowhere else in
\* the list.
LEMMA PopNextPreserves ==
  ASSUME IInv, NEW t \in Threads, PopNext(t)
  PROVE  IInv'
<1> DEFINE n == Len(items)
<1> USE TaskListAssumption DEF IInv, PopNext, Goto
<1>0. /\ n \in Nat
      /\ items # <<>>
      /\ task[t] = items[1]
      /\ \A i \in 1 .. n : items[i] \in Tasks
  BY EmptyFacts DEF TypeOK, TaskInv, PCs
<1>1. /\ items' \in Seq(Tasks)
      /\ Len(items') = n - 1
      /\ \A i \in 1 .. n - 1 : items'[i] = items[i + 1]
      /\ items' = <<>> <=> n = 1
      /\ n >= 1
  BY <1>0, TailFacts DEF TypeOK
<1>2. \A u \in Threads \ {t} : pc[u] \notin Inside
  BY DEF LockInv, Inside
<1>3. TypeOK'
  BY <1>0, <1>1 DEF TypeOK, PCs
<1>4. LockInv'
  BY DEF LockInv, TypeOK, PCs, Inside
<1>5. TaskInv'
  BY <1>0, <1>2 DEF TaskInv, TypeOK, PCs, Inside
<1>6. HeadInv'
  <2>1. next[items[1]] = IF n = 1 THEN NULL ELSE items[2]
    <3>1. 1 \in 1 .. n /\ 1 + 1 = 2
      BY <1>0, <1>1
    <3>2. next[items[1]] = IF 1 = n THEN NULL ELSE items[1 + 1]
      BY <3>1 DEF Chained
    <3> QED
      BY <3>1, <3>2
  <2>2. n # 1 => items'[1] = items[2]
    BY <1>0, <1>1
  <2> QED
    BY <1>0, <1>1, <2>1, <2>2 DEF HeadInv
<1>7. TailInv'
  <2>1. tail = items[n]
    BY <1>0, <1>2 DEF TailInv, Inside
  <2> QED
    BY <1>1, <1>2, <2>1 DEF TailInv, TypeOK, Inside, PCs
<1>8. Chained'
  <2>1. ASSUME NEW i \in 1 .. n - 1
        PROVE  next[items'[i]] = IF i = n - 1 THEN NULL ELSE items'[i + 1]
    <3>1. /\ items'[i] = items[i + 1]
          /\ i + 1 \in 1 .. n
          /\ i + 1 = n <=> i = n - 1
      BY <1>0, <1>1
    <3>2. next[items[i + 1]] = IF i + 1 = n THEN NULL ELSE items[(i + 1) + 1]
      BY <3>1 DEF Chained
    <3>3. i # n - 1 => i + 1 \in 1 .. n - 1
      BY <1>0
    <3>4. i # n - 1 => items'[i + 1] = items[(i + 1) + 1]
      BY <1>1, <3>3
    <3> QED
      BY <3>1, <3>2, <3>4
  <2>2. next' = next
    OBVIOUS
  <2> QED
    BY ZenonT(60), <1>1, <2>1, <2>2 DEF Chained
<1>9. \A x : x \in Range(items)' => x \in Range(items) /\ x # task[t]
  <2>1. \A x : x \in Range(items)' => \E i \in 1 .. n - 1 : x = items[i + 1]
    BY <1>1, <1>3, LenProperties DEF TypeOK, Range
  <2> QED
    BY <1>0, <1>1, <2>1, RangeOfItems DEF EachTaskOnce
<1>10. EachTaskOnce'
  <2>1. \A i, j \in 1 .. n - 1 : items'[i] = items'[j] => i = j
    BY <1>1 DEF EachTaskOnce
  <2> QED
    BY <1>1, <1>9, <2>1 DEF EachTaskOnce, TypeOK, PCs
<1> QED
  BY <1>3, <1>4, <1>5, <1>6, <1>7, <1>8, <1>10

LEMMA PopResetPreserves ==
  ASSUME IInv, NEW t \in Threads, PopReset(t)
  PROVE  IInv'
<1> USE TaskListAssumption DEF IInv, PopReset, Goto
<1>0. /\ Len(items) \in Nat
      /\ items = <<>> <=> Len(items) = 0
      /\ \A i \in 1 .. Len(items) : items[i] \in Tasks
  BY EmptyFacts DEF TypeOK
<1>1. \A u \in Threads \ {t} : pc[u] \notin Inside
  BY DEF LockInv, Inside
<1>2. TypeOK'
  BY DEF TypeOK, PCs
<1>3. LockInv'
  BY DEF LockInv, TypeOK, PCs, Inside
<1>4. TaskInv' /\ HeadInv' /\ Chained'
  BY DEF TaskInv, HeadInv, Chained, TypeOK, PCs
<1>5. TailInv'
  BY <1>0, <1>1 DEF TailInv, HeadInv, TypeOK, PCs, Inside
<1>6. EachTaskOnce'
  BY DEF EachTaskOnce, TypeOK, PCs
<1> QED
  BY <1>2, <1>3, <1>4, <1>5, <1>6

LEMMA PopUnlockPreserves ==
  ASSUME IInv, NEW t \in Threads, PopUnlock(t)
  PROVE  IInv'
<1> USE TaskListAssumption DEF IInv, PopUnlock, Lock!Release
<1>1. TypeOK'
  BY DEF TypeOK, PCs
<1>2. LockInv'
  BY DEF LockInv, TypeOK, PCs, Inside
<1>3. TaskInv' /\ HeadInv' /\ Chained'
  BY DEF TaskInv, HeadInv, Chained, TypeOK, PCs
<1>4. TailInv'
  BY DEF TailInv, TypeOK, PCs
<1>5. EachTaskOnce'
  BY DEF EachTaskOnce, TypeOK, PCs
<1> QED
  BY <1>1, <1>2, <1>3, <1>4, <1>5

LEMMA StepPreservesIInv == IInv /\ [Next]_vars => IInv'
<1> SUFFICES ASSUME IInv, [Next]_vars PROVE IInv'
  OBVIOUS
<1>1. CASE UNCHANGED vars
  BY <1>1 DEF vars, IInv, TypeOK, LockInv, TaskInv, HeadInv, TailInv, Chained,
              EachTaskOnce, Inside, PCs
<1>2. ASSUME NEW t \in Threads, Add(t) PROVE IInv'
  BY <1>2, AddCallPreserves, AddLockPreserves, AddLinkPreserves,
     AddTailPreserves, AddUnlockPreserves DEF Add
<1>3. ASSUME NEW t \in Threads, Pop(t) PROVE IInv'
  BY <1>3, PopCallPreserves, PopLockPreserves, PopTestPreserves,
     PopNextPreserves, PopResetPreserves, PopUnlockPreserves DEF Pop
<1> QED
  BY <1>1, <1>2, <1>3 DEF Next

\* The inductive invariant holds in every reachable state.
THEOREM TaskListInvariant == Spec => []IInv
  BY InitEstablishesIInv, StepPreservesIInv, PTL DEF Spec

\* Whenever the lock is free, head, tail and the links spell the queue.
THEOREM TaskListSpellsQueue == Spec => []ListSpellsQueue
<1>1. IInv => ListSpellsQueue
  BY DEF IInv, ListSpellsQueue, LockInv, HeadInv, TailInv, TypeOK, Inside
<1> QED
  BY <1>1, TaskListInvariant, PTL

\* No task is in the list twice, or in the list and in a caller's hands.
THEOREM TaskListHoldsEachTaskOnce == Spec => []EachTaskOnce
<1>1. IInv => EachTaskOnce
  BY DEF IInv
<1> QED
  BY <1>1, TaskListInvariant, PTL

-----------------------------------------------------------------------------
(* The refinement *)

LEMMA AddRefinesFifo ==
  ASSUME IInv, NEW t \in Threads, Add(t)
  PROVE  Fifo!Next \/ UNCHANGED <<items, FifoCall, FifoVal>>
<1> USE TaskListAssumption DEF IInv, Goto
<1>0. TypeOK /\ TaskInv
  OBVIOUS
<1>1. ASSUME NEW x \in Tasks, AddCall(t, x) PROVE Fifo!CallPut(t, x)
  <2>1. x \notin Fifo!InUse
    BY <1>1 DEF AddCall, Fifo!InUse, InUse, FifoVal, Range, Fifo!Range
  <2>2. /\ FifoCall[t] = "none"
        /\ FifoCall' = [FifoCall EXCEPT ![t] = "put"]
        /\ FifoVal' = [FifoVal EXCEPT ![t] = x]
    BY <1>1, <1>0 DEF AddCall, FifoCall, FifoVal, TypeOK, PCs
  <2> QED
    BY <1>1, <2>1, <2>2 DEF AddCall, Fifo!CallPut
<1>2. CASE AddLock(t) \/ AddTail(t)
  BY <1>2 DEF AddLock, AddTail, FifoCall, FifoVal, TypeOK, PCs
<1>3. CASE AddLink(t)
  <2>1. /\ FifoCall[t] = "put"
        /\ FifoVal[t] = task[t]
        /\ FifoCall' = [FifoCall EXCEPT ![t] = "done"]
        /\ FifoVal' = [FifoVal EXCEPT ![t] = NULL]
    BY <1>3, <1>0 DEF AddLink, FifoCall, FifoVal, TypeOK, TaskInv, PCs
  <2> QED
    BY <1>3, <2>1 DEF AddLink, Fifo!Put, Fifo!Next
<1>4. CASE AddUnlock(t)
  <2>1. /\ FifoCall[t] = "done"
        /\ FifoCall' = [FifoCall EXCEPT ![t] = "none"]
        /\ FifoVal' = [FifoVal EXCEPT ![t] = NULL]
    BY <1>4, <1>0 DEF AddUnlock, FifoCall, FifoVal, TypeOK, TaskInv, PCs
  <2> QED
    BY <1>4, <2>1 DEF AddUnlock, Fifo!Return, Fifo!Next
<1> QED
  BY <1>1, <1>2, <1>3, <1>4 DEF Add, Fifo!Next

LEMMA PopRefinesFifo ==
  ASSUME IInv, NEW t \in Threads, Pop(t)
  PROVE  Fifo!Next \/ UNCHANGED <<items, FifoCall, FifoVal>>
<1> USE TaskListAssumption DEF IInv, Goto
<1>0. TypeOK /\ TaskInv
  OBVIOUS
<1>1. CASE PopCall(t)
  <2>1. /\ FifoCall[t] = "none"
        /\ FifoCall' = [FifoCall EXCEPT ![t] = "get"]
        /\ FifoVal' = FifoVal
    BY <1>1 DEF PopCall, FifoCall, FifoVal, TypeOK, PCs
  <2> QED
    BY <1>1, <2>1 DEF PopCall, Fifo!CallGet, Fifo!Next
<1>2. CASE PopLock(t) \/ PopReset(t)
  BY <1>2 DEF PopLock, PopReset, FifoCall, FifoVal, TypeOK, PCs
<1>3. CASE PopTest(t)
  <2>1. CASE head = NULL
    <3>1. items = <<>>
      BY <2>1, EmptyFacts DEF HeadInv, TypeOK
    <3>2. /\ FifoCall[t] = "get"
          /\ FifoCall' = [FifoCall EXCEPT ![t] = "done"]
          /\ FifoVal' = FifoVal
      BY <1>3, <2>1 DEF PopTest, FifoCall, FifoVal, TypeOK, PCs
    <3> QED
      BY <1>3, <3>1, <3>2 DEF PopTest, Fifo!GetNothing, Fifo!Next
  <2>2. CASE head # NULL
    BY <1>3, <2>2 DEF PopTest, FifoCall, FifoVal, TypeOK, PCs
  <2> QED
    BY <2>1, <2>2
<1>4. CASE PopNext(t)
  <2>1. items # <<>> /\ task[t] = Head(items)
    BY <1>4, TailFacts DEF PopNext, TaskInv, TypeOK
  <2>2. /\ FifoCall[t] = "get"
        /\ FifoCall' = [FifoCall EXCEPT ![t] = "done"]
        /\ FifoVal' = [FifoVal EXCEPT ![t] = task[t]]
    BY <1>4, <1>0 DEF PopNext, FifoCall, FifoVal, TypeOK, TaskInv, PCs
  <2> QED
    BY <1>4, <2>1, <2>2 DEF PopNext, Fifo!Get, Fifo!Next
<1>5. CASE PopUnlock(t)
  <2>1. /\ FifoCall[t] = "done"
        /\ FifoCall' = [FifoCall EXCEPT ![t] = "none"]
        /\ FifoVal' = [FifoVal EXCEPT ![t] = NULL]
    BY <1>5, <1>0 DEF PopUnlock, FifoCall, FifoVal, TypeOK, TaskInv, PCs
  <2> QED
    BY <1>5, <2>1 DEF PopUnlock, Fifo!Return, Fifo!Next
<1> QED
  BY <1>1, <1>2, <1>3, <1>4, <1>5 DEF Pop

\* The linked list under its spin lock implements the queue the pool uses:
\* tasks leave in the order they were added, each once, and pop_task
\* returns NULL only when the queue was empty.
THEOREM TaskListImplementsFifo == Spec => ImplementsFifo
<1>1. Init => Fifo!Init
  BY DEF Init, Fifo!Init, FifoCall, FifoVal
<1>2. IInv /\ [Next]_vars => [Fifo!Next]_<<items, FifoCall, FifoVal>>
  <2>1. UNCHANGED vars => UNCHANGED <<items, FifoCall, FifoVal>>
    BY DEF vars, FifoCall, FifoVal
  <2> QED
    BY <2>1, AddRefinesFifo, PopRefinesFifo DEF Next
<1> QED
  BY <1>1, <1>2, TaskListInvariant, PTL
     DEF Spec, ImplementsFifo, Fifo!Spec, Fifo!vars

-----------------------------------------------------------------------------
(* The proof that replies are true.  First, what the servers do with what  *)
(* was said.                                                               *)

\* What a client has said, and what it has said with one byte more.
LEMMA SaidFacts ==
  ASSUME NEW c \in Clients, NEW n \in Nat
  PROVE  /\ [i \in 1 .. n |-> <<c, i>>] \in Seq(Clients \X Nat)
         /\ Append([i \in 1 .. n |-> <<c, i>>], <<c, n + 1>>) = [i \in 1 .. n + 1 |-> <<c, i>>]
<1> DEFINE said(k) == [i \in 1 .. k |-> <<c, i>>]
<1>1. \A k \in Nat : said(k) \in Seq(Clients \X Nat) /\ Len(said(k)) = k
  OBVIOUS
<1>2. Append(said(n), <<c, n + 1>>) \in Seq(Clients \X Nat)
  BY <1>1, AppendProperties
<1>3. Len(Append(said(n), <<c, n + 1>>)) = n + 1
  BY <1>1, AppendProperties
<1>4. \A i \in 1 .. n + 1 : Append(said(n), <<c, n + 1>>)[i] = said(n + 1)[i]
  <2> TAKE i \in 1 .. n + 1
  <2>1. CASE i = n + 1
    BY <1>1, <2>1, AppendProperties
  <2>2. CASE i \in 1 .. n
    BY <1>1, <2>2, AppendProperties
  <2> QED
    BY <2>1, <2>2
<1>5. Append(said(n), <<c, n + 1>>) = said(n + 1)
  <2>1. n + 1 \in Nat
    OBVIOUS
  <2> HIDE DEF said
  <2> QED
    BY <1>1, <1>2, <1>3, <1>4, <2>1, SeqEqual
<1> QED
  BY <1>1, <1>5

\* What recv returns and what it leaves.
LEMMA RecvFacts ==
  ASSUME NEW s \in Seq(Clients \X Nat), NEW n \in Nat, n > 0, s # <<>>
  PROVE  LET first == SubSeq(s, 1, IF Len(s) < n THEN Len(s) ELSE n)
             rest == SubSeq(s, Len(first) + 1, Len(s))
         IN  /\ first \in Seq(Clients \X Nat) /\ rest \in Seq(Clients \X Nat)
             /\ first \o rest = s
             /\ Len(first) <= n
<1> DEFINE k == IF Len(s) < n THEN Len(s) ELSE n
<1>1. Len(s) \in Nat
  BY LenProperties
<1>2. k \in 0 .. Len(s) /\ k <= n
  BY <1>1
<1> HIDE DEF k
<1>3. /\ SubSeq(s, 1, k) \in Seq(Clients \X Nat) /\ Len(SubSeq(s, 1, k)) = k
      /\ SubSeq(s, k + 1, Len(s)) \in Seq(Clients \X Nat)
      /\ SubSeq(s, 1, k) \o SubSeq(s, k + 1, Len(s)) = s
  BY <1>2, SplitFacts
<1> QED
  BY <1>2, <1>3 DEF k

-----------------------------------------------------------------------------
(* The echo server multi-io *)

LEMMA MultiIoInit ==
  ASSUME M!MultiIoAssumption, M!Init
  PROVE  M!IInv
<1> USE M!MultiIoAssumption, M!Init DEF M!MultiIoAssumption, M!Init, M!Net!Init
<1>1. <<>> \in Seq(Clients \X Nat)
  OBVIOUS
<1>2. M!Net!TypeOK
  BY <1>1 DEF M!Net!TypeOK, M!Net!Bytes
<1>3. M!Net!FdsAreOwn
  BY DEF M!Net!FdsAreOwn
<1>4. M!EchoConserves
  BY DEF M!EchoConserves
<1> QED
  BY ZenonT(60), <1>1, <1>2, <1>3, <1>4 DEF M!IInv, M!Net!Bytes

\* A client that a step does not concern.
LEMMA MultiIoOthers ==
  ASSUME NEW d \in Clients, M!EchoConserves, peer'[d] = peer[d], sent'[d] = sent[d],
         got'[d] = got[d], inbox'[d] = inbox[d], fd'[d] = fd[d],
         fd[d] # NULL => event'[fd[d]] = event[fd[d]] /\ wbuffer'[fd[d]] = wbuffer[fd[d]]
  PROVE  peer'[d] = "up" => M!Conserves(d)'
BY ZenonT(60) DEF M!EchoConserves, M!Conserves, M!Pending, M!Said

LEMMA MultiIoClient ==
  ASSUME M!MultiIoAssumption, M!IInv, NEW c \in Clients, M!Client(c)
  PROVE  M!IInv'
<1> USE DEF M!IInv, M!items, M!Net!Bytes
<1>0. M!Net!TypeOK /\ M!Net!FdsAreOwn /\ M!EchoConserves
  OBVIOUS
<1>1. CASE M!Net!Connect(c)
  <2> USE <1>1 DEF M!Client, M!Net!Connect
  <2>1. M!Net!TypeOK'
    BY DEF M!Net!TypeOK
  <2>2. M!Net!FdsAreOwn'
    BY DEF M!Net!TypeOK, M!Net!FdsAreOwn
  <2>3. M!EchoConserves'
    <3> SUFFICES ASSUME NEW d \in Clients, peer'[d] = "up" PROVE M!Conserves(d)'
      BY DEF M!EchoConserves
    <3>1. CASE d = c
      <4>1. sent[c] = 0 /\ inbox[c] = <<>> /\ got[c] = <<>> /\ fd[c] = NULL
        BY DEF M!Net!FdsAreOwn
      <4> QED
        BY <3>1, <4>1 DEF M!Conserves, M!Pending, M!Said
    <3>2. CASE d # c
      BY <1>0, <3>2, MultiIoOthers DEF M!Net!TypeOK
    <3> QED
      BY <3>1, <3>2
  <2> QED
    BY <2>1, <2>2, <2>3 DEF M!Client
<1>2. CASE M!Net!Say(c)
  <2> USE <1>2 DEF M!Client, M!Net!Say
  <2>0. /\ sent[c] \in Nat /\ inbox[c] \in Seq(Clients \X Nat)
        /\ got[c] \in Seq(Clients \X Nat)
        /\ <<c, sent[c] + 1>> \in Clients \X Nat
    BY DEF M!Net!TypeOK
  <2>1. M!Net!TypeOK'
    BY <2>0, AppendProperties DEF M!Net!TypeOK
  <2>2. M!Net!FdsAreOwn'
    BY DEF M!Net!TypeOK, M!Net!FdsAreOwn
  <2>3. M!EchoConserves'
    <3> SUFFICES ASSUME NEW d \in Clients, peer'[d] = "up" PROVE M!Conserves(d)'
      BY DEF M!EchoConserves
    <3>1. CASE d = c
      <4>1. M!Conserves(c) /\ M!Pending(c)' = M!Pending(c)
        BY <1>0 DEF M!EchoConserves, M!Pending
      <4>2. M!Pending(c) \in Seq(Clients \X Nat)
        BY DEF M!Pending, M!Net!TypeOK
      <4>3. got[c] \o M!Pending(c) \in Seq(Clients \X Nat)
        BY <2>0, <4>2, ConcatProperties
      <4>4. (got[c] \o M!Pending(c)) \o Append(inbox[c], <<c, sent[c] + 1>>)
              = Append((got[c] \o M!Pending(c)) \o inbox[c], <<c, sent[c] + 1>>)
        <5>1. \A s, t \in Seq(Clients \X Nat) : \A x \in Clients \X Nat :
                s \o Append(t, x) = Append(s \o t, x)
          BY SMTT(30), AppendBehind
        <5> HIDE <1>2 DEF M!Client, M!Net!Say
        <5> QED
          BY <2>0, <4>3, <5>1
      <4>5. /\ inbox'[c] = Append(inbox[c], <<c, sent[c] + 1>>)
            /\ got'[c] = got[c] /\ sent'[c] = sent[c] + 1
        BY DEF M!Net!TypeOK
      <4>6. Append(M!Said(c), <<c, sent[c] + 1>>) = M!Said(c)'
        BY <2>0, <4>5, SaidFacts DEF M!Said
      <4> QED
        BY <3>1, <4>1, <4>4, <4>5, <4>6 DEF M!Conserves
    <3>2. CASE d # c
      BY <1>0, <3>2, MultiIoOthers DEF M!Net!TypeOK
    <3> QED
      BY <3>1, <3>2
  <2> QED
    BY <2>1, <2>2, <2>3 DEF M!Client
<1>3. CASE M!Net!Leave(c)
  <2> USE <1>3 DEF M!Client, M!Net!Leave
  <2>1. M!Net!TypeOK'
    BY DEF M!Net!TypeOK
  <2>2. M!Net!FdsAreOwn'
    BY DEF M!Net!TypeOK, M!Net!FdsAreOwn
  <2>3. M!EchoConserves'
    BY <1>0, MultiIoOthers DEF M!Net!TypeOK, M!EchoConserves
  <2> QED
    BY <2>1, <2>2, <2>3 DEF M!Client
<1> QED
  BY <1>1, <1>2, <1>3 DEF M!Client

LEMMA MultiIoAccept ==
  ASSUME M!MultiIoAssumption, M!IInv, NEW c \in Clients, M!accept_cb(c)
  PROVE  M!IInv'
<1> USE DEF M!IInv, M!Net!Bytes, M!MultiIoAssumption
<1>0. M!Net!TypeOK /\ M!Net!FdsAreOwn /\ M!EchoConserves
  OBVIOUS
<1>1. PICK f \in Fds : /\ M!Net!Accept(c, f)
                       /\ event' = [event EXCEPT ![f] = "in"]
                       /\ rbuffer' = [rbuffer EXCEPT ![f] = <<>>]
                       /\ wbuffer' = [wbuffer EXCEPT ![f] = <<>>]
  BY DEF M!accept_cb
<1>2. down' = down
  BY DEF M!accept_cb
<1>3. /\ c \in backlog /\ \A d \in Clients : fd[d] # f
      /\ backlog' = backlog \ {c} /\ fd' = [fd EXCEPT ![c] = f]
      /\ UNCHANGED <<peer, sent, inbox, got, broken>>
      /\ f # NULL
  BY <1>1 DEF M!Net!Accept, M!Net!Free
<1>4. M!Net!TypeOK'
  BY <1>3 DEF M!Net!TypeOK
<1>5. M!Net!FdsAreOwn'
  BY <1>3 DEF M!Net!TypeOK, M!Net!FdsAreOwn
<1>6. M!EchoConserves'
  <2> SUFFICES ASSUME NEW d \in Clients, peer'[d] = "up" PROVE M!Conserves(d)'
    BY DEF M!EchoConserves
  <2>1. CASE d = c
    <3>1. fd[c] = NULL /\ fd'[c] = f /\ event'[f] = "in"
      BY <1>1, <1>3 DEF M!Net!TypeOK, M!Net!FdsAreOwn
    <3>2. M!Pending(c) = <<>> /\ M!Pending(c)' = <<>>
      BY <3>1 DEF M!Pending
    <3>3. M!Conserves(c)
      BY <1>0, <1>3, <2>1 DEF M!EchoConserves
    <3> QED
      BY <1>3, <2>1, <3>2, <3>3 DEF M!Conserves, M!Said
  <2>2. CASE d # c
    <3>1. fd'[d] = fd[d] /\ fd[d] # f
      BY <1>3, <2>2 DEF M!Net!TypeOK
    <3>2. fd[d] # NULL => event'[fd[d]] = event[fd[d]] /\ wbuffer'[fd[d]] = wbuffer[fd[d]]
      BY <1>1, <3>1 DEF M!Net!TypeOK
    <3> QED
      BY <1>0, <1>3, <3>1, <3>2, MultiIoOthers
  <2> QED
    BY <2>1, <2>2
<1>7. <<>> \in Seq(Clients \X Nat)
  OBVIOUS
<1>8. /\ rbuffer' = [g \in Fds |-> <<>>]
      /\ wbuffer' \in [Fds -> Seq(Clients \X Nat)]
      /\ event' \in [Fds -> {"none", "in", "out"}]
  BY <1>1, <1>7
<1> QED
  BY <1>2, <1>4, <1>5, <1>6, <1>8

LEMMA MultiIoRecv ==
  ASSUME M!MultiIoAssumption, M!IInv, NEW c \in Clients, M!recv_cb(c)
  PROVE  M!IInv'
<1> USE DEF M!IInv, M!Net!Bytes
<1> DEFINE f == fd[c]
           first == M!Net!Received(c, BUFFER_LENGTH)
           rest == SubSeq(inbox[c], Len(first) + 1, Len(inbox[c]))
<1>0. M!Net!TypeOK /\ M!Net!FdsAreOwn /\ M!EchoConserves
  OBVIOUS
<1>1. /\ BUFFER_LENGTH \in Nat /\ BUFFER_LENGTH > 0
      /\ f # NULL /\ f \in Fds /\ event[f] = "in" /\ rbuffer[f] = <<>>
  BY DEF M!recv_cb, M!Ready, M!MultiIoAssumption, M!Net!TypeOK
<1>2. Len(rbuffer[f]) = 0 /\ BUFFER_LENGTH - 0 = BUFFER_LENGTH
  BY <1>1
<1>3. /\ M!Net!Recv(c, BUFFER_LENGTH)
      /\ wbuffer' = [wbuffer EXCEPT ![f] = <<>> \o first]
      /\ rbuffer' = [rbuffer EXCEPT ![f] = <<>>]
      /\ event' = [event EXCEPT ![f] = "out"]
      /\ down' = down
  BY <1>1, <1>2 DEF M!recv_cb
<1>4. /\ inbox[c] \in Seq(Clients \X Nat) /\ inbox[c] # <<>>
      /\ got[c] \in Seq(Clients \X Nat)
      /\ inbox' = [inbox EXCEPT ![c] = rest]
      /\ UNCHANGED <<peer, backlog, fd, sent, got, broken>>
  BY <1>3 DEF M!Net!Recv, M!Net!TypeOK
<1>5. /\ first \in Seq(Clients \X Nat) /\ rest \in Seq(Clients \X Nat)
      /\ first \o rest = inbox[c]
  BY <1>1, <1>4, RecvFacts DEF M!Net!Received
<1>6. <<>> \o first = first
  BY <1>5, ConcatEmptySeq
<1> HIDE DEF first, rest
<1>7. M!Net!TypeOK'
  BY <1>4, <1>5 DEF M!Net!TypeOK
<1>8. M!Net!FdsAreOwn'
  BY <1>4 DEF M!Net!TypeOK, M!Net!FdsAreOwn
<1>9. M!EchoConserves'
  <2> SUFFICES ASSUME NEW d \in Clients, peer'[d] = "up" PROVE M!Conserves(d)'
    BY DEF M!EchoConserves
  <2>1. CASE d = c
    <3>1. M!Pending(c) = <<>>
      BY <1>1 DEF M!Pending
    <3>2. M!Pending(c)' = first
      BY <1>1, <1>3, <1>4, <1>6 DEF M!Pending
    <3>3. (got[c] \o <<>>) \o inbox[c] = M!Said(c)
      BY <1>0, <1>4, <2>1, <3>1 DEF M!EchoConserves, M!Conserves
    <3>4. got[c] \o <<>> = got[c]
      BY <1>4, ConcatEmptySeq
    <3>5. (got[c] \o first) \o rest = got[c] \o (first \o rest)
      <4>1. \A r, t, u \in Seq(Clients \X Nat) : (r \o t) \o u = r \o (t \o u)
        BY SMTT(30), ConcatAssociative
      <4> QED
        BY ZenonT(60), <1>4, <1>5, <4>1
    <3>6. inbox'[c] = rest /\ got'[c] = got[c] /\ M!Said(c)' = M!Said(c)
      BY <1>4 DEF M!Net!TypeOK, M!Said
    <3> QED
      BY <1>5, <2>1, <3>2, <3>3, <3>4, <3>5, <3>6 DEF M!Conserves
  <2>2. CASE d # c
    <3>1. fd[d] # NULL => fd[d] # f
      BY <1>1, <2>2 DEF M!Net!FdsAreOwn
    <3>2. fd[d] # NULL => event'[fd[d]] = event[fd[d]] /\ wbuffer'[fd[d]] = wbuffer[fd[d]]
      BY <1>3, <3>1 DEF M!Net!TypeOK
    <3> QED
      BY <1>0, <1>4, <2>2, <3>2, MultiIoOthers DEF M!Net!TypeOK
  <2> QED
    BY <2>1, <2>2
<1>10. /\ rbuffer' = [g \in Fds |-> <<>>]
       /\ wbuffer' \in [Fds -> Seq(Clients \X Nat)]
       /\ event' \in [Fds -> {"none", "in", "out"}]
  BY <1>3, <1>5, <1>6
<1> QED
  BY <1>3, <1>7, <1>8, <1>9, <1>10

\* recv returns 0 or -1: the client is not "up" afterwards.
LEMMA MultiIoEnds ==
  ASSUME M!MultiIoAssumption, M!IInv, NEW c \in Clients, M!recv_end(c) \/ M!recv_error(c)
  PROVE  M!IInv'
<1> USE DEF M!IInv, M!Net!Bytes
<1>0. /\ M!Net!TypeOK /\ M!Net!FdsAreOwn /\ M!EchoConserves
      /\ <<>> \in Seq(Clients \X Nat)
      /\ fd[c] # NULL /\ fd[c] \in Fds
  BY DEF M!recv_end, M!recv_error, M!Ready, M!Net!TypeOK
<1>1. CASE M!recv_end(c)
  <2>1. /\ peer[c] = "fin" /\ fd' = [fd EXCEPT ![c] = NULL]
        /\ inbox' = [inbox EXCEPT ![c] = <<>>]
        /\ event' = [event EXCEPT ![fd[c]] = "none"]
        /\ UNCHANGED <<peer, backlog, sent, got, broken, rbuffer, wbuffer, down>>
    BY <1>1 DEF M!recv_end, M!Net!AtEnd, M!Net!Close
  <2>2. M!Net!TypeOK'
    BY <1>0, <2>1 DEF M!Net!TypeOK
  <2>3. M!Net!FdsAreOwn'
    BY <2>1 DEF M!Net!TypeOK, M!Net!FdsAreOwn
  <2>4. M!EchoConserves'
    <3> SUFFICES ASSUME NEW d \in Clients, peer'[d] = "up" PROVE M!Conserves(d)'
      BY DEF M!EchoConserves
    <3>1. d # c
      BY <2>1
    <3>2. fd[d] # NULL => fd[d] # fd[c]
      BY <1>0, <3>1 DEF M!Net!FdsAreOwn
    <3>3. fd[d] # NULL => event'[fd[d]] = event[fd[d]] /\ wbuffer'[fd[d]] = wbuffer[fd[d]]
      BY <2>1, <3>2 DEF M!Net!TypeOK
    <3> QED
      BY <1>0, <2>1, <3>1, <3>3, MultiIoOthers DEF M!Net!TypeOK
  <2> QED
    BY <2>1, <2>2, <2>3, <2>4
<1>2. CASE M!recv_error(c)
  <2>1. /\ peer[c] = "reset" /\ peer' = [peer EXCEPT ![c] = "fin"]
        /\ broken' = broken \cup {c} /\ down' = TRUE
        /\ UNCHANGED <<backlog, fd, sent, inbox, got, rbuffer, wbuffer, event>>
    BY <1>2 DEF M!recv_error, M!Net!AtError, M!Net!TakeError, M!items
  <2>2. M!Net!TypeOK'
    BY <2>1 DEF M!Net!TypeOK
  <2>3. M!Net!FdsAreOwn'
    BY <2>1 DEF M!Net!TypeOK, M!Net!FdsAreOwn
  <2>4. M!EchoConserves'
    BY <1>0, <2>1, MultiIoOthers DEF M!Net!TypeOK, M!EchoConserves
  <2> QED
    BY <2>1, <2>2, <2>3, <2>4
<1> QED
  BY <1>1, <1>2

LEMMA MultiIoSend ==
  ASSUME M!MultiIoAssumption, M!IInv, NEW c \in Clients, M!send_cb(c)
  PROVE  M!IInv'
<1> USE DEF M!IInv, M!Net!Bytes
<1> DEFINE w == wbuffer[fd[c]]
<1>0. /\ M!Net!TypeOK /\ M!Net!FdsAreOwn /\ M!EchoConserves
      /\ fd[c] # NULL /\ fd[c] \in Fds /\ event[fd[c]] = "out"
      /\ w \in Seq(Clients \X Nat) /\ got[c] \in Seq(Clients \X Nat)
  BY DEF M!send_cb, M!Ready, M!Net!TypeOK
<1>1. /\ event' = [event EXCEPT ![fd[c]] = "in"]
      /\ down' \in BOOLEAN
      /\ UNCHANGED <<rbuffer, wbuffer>>
      /\ M!Net!Send(c, w)
  BY DEF M!send_cb, M!Net!SendKills
<1>2. \/ /\ peer[c] = "up" /\ peer' = peer /\ broken' = broken
         /\ got' = [got EXCEPT ![c] = @ \o w]
      \/ /\ peer[c] # "up" /\ got' = got /\ broken' = broken \cup {c}
         /\ peer' = peer \/ (peer' = [peer EXCEPT ![c] = "fin"])
  BY <1>1 DEF M!Net!Send, M!Net!TakeError
<1>3. UNCHANGED <<backlog, fd, sent, inbox>>
  BY <1>1 DEF M!Net!Send, M!Net!TakeError
<1>4. peer[c] # "out"
  BY <1>0 DEF M!Net!FdsAreOwn
<1>5. got[c] \o w \in Seq(Clients \X Nat)
  BY <1>0, ConcatProperties
<1> HIDE DEF w
<1>6. M!Net!TypeOK'
  BY <1>2, <1>3, <1>5 DEF M!Net!TypeOK
<1>7. M!Net!FdsAreOwn'
  <2> \A d \in Clients : peer'[d] = "out" => peer[d] = "out" /\ got'[d] = got[d]
    BY <1>2, <1>4 DEF M!Net!TypeOK
  <2> QED
    BY <1>3 DEF M!Net!TypeOK, M!Net!FdsAreOwn
<1>8. M!EchoConserves'
  <2> SUFFICES ASSUME NEW d \in Clients, peer'[d] = "up" PROVE M!Conserves(d)'
    BY DEF M!EchoConserves
  <2>0. peer[d] = "up"
    BY <1>2 DEF M!Net!TypeOK
  <2>1. CASE d = c
    <3>1. M!Pending(c) = w
      BY <1>0 DEF M!Pending, w
    <3>2. M!Pending(c)' = <<>>
      BY <1>0, <1>1, <1>3 DEF M!Pending
    <3>3. (got[c] \o w) \o inbox[c] = M!Said(c)
      BY <1>0, <2>0, <2>1, <3>1 DEF M!EchoConserves, M!Conserves
    <3>4. got'[c] = got[c] \o w
      BY <1>2, <2>0, <2>1 DEF M!Net!TypeOK
    <3>5. (got[c] \o w) \o <<>> = got[c] \o w
      BY <1>5, ConcatEmptySeq
    <3>6. inbox'[c] = inbox[c] /\ M!Said(c)' = M!Said(c)
      BY <1>3 DEF M!Said
    <3> QED
      BY <2>1, <3>2, <3>3, <3>4, <3>5, <3>6 DEF M!Conserves
  <2>2. CASE d # c
    <3>1. fd[d] # NULL => fd[d] # fd[c]
      BY <1>0, <2>2 DEF M!Net!FdsAreOwn
    <3>2. fd[d] # NULL => event'[fd[d]] = event[fd[d]] /\ wbuffer'[fd[d]] = wbuffer[fd[d]]
      BY <1>1, <3>1 DEF M!Net!TypeOK
    <3>3. /\ peer'[d] = peer[d] /\ sent'[d] = sent[d] /\ got'[d] = got[d]
          /\ inbox'[d] = inbox[d] /\ fd'[d] = fd[d]
      BY <1>2, <1>3, <2>2 DEF M!Net!TypeOK
    <3> QED
      BY <1>0, <3>2, <3>3, MultiIoOthers
  <2> QED
    BY <2>1, <2>2
<1>9. /\ rbuffer' = [g \in Fds |-> <<>>]
      /\ wbuffer' \in [Fds -> Seq(Clients \X Nat)]
      /\ event' \in [Fds -> {"none", "in", "out"}]
  BY <1>1
<1> QED
  BY <1>1, <1>6, <1>7, <1>8, <1>9

LEMMA MultiIoStep ==
  ASSUME M!MultiIoAssumption, M!IInv, M!Next
  PROVE  M!IInv'
<1>1. PICK c \in Clients : M!Client(c) \/ M!accept_cb(c) \/ M!Serve(c)
  BY DEF M!Next
<1> QED
  BY <1>1, MultiIoClient, MultiIoAccept, MultiIoRecv, MultiIoEnds, MultiIoSend DEF M!Serve

-----------------------------------------------------------------------------
(* The echo server reactor *)

LEMMA ReactorInit ==
  ASSUME R!ReactorAssumption, R!Init
  PROVE  R!IInv
<1> USE R!ReactorAssumption, R!Init DEF R!ReactorAssumption, R!Init, R!Net!Init
<1>1. <<>> \in Seq(Clients \X Nat) /\ Len(<<>>) = 0
  OBVIOUS
<1>2. R!Net!TypeOK
  BY <1>1 DEF R!Net!TypeOK, R!Net!Bytes
<1>3. R!Net!FdsAreOwn
  BY DEF R!Net!FdsAreOwn
<1>4. \A c \in Clients : R!Served(c)
  BY DEF R!Served, R!Waits, R!BufferHolds, R!ReplyIsWhole
<1>5. wLen = [f \in ReactorFds |-> Len(readBuffer[f])]
  BY <1>1
<1> QED
  BY ZenonT(60), <1>1, <1>2, <1>3, <1>4, <1>5 DEF R!IInv, R!Net!Bytes

\* A client that a step does not concern.
LEMMA ReactorOthers ==
  ASSUME NEW d \in Clients, R!IInv, peer'[d] = peer[d], sent'[d] = sent[d],
         got'[d] = got[d], inbox'[d] = inbox[d], fd'[d] = fd[d],
         fd[d] # NULL => ready'[fd[d]] = ready[fd[d]] /\ readBuffer'[fd[d]] = readBuffer[fd[d]],
         d \in backlog' => d \in backlog
  PROVE  R!Served(d)'
BY ZenonT(60) DEF R!IInv, R!Served, R!Waits, R!BufferHolds, R!ReplyIsWhole, R!Said

LEMMA ReactorClient ==
  ASSUME R!ReactorAssumption, R!IInv, NEW c \in Clients, R!Client(c)
  PROVE  R!IInv'
<1>0. /\ R!Net!TypeOK /\ R!Net!FdsAreOwn /\ R!Served(c)
      /\ UNCHANGED <<readBuffer, wLen, ready, down>>
  BY DEF R!IInv, R!Client, R!items
<1>1. CASE R!Net!Connect(c)
  <2> USE <1>1 DEF R!Net!Connect, R!Net!Bytes
  <2>1. R!Net!TypeOK'
    BY <1>0 DEF R!Net!TypeOK
  <2>2. R!Net!FdsAreOwn'
    BY <1>0 DEF R!Net!TypeOK, R!Net!FdsAreOwn
  <2>3. ASSUME NEW d \in Clients PROVE R!Served(d)'
    <3>1. CASE d = c
      <4>1. sent[c] = 0 /\ inbox[c] = <<>> /\ fd[c] = NULL
        BY <1>0 DEF R!Net!FdsAreOwn
      <4> QED
        BY <3>1, <4>1 DEF R!Served, R!Waits, R!BufferHolds, R!ReplyIsWhole, R!Said
    <3>2. CASE d # c
      BY <1>0, <3>2, ReactorOthers DEF R!Net!TypeOK
    <3> QED
      BY <3>1, <3>2
  <2> QED
    BY <1>0, <2>1, <2>2, <2>3 DEF R!IInv
<1>2. CASE R!Net!Say(c)
  <2> USE <1>2 DEF R!Net!Say, R!Net!Bytes
  <2>0. /\ sent[c] \in Nat /\ inbox[c] \in Seq(Clients \X Nat)
        /\ <<c, sent[c] + 1>> \in Clients \X Nat
    BY <1>0 DEF R!Net!TypeOK
  <2>1. R!Net!TypeOK'
    BY <1>0, <2>0, AppendProperties DEF R!Net!TypeOK
  <2>2. R!Net!FdsAreOwn'
    BY <1>0 DEF R!Net!TypeOK, R!Net!FdsAreOwn
  <2>3. ASSUME NEW d \in Clients PROVE R!Served(d)'
    <3>1. CASE d = c
      <4>1. /\ inbox'[c] = Append(inbox[c], <<c, sent[c] + 1>>)
            /\ got'[c] = got[c] /\ sent'[c] = sent[c] + 1
        BY <1>0 DEF R!Net!TypeOK
      <4>2. Append(R!Said(c), <<c, sent[c] + 1>>) = R!Said(c)'
        BY <2>0, <4>1, SaidFacts DEF R!Said
      <4>3. R!Waits(c)'
        BY <1>0, <4>1, <4>2 DEF R!Served, R!Waits
      <4>4. R!BufferHolds(c)'
        <5> SUFFICES ASSUME fd[c] # NULL
                     PROVE  readBuffer[fd[c]] \o inbox'[c] = R!Said(c)'
          BY <1>0 DEF R!BufferHolds
        <5>1. readBuffer[fd[c]] \o inbox[c] = R!Said(c)
          BY <1>0 DEF R!Served, R!BufferHolds
        <5>2. readBuffer[fd[c]] \in Seq(Clients \X Nat)
          BY <1>0 DEF R!Net!TypeOK, R!IInv
        <5>3. \A s, t \in Seq(Clients \X Nat) : \A x \in Clients \X Nat :
                s \o Append(t, x) = Append(s \o t, x)
          BY AppendBehind
        <5> HIDE <1>2 DEF R!Net!Say
        <5>4. readBuffer[fd[c]] \o Append(inbox[c], <<c, sent[c] + 1>>)
                = Append(readBuffer[fd[c]] \o inbox[c], <<c, sent[c] + 1>>)
          BY <2>0, <5>2, <5>3
        <5> QED
          BY <4>1, <4>2, <5>1, <5>4
      <4>5. R!ReplyIsWhole(c)'
        BY <1>0, <4>1 DEF R!Served, R!ReplyIsWhole
      <4> QED
        BY <3>1, <4>3, <4>4, <4>5 DEF R!Served
    <3>2. CASE d # c
      BY <1>0, <3>2, ReactorOthers DEF R!Net!TypeOK
    <3> QED
      BY <3>1, <3>2
  <2> QED
    BY <1>0, <2>1, <2>2, <2>3 DEF R!IInv
<1>3. CASE R!Net!Leave(c)
  <2> USE <1>3 DEF R!Net!Leave, R!Net!Bytes
  <2>1. R!Net!TypeOK'
    BY <1>0 DEF R!Net!TypeOK
  <2>2. R!Net!FdsAreOwn'
    BY <1>0 DEF R!Net!TypeOK, R!Net!FdsAreOwn
  <2>3. ASSUME NEW d \in Clients PROVE R!Served(d)'
    <3>1. CASE d = c
      <4> peer'[c] # "up"
        BY <1>0 DEF R!Net!TypeOK
      <4> QED
        BY <3>1 DEF R!Served, R!Waits, R!BufferHolds, R!ReplyIsWhole
    <3>2. CASE d # c
      BY <1>0, <3>2, ReactorOthers DEF R!Net!TypeOK
    <3> QED
      BY <3>1, <3>2
  <2> QED
    BY <1>0, <2>1, <2>2, <2>3 DEF R!IInv
<1> QED
  BY <1>1, <1>2, <1>3 DEF R!Client

LEMMA ReactorAccept ==
  ASSUME R!ReactorAssumption, R!IInv, NEW c \in Clients, R!accept_cb(c)
  PROVE  R!IInv'
<1> USE DEF R!ReactorAssumption, R!Net!Bytes
<1>0. R!Net!TypeOK /\ R!Net!FdsAreOwn /\ R!Served(c)
  BY DEF R!IInv
<1>1. PICK f \in ReactorFds : /\ R!Net!Accept(c, f)
                              /\ ready' = [ready EXCEPT ![f] = "in"]
                              /\ readBuffer' = [readBuffer EXCEPT ![f] = <<>>]
                              /\ wLen' = [wLen EXCEPT ![f] = 0]
  BY DEF R!accept_cb
<1>2. down' = down
  BY DEF R!accept_cb
<1>3. /\ c \in backlog /\ \A d \in Clients : fd[d] # f
      /\ backlog' = backlog \ {c} /\ fd' = [fd EXCEPT ![c] = f]
      /\ UNCHANGED <<peer, sent, inbox, got, broken>>
      /\ f # NULL
  BY <1>1 DEF R!Net!Accept, R!Net!Free
<1>4. R!Net!TypeOK'
  BY <1>0, <1>3 DEF R!Net!TypeOK
<1>5. R!Net!FdsAreOwn'
  BY <1>0, <1>3 DEF R!Net!TypeOK, R!Net!FdsAreOwn
<1>6. <<>> \in Seq(Clients \X Nat) /\ Len(<<>>) = 0
  OBVIOUS
<1>7. /\ readBuffer' \in [ReactorFds -> Seq(Clients \X Nat)]
      /\ wLen' = [g \in ReactorFds |-> Len(readBuffer'[g])]
      /\ ready' \in [ReactorFds -> {"none", "in", "out"}]
      /\ readBuffer'[f] = <<>>
  <2>1. /\ readBuffer' \in [ReactorFds -> Seq(Clients \X Nat)] /\ readBuffer'[f] = <<>>
        /\ ready' \in [ReactorFds -> {"none", "in", "out"}]
    BY <1>1, <1>6 DEF R!IInv
  <2>2. ASSUME NEW g \in ReactorFds PROVE wLen'[g] = Len(readBuffer'[g])
    <3>1. CASE g = f
      BY <1>1, <1>6, <2>1, <3>1 DEF R!IInv
    <3>2. CASE g # f
      BY <1>1, <3>2 DEF R!IInv
    <3> QED
      BY <3>1, <3>2
  <2>3. wLen' = [g \in ReactorFds |-> wLen'[g]]
    BY <1>1 DEF R!IInv
  <2> QED
    BY <2>1, <2>2, <2>3
<1>8. ASSUME NEW d \in Clients PROVE R!Served(d)'
  <2>1. CASE d = c
    <3>1. fd'[c] = f /\ c \notin backlog'
      BY <1>0, <1>3 DEF R!Net!TypeOK
    <3>2. peer[c] = "up" => inbox[c] = R!Said(c)
      BY <1>0, <1>3 DEF R!Served, R!Waits
    <3>3. <<>> \o inbox[c] = inbox[c]
      BY <1>0, ConcatEmptySeq DEF R!Net!TypeOK
    <3>4. R!Said(c)' = R!Said(c)
      BY <1>3 DEF R!Said
    <3> QED
      BY <1>3, <1>7, <2>1, <3>1, <3>2, <3>3, <3>4
         DEF R!Served, R!Waits, R!BufferHolds, R!ReplyIsWhole
  <2>2. CASE d # c
    <3>1. fd'[d] = fd[d] /\ fd[d] # f
      BY <1>0, <1>3, <2>2 DEF R!Net!TypeOK
    <3>2. fd[d] # NULL => ready'[fd[d]] = ready[fd[d]] /\ readBuffer'[fd[d]] = readBuffer[fd[d]]
      BY <1>0, <1>1, <3>1 DEF R!Net!TypeOK, R!IInv
    <3> QED
      BY <1>3, <3>1, <3>2, ReactorOthers
  <2> QED
    BY <2>1, <2>2
<1> QED
  BY <1>2, <1>4, <1>5, <1>7, <1>8 DEF R!IInv

LEMMA ReactorRecv ==
  ASSUME R!ReactorAssumption, R!IInv, NEW c \in Clients, R!recv_cb(c)
  PROVE  R!IInv'
<1> USE DEF R!Net!Bytes
<1> DEFINE f == fd[c]
           room == R!RoomLeft(c)
           first == R!Net!Received(c, room)
           rest == SubSeq(inbox[c], Len(first) + 1, Len(inbox[c]))
<1>0. /\ R!Net!TypeOK /\ R!Net!FdsAreOwn /\ R!Served(c)
      /\ f # NULL /\ f \in ReactorFds /\ readBuffer[f] \in Seq(Clients \X Nat)
  BY DEF R!recv_cb, R!Ready, R!IInv, R!Net!TypeOK
<1>1. /\ R!Net!Recv(c, room)
      /\ readBuffer' = [readBuffer EXCEPT ![f] = @ \o first]
      /\ wLen' = [wLen EXCEPT ![f] = Len(readBuffer'[f])]
      /\ ready' = [ready EXCEPT ![f] = "out"]
      /\ down' = down
  BY DEF R!recv_cb
<1>2. /\ inbox[c] \in Seq(Clients \X Nat) /\ inbox[c] # <<>>
      /\ room > 0
      /\ inbox' = [inbox EXCEPT ![c] = rest]
      /\ UNCHANGED <<peer, backlog, fd, sent, got, broken>>
  BY <1>0, <1>1 DEF R!Net!Recv, R!Net!TypeOK
<1>3. room \in Nat
  <2> Len(readBuffer[f]) \in Nat
    BY <1>0, LenProperties
  <2> QED
    BY <1>2 DEF R!RoomLeft, R!ReactorAssumption
<1>4. /\ first \in Seq(Clients \X Nat) /\ rest \in Seq(Clients \X Nat)
      /\ first \o rest = inbox[c]
  <2> HIDE DEF room
  <2> QED
    BY <1>2, <1>3, RecvFacts DEF R!Net!Received
<1>5. readBuffer[f] \o first \in Seq(Clients \X Nat)
  BY <1>0, <1>4, ConcatProperties
<1> HIDE DEF first, rest, room
<1>6. R!Net!TypeOK'
  BY <1>0, <1>2, <1>4 DEF R!Net!TypeOK
<1>7. R!Net!FdsAreOwn'
  BY <1>0, <1>2 DEF R!Net!TypeOK, R!Net!FdsAreOwn
<1>8. /\ readBuffer' \in [ReactorFds -> Seq(Clients \X Nat)]
      /\ wLen' = [g \in ReactorFds |-> Len(readBuffer'[g])]
      /\ ready' \in [ReactorFds -> {"none", "in", "out"}]
      /\ readBuffer'[f] = readBuffer[f] \o first
      /\ ready'[f] = "out"
  BY <1>0, <1>1, <1>5 DEF R!IInv
<1>9. ASSUME NEW d \in Clients PROVE R!Served(d)'
  <2>1. CASE d = c
    <3>1. c \notin backlog
      BY <1>0 DEF R!Net!FdsAreOwn
    <3>2. peer[c] = "up" => readBuffer[f] \o inbox[c] = R!Said(c)
      BY <1>0 DEF R!Served, R!BufferHolds
    <3>3. (readBuffer[f] \o first) \o rest = readBuffer[f] \o (first \o rest)
      <4>1. \A r, t, u \in Seq(Clients \X Nat) : (r \o t) \o u = r \o (t \o u)
        BY SMTT(30), ConcatAssociative
      <4> QED
        BY ZenonT(60), <1>0, <1>4, <4>1
    <3>4. inbox'[c] = rest /\ R!Said(c)' = R!Said(c)
      BY <1>0, <1>2 DEF R!Net!TypeOK, R!Said
    <3>5. R!BufferHolds(c)'
      BY <1>2, <1>4, <1>8, <3>2, <3>3, <3>4 DEF R!BufferHolds
    <3>6. R!Waits(c)' /\ R!ReplyIsWhole(c)'
      BY <1>2, <1>8, <3>1 DEF R!Waits, R!ReplyIsWhole
    <3> QED
      BY <2>1, <3>5, <3>6 DEF R!Served
  <2>2. CASE d # c
    <3>1. fd[d] # NULL => fd[d] # f
      BY <1>0, <2>2 DEF R!Net!FdsAreOwn
    <3>2. fd[d] # NULL => ready'[fd[d]] = ready[fd[d]] /\ readBuffer'[fd[d]] = readBuffer[fd[d]]
      BY <1>0, <1>1, <3>1 DEF R!Net!TypeOK, R!IInv
    <3> QED
      BY <1>0, <1>2, <2>2, <3>2, ReactorOthers DEF R!Net!TypeOK
  <2> QED
    BY <2>1, <2>2
<1> QED
  BY <1>1, <1>6, <1>7, <1>8, <1>9 DEF R!IInv

\* recv returns 0 or -1: the client has no descriptor, or is not "up".
LEMMA ReactorEnds ==
  ASSUME R!ReactorAssumption, R!IInv, NEW c \in Clients, R!recv_end(c) \/ R!recv_error(c)
  PROVE  R!IInv'
<1> USE DEF R!Net!Bytes
<1> DEFINE f == fd[c]
<1>0. /\ R!Net!TypeOK /\ R!Net!FdsAreOwn /\ R!Served(c)
      /\ <<>> \in Seq(Clients \X Nat)
      /\ f # NULL /\ f \in ReactorFds /\ readBuffer[f] \in Seq(Clients \X Nat)
      /\ c \notin backlog /\ peer[c] # "out"
  <2>1. f # NULL
    <3>1. R!recv_end(c) => R!Ready(c, "in")
      BY DEF R!recv_end
    <3>2. R!recv_error(c) => R!Ready(c, "in")
      BY DEF R!recv_error
    <3> QED
      BY <3>1, <3>2 DEF R!Ready
  <2> QED
    BY <2>1 DEF R!IInv, R!Net!TypeOK, R!Net!FdsAreOwn
<1>1. ASSUME NEW d \in Clients, d # c PROVE fd[d] # NULL => fd[d] # f
  BY <1>0, <1>1 DEF R!Net!FdsAreOwn
<1>2. CASE R!recv_end(c)
  <2>1. /\ fd' = [fd EXCEPT ![c] = NULL] /\ inbox' = [inbox EXCEPT ![c] = <<>>]
        /\ ready' = [ready EXCEPT ![f] = "none"]
        /\ UNCHANGED <<peer, backlog, sent, got, broken, readBuffer, wLen, down>>
    BY <1>2 DEF R!recv_end, R!Net!Close
  <2>2. R!Net!TypeOK'
    BY <1>0, <2>1 DEF R!Net!TypeOK
  <2>3. R!Net!FdsAreOwn'
    BY <1>0, <2>1 DEF R!Net!TypeOK, R!Net!FdsAreOwn
  <2>4. ASSUME NEW d \in Clients PROVE R!Served(d)'
    <3>1. CASE d = c
      <4> fd'[c] = NULL /\ c \notin backlog'
        BY <1>0, <2>1 DEF R!Net!TypeOK
      <4> QED
        BY <3>1 DEF R!Served, R!Waits, R!BufferHolds, R!ReplyIsWhole
    <3>2. CASE d # c
      <4>1. fd[d] # NULL =>
              ready'[fd[d]] = ready[fd[d]] /\ readBuffer'[fd[d]] = readBuffer[fd[d]]
        BY <1>0, <1>1, <2>1, <3>2 DEF R!Net!TypeOK, R!IInv
      <4> QED
        BY <1>0, <2>1, <3>2, <4>1, ReactorOthers DEF R!Net!TypeOK
    <3> QED
      BY <3>1, <3>2
  <2> QED
    BY <2>1, <2>2, <2>3, <2>4 DEF R!IInv
<1>3. CASE R!recv_error(c)
  <2>1. /\ peer' = [peer EXCEPT ![c] = "fin"] /\ broken' = broken \cup {c}
        /\ UNCHANGED <<backlog, fd, sent, inbox, got>>
    BY <1>3 DEF R!recv_error, R!Net!TakeError
  <2>2. \/ down' = TRUE /\ UNCHANGED <<readBuffer, wLen, ready>>
        \/ /\ Len(readBuffer[f]) # 0
           /\ readBuffer' = [readBuffer EXCEPT ![f] = SubSeq(@, 1, Len(readBuffer[f]) - 1)]
           /\ wLen' = [wLen EXCEPT ![f] = Len(readBuffer[f]) - 1]
           /\ ready' = [ready EXCEPT ![f] = "out"]
           /\ down' = down
    BY <1>3 DEF R!recv_error, R!items
  <2>3. /\ readBuffer' \in [ReactorFds -> Seq(Clients \X Nat)]
        /\ wLen' = [g \in ReactorFds |-> Len(readBuffer'[g])]
        /\ ready' \in [ReactorFds -> {"none", "in", "out"}]
        /\ down' \in BOOLEAN
    <3>1. CASE down' = TRUE /\ UNCHANGED <<readBuffer, wLen, ready>>
      BY <3>1 DEF R!IInv
    <3>2. CASE ~UNCHANGED <<readBuffer, wLen, ready>>
      <4>1. Len(readBuffer[f]) \in Nat /\ Len(readBuffer[f]) # 0
        BY <1>0, <2>2, <3>2, LenProperties
      <4>2. Len(readBuffer[f]) - 1 \in 0 .. Len(readBuffer[f])
        BY <4>1
      <4>3. /\ SubSeq(readBuffer[f], 1, Len(readBuffer[f]) - 1) \in Seq(Clients \X Nat)
            /\ Len(SubSeq(readBuffer[f], 1, Len(readBuffer[f]) - 1)) = Len(readBuffer[f]) - 1
        BY <1>0, <4>2, SplitFacts
      <4>0. /\ readBuffer' = [readBuffer EXCEPT ![f] = SubSeq(@, 1, Len(readBuffer[f]) - 1)]
            /\ ready' = [ready EXCEPT ![f] = "out"]
        BY <2>2, <3>2
      <4>00. down' \in BOOLEAN
        BY <2>2, <3>2, Zenon DEF R!IInv
      <4>4. /\ readBuffer' \in [ReactorFds -> Seq(Clients \X Nat)]
            /\ ready' \in [ReactorFds -> {"none", "in", "out"}]
            /\ down' \in BOOLEAN
        BY <1>0, <4>0, <4>00, <4>3 DEF R!IInv
      <4>5. ASSUME NEW g \in ReactorFds PROVE wLen'[g] = Len(readBuffer'[g])
        <5>1. CASE g = f
          BY <1>0, <2>2, <3>2, <4>3, <5>1 DEF R!IInv
        <5>2. CASE g # f
          BY <2>2, <3>2, <5>2 DEF R!IInv
        <5> QED
          BY <5>1, <5>2
      <4>6. wLen' = [g \in ReactorFds |-> wLen'[g]]
        BY <2>2, <3>2 DEF R!IInv
      <4> QED
        BY <4>4, <4>5, <4>6
    <3> QED
      BY <2>2, <3>1, <3>2 DEF R!IInv
  <2>4. R!Net!TypeOK'
    BY <1>0, <2>1 DEF R!Net!TypeOK
  <2>5. R!Net!FdsAreOwn'
    BY <1>0, <2>1 DEF R!Net!TypeOK, R!Net!FdsAreOwn
  <2>6. ASSUME NEW d \in Clients PROVE R!Served(d)'
    <3>1. CASE d = c
      <4> peer'[c] # "up"
        BY <1>0, <2>1 DEF R!Net!TypeOK
      <4> QED
        BY <3>1 DEF R!Served, R!Waits, R!BufferHolds, R!ReplyIsWhole
    <3>2. CASE d # c
      <4>1. fd[d] # NULL =>
              ready'[fd[d]] = ready[fd[d]] /\ readBuffer'[fd[d]] = readBuffer[fd[d]]
        BY <1>0, <1>1, <2>2, <3>2 DEF R!Net!TypeOK, R!IInv
      <4> QED
        BY <1>0, <2>1, <3>2, <4>1, ReactorOthers DEF R!Net!TypeOK
    <3> QED
      BY <3>1, <3>2
  <2> QED
    BY <2>3, <2>4, <2>5, <2>6 DEF R!IInv
<1> QED
  BY <1>2, <1>3

LEMMA ReactorSend ==
  ASSUME R!ReactorAssumption, R!IInv, NEW c \in Clients, R!send_cb(c)
  PROVE  R!IInv'
<1> USE DEF R!Net!Bytes
<1> DEFINE b == readBuffer[fd[c]]
<1>0. /\ R!Net!TypeOK /\ R!Net!FdsAreOwn /\ R!Served(c)
      /\ fd[c] # NULL /\ fd[c] \in ReactorFds
      /\ b \in Seq(Clients \X Nat) /\ got[c] \in Seq(Clients \X Nat)
      /\ wLen[fd[c]] = Len(b)
      /\ c \notin backlog /\ peer[c] # "out"
  BY DEF R!send_cb, R!Ready, R!IInv, R!Net!TypeOK, R!Net!FdsAreOwn
<1>1. SubSeq(b, 1, wLen[fd[c]]) = b
  BY <1>0, SubSeqFull
<1>2. /\ ready' = [ready EXCEPT ![fd[c]] = "in"]
      /\ down' \in BOOLEAN
      /\ UNCHANGED <<readBuffer, wLen>>
      /\ R!Net!Send(c, b)
  <2>1. /\ down' = (c \in broken)
        /\ R!Net!Send(c, SubSeq(b, 1, wLen[fd[c]]))
        /\ ready' = [ready EXCEPT ![fd[c]] = "in"]
        /\ UNCHANGED <<readBuffer, wLen>>
    BY DEF R!send_cb, R!Net!SendKills
  <2>2. down' \in BOOLEAN
    BY DEF R!send_cb, R!Net!SendKills
  <2>3. R!Net!Send(c, b)
    BY <1>1, <2>1, Zenon
  <2> QED
    BY <2>1, <2>2, <2>3
<1>3. \/ /\ peer[c] = "up" /\ peer' = peer /\ broken' = broken
         /\ got' = [got EXCEPT ![c] = @ \o b]
      \/ /\ peer[c] # "up" /\ got' = got /\ broken' = broken \cup {c}
         /\ peer' = peer \/ (peer' = [peer EXCEPT ![c] = "fin"])
  BY <1>2 DEF R!Net!Send, R!Net!TakeError
<1>4. UNCHANGED <<backlog, fd, sent, inbox>>
  BY <1>2 DEF R!Net!Send, R!Net!TakeError
<1>5. /\ got[c] \o b \in Seq(Clients \X Nat) /\ Len(got[c] \o b) >= Len(b)
      /\ SubSeq(got[c] \o b, Len(got[c] \o b) - Len(b) + 1, Len(got[c] \o b)) = b
  <2>1. \A s, t \in Seq(Clients \X Nat) :
          /\ s \o t \in Seq(Clients \X Nat) /\ Len(s \o t) >= Len(t)
          /\ SubSeq(s \o t, Len(s \o t) - Len(t) + 1, Len(s \o t)) = t
    BY LastFacts
  <2> QED
    BY <1>0, <2>1
<1>6. R!Net!TypeOK'
  BY ZenonT(60), <1>0, <1>3, <1>4, <1>5 DEF R!Net!TypeOK
<1>7. R!Net!FdsAreOwn'
  <2> \A d \in Clients : peer'[d] = "out" => peer[d] = "out" /\ got'[d] = got[d]
    BY <1>0, <1>3 DEF R!Net!TypeOK
  <2> QED
    BY <1>0, <1>4 DEF R!Net!TypeOK, R!Net!FdsAreOwn
<1>8. ASSUME NEW d \in Clients PROVE R!Served(d)'
  <2>1. CASE d = c
    <3>1. peer'[c] = "up" => peer[c] = "up" /\ got'[c] = got[c] \o b
      BY <1>0, <1>3 DEF R!Net!TypeOK
    <3>2. R!Said(c)' = R!Said(c)
      BY <1>4 DEF R!Said
    <3>3. R!BufferHolds(c)'
      BY <1>0, <1>2, <1>4, <3>1, <3>2 DEF R!Served, R!BufferHolds
    <3>4. R!ReplyIsWhole(c)'
      BY <1>2, <1>4, <1>5, <3>1 DEF R!ReplyIsWhole
    <3>5. R!Waits(c)'
      BY <1>0, <1>4 DEF R!Waits
    <3> QED
      BY <2>1, <3>3, <3>4, <3>5 DEF R!Served
  <2>2. CASE d # c
    <3>1. fd[d] # NULL => fd[d] # fd[c]
      BY <1>0, <2>2 DEF R!Net!FdsAreOwn
    <3>2. fd[d] # NULL => ready'[fd[d]] = ready[fd[d]] /\ readBuffer'[fd[d]] = readBuffer[fd[d]]
      BY <1>0, <1>2, <3>1 DEF R!Net!TypeOK, R!IInv
    <3>3. /\ peer'[d] = peer[d] /\ sent'[d] = sent[d] /\ got'[d] = got[d]
          /\ inbox'[d] = inbox[d] /\ fd'[d] = fd[d]
      BY <1>0, <1>3, <1>4, <2>2 DEF R!Net!TypeOK
    <3> QED
      BY <1>4, <3>2, <3>3, ReactorOthers
  <2> QED
    BY <2>1, <2>2
<1> QED
  BY <1>2, <1>6, <1>7, <1>8 DEF R!IInv

LEMMA ReactorStep ==
  ASSUME R!ReactorAssumption, R!IInv, R!Next
  PROVE  R!IInv'
<1>1. PICK c \in Clients : R!Client(c) \/ R!accept_cb(c) \/ R!accept_fails(c) \/ R!Serve(c)
  BY DEF R!Next
<1>2. CASE R!accept_fails(c)
  <2>1. down' = TRUE /\ UNCHANGED <<peer, backlog, fd, sent, inbox, got, broken,
                                    readBuffer, wLen, ready>>
    BY <1>2 DEF R!accept_fails, R!net, R!items
  <2>2. R!Net!TypeOK' /\ R!Net!FdsAreOwn'
    BY <2>1 DEF R!IInv, R!Net!TypeOK, R!Net!FdsAreOwn
  <2>3. ASSUME NEW d \in Clients PROVE R!Served(d)'
    BY <2>1, ReactorOthers
  <2> QED
    BY <2>1, <2>2, <2>3 DEF R!IInv
<1> QED
  BY <1>1, <1>2, ReactorClient, ReactorAccept, ReactorRecv, ReactorEnds, ReactorSend DEF R!Serve

-----------------------------------------------------------------------------
(* The UDP group *)

LEMMA UdpInit ==
  ASSUME U!UdpGroupAssumption, U!Init
  PROVE  U!IInv
<1> USE U!UdpGroupAssumption, U!Init DEF U!UdpGroupAssumption, U!Init, U!Objects
<1>1. <<>> \in Seq(U!Datagrams) /\ DOMAIN <<>> = {}
  OBVIOUS
<1>2. \A o \in Clients \cup {Service} : queue[o] = <<>> /\ udp_pc[o] = "init"
  OBVIOUS
<1>3. U!TypeOK
  BY <1>1 DEF U!TypeOK
<1>4. U!QuestionsWereAsked /\ U!AnswersGoToTheAsker
  BY <1>1, <1>2 DEF U!QuestionsWereAsked, U!AnswersGoToTheAsker
<1>5. \A c \in Clients \ late : U!OneInFlight(c)
  BY <1>1, <1>2 DEF U!OneInFlight, U!InService
<1> QED
  BY <1>3, <1>4, <1>5 DEF U!IInv

\* The types, as the steps below use them.
LEMMA UdpTypes ==
  ASSUME U!UdpGroupAssumption, U!IInv
  PROVE  /\ Service \notin Clients /\ Service \in U!Objects /\ Clients \subseteq U!Objects
         /\ \A o \in U!Objects : /\ queue[o] \in Seq(U!Datagrams)
                                 /\ Len(queue[o]) \in Nat
                                 /\ DOMAIN queue[o] = 1 .. Len(queue[o])
                                 /\ \A i \in DOMAIN queue[o] :
                                      /\ queue[o][i].from \in Clients
                                      /\ queue[o][i].round \in Nat
         /\ \A c \in Clients : round[c] \in Nat
<1>1. \A o \in U!Objects : queue[o] \in Seq(U!Datagrams)
  BY DEF U!IInv, U!TypeOK
<1>2. ASSUME NEW o \in U!Objects
      PROVE  /\ Len(queue[o]) \in Nat
             /\ DOMAIN queue[o] = 1 .. Len(queue[o])
             /\ \A i \in DOMAIN queue[o] : queue[o][i] \in U!Datagrams
  BY <1>1, LenProperties, ElementOfSeq
<1> QED
  BY <1>1, <1>2 DEF U!IInv, U!TypeOK, U!UdpGroupAssumption, U!Objects, U!Datagrams

\* A client that a step does not concern, when the service's queue stays.
LEMMA UdpOthers ==
  ASSUME NEW d \in Clients, U!OneInFlight(d),
         udp_pc'[d] = udp_pc[d], round'[d] = round[d], reply'[d] = reply[d],
         queue'[d] = queue[d], queue'[Service] = queue[Service],
         U!InService(d)' => U!InService(d), request' = request
  PROVE  U!OneInFlight(d)'
BY DEF U!OneInFlight

LEMMA UdpSetUp ==
  ASSUME U!UdpGroupAssumption, U!IInv, NEW o \in U!Objects, U!SetUp(o)
  PROVE  U!IInv'
<1>1. \E from \in {"init", "join"} : \E to \in {"join", "send", "get"} :
        /\ udp_pc[o] = from /\ udp_pc' = [udp_pc EXCEPT ![o] = to]
        /\ o \in Clients => to \in {"join", "send"}
        /\ o = Service => to \in {"join", "get"}
  BY DEF U!SetUp, U!InitCall, U!Join, U!Goto, U!UdpGroupAssumption, U!Objects
<1>2. UNCHANGED <<round, reply, late, queue, cliAddr, request>>
  BY DEF U!SetUp, U!InitCall, U!Join
<1>3. udp_pc' \in [U!Objects -> {"init", "join", "send", "get", "reget", "resend", "done", "freed"}]
  BY <1>1 DEF U!IInv, U!TypeOK
<1>4. /\ udp_pc'[Service] = "send" => udp_pc[Service] = "send"
      /\ \A d \in Clients : /\ udp_pc'[d] \notin {"done", "reget", "resend"} \/ udp_pc'[d] = udp_pc[d]
                            /\ udp_pc[d] = "get" => udp_pc'[d] = "get"
  BY <1>1, UdpTypes DEF U!IInv, U!TypeOK, U!Objects
<1>5. U!TypeOK'
  BY <1>2, <1>3, <1>4 DEF U!IInv, U!TypeOK
<1>6. U!QuestionsWereAsked' /\ U!AnswersGoToTheAsker'
  BY <1>2, <1>4 DEF U!IInv, U!QuestionsWereAsked, U!AnswersGoToTheAsker
<1>7. ASSUME NEW d \in Clients \ late' PROVE U!OneInFlight(d)'
  <2>1. U!OneInFlight(d) /\ (U!InService(d)' => U!InService(d))
    BY <1>2, <1>4 DEF U!IInv, U!InService
  <2> QED
    BY <1>2, <1>4, <2>1 DEF U!OneInFlight
<1> QED
  BY <1>5, <1>6, <1>7 DEF U!IInv

LEMMA UdpInsert ==
  ASSUME NEW s \in Seq(U!Datagrams), NEW i \in 1 .. Len(s) + 1, NEW x \in U!Datagrams
  PROVE  Inserted(U!Datagrams, U!InsertAt(s, i, x), s, i, x)
<1>1. Inserted(U!Datagrams, SubSeq(s, 1, i - 1) \o <<x>> \o SubSeq(s, i, Len(s)), s, i, x)
  BY InsertedFacts, Zenon
<1> QED
  BY <1>1 DEF U!InsertAt

\* A client asks.
LEMMA UdpAsk ==
  ASSUME U!UdpGroupAssumption, U!IInv, NEW c \in Clients, U!AskArrives(c) \/ U!AskLost(c)
  PROVE  U!IInv'
<1> DEFINE q == queue[Service]
<1> DEFINE ask == [from |-> c, round |-> round'[c]]
<1>0. /\ Service \notin Clients /\ Service \in U!Objects /\ c \in U!Objects
      /\ Len(q) \in Nat /\ DOMAIN q = 1 .. Len(q)
      /\ round \in [Clients -> Nat]
      /\ udp_pc \in [U!Objects -> {"init", "join", "send", "get", "reget", "resend", "done", "freed"}]
  BY UdpTypes DEF U!IInv, U!TypeOK
<1>1. /\ udp_pc[c] \in {"send", "resend"}
      /\ round' = IF udp_pc[c] = "send" THEN [round EXCEPT ![c] = @ + 1] ELSE round
      /\ \E to \in {"get", "reget", "done"} :
           /\ udp_pc' = [udp_pc EXCEPT ![c] = to]
           /\ udp_pc[c] = "send" => to = "get"
      /\ UNCHANGED <<reply, late, cliAddr, request>>
  <2>1. U!Ask(c)
    BY DEF U!AskArrives, U!AskLost
  <2>2. /\ udp_pc[c] \in {"send", "resend"}
        /\ round' = IF udp_pc[c] = "send" THEN [round EXCEPT ![c] = @ + 1] ELSE round
        /\ UNCHANGED <<reply, late, cliAddr, request>>
    BY <2>1 DEF U!Ask
  <2>3. PICK to : /\ udp_pc' = [udp_pc EXCEPT ![c] = to]
                  /\ to = IF udp_pc[c] = "send" THEN "get"
                         ELSE IF reply[c] = 0 THEN "reget" ELSE "done"
    BY <2>1 DEF U!Ask, U!Goto
  <2> QED
    BY <2>2, <2>3
<1>2. /\ round' \in [Clients -> Nat] /\ \A d \in Clients : round[d] <= round'[d]
      /\ \A d \in Clients : d # c => round'[d] = round[d]
  BY <1>0, <1>1
<1>3. ask \in U!Datagrams
  BY <1>2 DEF U!Datagrams
<1>4. /\ udp_pc' \in [U!Objects -> {"init", "join", "send", "get", "reget", "resend", "done", "freed"}]
      /\ udp_pc'[Service] = udp_pc[Service]
      /\ \A d \in Clients : d # c => udp_pc'[d] = udp_pc[d]
      /\ udp_pc[c] = "send" => udp_pc'[c] = "get"
  BY <1>0, <1>1 DEF U!Objects
<1>5. \A d \in Clients : U!InService(d)' => U!InService(d)
  BY <1>1, <1>4 DEF U!InService
<1>6. c \notin late =>
        /\ udp_pc[c] = "send" /\ ~U!InService(c) /\ queue[c] = <<>>
        /\ \A j \in DOMAIN q : q[j].from # c
  BY <1>1 DEF U!IInv, U!OneInFlight
<1>7. CASE UNCHANGED queue
  <2>1. U!TypeOK'
    BY <1>1, <1>2, <1>4, <1>7 DEF U!IInv, U!TypeOK
  <2>2. U!QuestionsWereAsked'
    <3>1. \A i \in DOMAIN q : q[i].from \in Clients /\ q[i].round \in Nat
      BY UdpTypes
    <3>2. udp_pc[Service] = "send" => request.from \in Clients /\ request.round \in Nat
      BY DEF U!IInv, U!TypeOK, U!Datagrams
    <3> QED
      BY SMTT(30), <1>0, <1>1, <1>2, <1>4, <1>7, <3>1, <3>2 DEF U!IInv, U!QuestionsWereAsked
  <2>3. U!AnswersGoToTheAsker'
    <3>1. \A d \in Clients : \A i \in DOMAIN queue[d] : queue[d][i].round \in Nat
      BY UdpTypes
    <3> QED
      BY <1>0, <1>2, <1>7, <3>1 DEF U!IInv, U!AnswersGoToTheAsker
  <2>4. ASSUME NEW d \in Clients \ late' PROVE U!OneInFlight(d)'
    <3>1. U!OneInFlight(d)
      BY <1>1 DEF U!IInv
    <3>2. CASE d = c
      BY <1>1, <1>4, <1>5, <1>6, <1>7, <3>2 DEF U!OneInFlight
    <3>3. CASE d # c
      BY <1>1, <1>2, <1>4, <1>5, <1>7, <3>1, <3>3, UdpOthers
    <3> QED
      BY <3>2, <3>3
  <2> QED
    BY <2>1, <2>2, <2>3, <2>4 DEF U!IInv
<1>8. ASSUME NEW i \in 1 .. Len(q) + 1,
             queue' = [queue EXCEPT ![Service] = U!InsertAt(@, i, ask)]
      PROVE  U!IInv'
  <2> DEFINE t == queue'[Service]
  <2>1. /\ t \in Seq(U!Datagrams)
        /\ DOMAIN t = 1 .. Len(q) + 1 /\ DOMAIN q = 1 .. Len(q)
        /\ \A j \in DOMAIN t : \/ j = i /\ t[j] = ask
                               \/ j < i /\ j \in DOMAIN q /\ t[j] = q[j]
                               \/ j > i /\ j - 1 \in DOMAIN q /\ t[j] = q[j - 1]
    <3>1. t = U!InsertAt(q, i, ask)
      BY <1>0, <1>8 DEF U!IInv, U!TypeOK
    <3>2. q \in Seq(U!Datagrams)
      BY UdpTypes
    <3> HIDE DEF q, ask, t
    <3> QED
      BY <1>3, <3>1, <3>2, UdpInsert DEF Inserted
  <2>2. \A d \in Clients : queue'[d] = queue[d]
    BY <1>0, <1>8 DEF U!IInv, U!TypeOK
  <2>3. queue' \in [U!Objects -> Seq(U!Datagrams)]
    BY <1>8, <2>1 DEF U!IInv, U!TypeOK
  <2> HIDE DEF t
  <2>5. U!TypeOK'
    BY <1>1, <1>2, <1>4, <2>3 DEF U!IInv, U!TypeOK
  <2>6. U!QuestionsWereAsked'
    <3>1. \A k \in DOMAIN q : /\ q[k].from \in Clients /\ q[k].round \in Nat
                              /\ q[k].round <= round[q[k].from]
      BY UdpTypes DEF U!IInv, U!QuestionsWereAsked
    <3>2. udp_pc[Service] = "send" =>
            request.from \in Clients /\ request.round \in Nat /\ request.round <= round[request.from]
      BY DEF U!IInv, U!TypeOK, U!Datagrams, U!QuestionsWereAsked
    <3>3. \A k \in DOMAIN q : q[k].round <= round'[q[k].from]
      BY <1>0, <1>2, <3>1
    <3>4. ask.from = c /\ ask.round = round'[c] /\ round'[c] \in Nat
      BY <1>2
    <3> HIDE DEF ask, q
    <3>5. \A j \in DOMAIN t : t[j].round <= round'[t[j].from]
      BY <2>1, <3>3, <3>4
    <3> QED
      BY <1>0, <1>1, <1>2, <1>4, <3>2, <3>5 DEF U!QuestionsWereAsked, t
  <2>7. U!AnswersGoToTheAsker'
    <3>1. \A d \in Clients : \A k \in DOMAIN queue[d] : queue[d][k].round \in Nat
      BY UdpTypes
    <3> QED
      BY <1>0, <1>2, <2>2, <3>1 DEF U!IInv, U!AnswersGoToTheAsker
  <2>8. ASSUME NEW d \in Clients \ late' PROVE U!OneInFlight(d)'
    <3>1. U!OneInFlight(d) /\ (U!InService(d)' => U!InService(d)) /\ queue'[d] = queue[d]
      BY <1>1, <1>5, <2>2 DEF U!IInv
    <3>2. ask.from = c /\ ask.round = round'[c]
      OBVIOUS
    <3> HIDE DEF ask, q
    <3>3. CASE d = c
      <4>1. \A j \in DOMAIN t : t[j].from = c => j = i /\ t[j].round = round'[c]
        BY <1>1, <1>6, <2>1, <3>2, <3>3
      <4>2. /\ udp_pc'[c] = "get" /\ queue'[c] = <<>> /\ ~U!InService(c)'
            /\ \A j, l \in DOMAIN t : t[j].from = c /\ t[l].from = c => j = l
        BY <1>1, <1>4, <1>6, <3>1, <3>3, <4>1
      <4> QED
        BY <3>3, <4>1, <4>2 DEF U!OneInFlight, t
    <3>4. CASE d # c
      <4>1. \A j \in DOMAIN t : t[j].from = d =>
              \E k \in DOMAIN q : t[j] = q[k] /\ ((k = j /\ j < i) \/ (k = j - 1 /\ j > i))
        BY <2>1, <3>2, <3>4
      <4>2. \A j, l \in DOMAIN t : t[j].from = d /\ t[l].from = d => j = l
        <5> SUFFICES ASSUME NEW j \in DOMAIN t, NEW l \in DOMAIN t,
                            t[j].from = d, t[l].from = d
                     PROVE  j = l
          OBVIOUS
        <5>1. PICK k \in DOMAIN q : t[j] = q[k] /\ ((k = j /\ j < i) \/ (k = j - 1 /\ j > i))
          BY <4>1
        <5>2. PICK m \in DOMAIN q : t[l] = q[m] /\ ((m = l /\ l < i) \/ (m = l - 1 /\ l > i))
          BY <4>1
        <5>3. k = m
          BY <3>1, <5>1, <5>2 DEF U!OneInFlight, q
        <5>4. j \in Int /\ l \in Int /\ i \in Int
          BY <1>0, <2>1
        <5> QED
          BY <5>1, <5>2, <5>3, <5>4
      <4>3. \A j \in DOMAIN t : t[j].from = d =>
              /\ udp_pc[d] = "get" /\ t[j].round = round[d] /\ ~U!InService(d) /\ queue[d] = <<>>
        BY <3>1, <4>1 DEF U!OneInFlight, q
      <4>4. udp_pc'[d] = udp_pc[d] /\ round'[d] = round[d] /\ reply' = reply /\ request' = request
        BY <1>1, <1>2, <1>4, <3>4
      <4> QED
        BY <3>1, <4>2, <4>3, <4>4 DEF U!OneInFlight, t
    <3> QED
      BY <3>3, <3>4
  <2> QED
    BY <2>5, <2>6, <2>7, <2>8 DEF U!IInv
<1> QED
  BY <1>7, <1>8 DEF U!AskArrives, U!AskLost, U!Arrives

\* A queue whose first datagram was taken out.
LEMMA UdpTail ==
  ASSUME NEW s \in Seq(U!Datagrams), s # <<>>
  PROVE  /\ Head(s) \in U!Datagrams /\ Head(s) = s[1] /\ Tail(s) \in Seq(U!Datagrams)
         /\ Len(s) \in Nat /\ Len(s) > 0 /\ DOMAIN s = 1 .. Len(s)
         /\ DOMAIN Tail(s) = 1 .. Len(s) - 1 /\ (Len(s) = 1 => Tail(s) = <<>>)
         /\ \A i \in DOMAIN Tail(s) : i + 1 \in DOMAIN s /\ Tail(s)[i] = s[i + 1]
<1>1. /\ Tail(s) \in Seq(U!Datagrams) /\ Len(Tail(s)) = Len(s) - 1
      /\ \A i \in 1 .. Len(Tail(s)) : Tail(s)[i] = s[i + 1]
      /\ Tail(s) = <<>> <=> Len(s) = 1
  BY TailFacts
<1>2. Head(s) \in U!Datagrams /\ Head(s) = s[1]
  BY HeadTailProperties
<1>3. Len(s) \in Nat /\ Len(s) > 0 /\ DOMAIN s = 1 .. Len(s)
  BY EmptyFacts, LenProperties
<1>4. DOMAIN Tail(s) = 1 .. Len(s) - 1
  BY <1>1, LenProperties
<1> QED
  BY <1>1, <1>2, <1>3, <1>4

\* A client receives something, or waits in vain.
LEMMA UdpReceive ==
  ASSUME U!UdpGroupAssumption, U!IInv, NEW c \in Clients, U!Receive(c)
  PROVE  U!IInv'
<1> DEFINE q == queue[c]
<1>0. /\ Service \notin Clients /\ c \in U!Objects
      /\ udp_pc \in [U!Objects -> {"init", "join", "send", "get", "reget", "resend", "done", "freed"}]
      /\ reply \in [Clients -> Nat] /\ queue \in [U!Objects -> Seq(U!Datagrams)]
      /\ q \in Seq(U!Datagrams)
  BY UdpTypes DEF U!IInv, U!TypeOK
<1>1. udp_pc[c] \in {"get", "reget"} /\ UNCHANGED <<round, cliAddr, request>>
  BY DEF U!Receive
<1>2. PICK to \in {"done", "reget", "resend"} : udp_pc' = [udp_pc EXCEPT ![c] = to]
  BY DEF U!Receive, U!Goto
<1>3. /\ udp_pc' \in [U!Objects -> {"init", "join", "send", "get", "reget", "resend", "done", "freed"}]
      /\ udp_pc'[Service] = udp_pc[Service]
      /\ \A d \in Clients : d # c => udp_pc'[d] = udp_pc[d]
  BY <1>0, <1>2 DEF U!Objects
<1>4. \A d \in Clients : U!InService(d)' => U!InService(d)
  BY <1>1, <1>3 DEF U!InService
<1>5. CASE /\ q # <<>> /\ reply' = [reply EXCEPT ![c] = Head(q).round]
           /\ queue' = [queue EXCEPT ![c] = Tail(@)]
           /\ udp_pc' = [udp_pc EXCEPT ![c] = IF udp_pc[c] = "get" THEN "done" ELSE "resend"]
           /\ UNCHANGED late
  <2>1. /\ Head(q) \in U!Datagrams /\ Head(q) = q[1] /\ Tail(q) \in Seq(U!Datagrams)
        /\ Len(q) = 1 => Tail(q) = <<>>
        /\ \A i \in DOMAIN Tail(q) : i + 1 \in DOMAIN q /\ Tail(q)[i] = q[i + 1]
    BY <1>0, <1>5, UdpTail
  <2>2. /\ queue' \in [U!Objects -> Seq(U!Datagrams)] /\ queue'[c] = Tail(q)
        /\ \A o \in U!Objects : o # c => queue'[o] = queue[o]
    BY <1>0, <1>5, <2>1
  <2>3. reply' \in [Clients -> Nat]
    BY <1>0, <1>5, <2>1 DEF U!Datagrams
  <2>4. U!TypeOK'
    BY <1>1, <1>3, <1>5, <2>2, <2>3 DEF U!IInv, U!TypeOK
  <2>5. queue'[Service] = queue[Service]
    BY <1>0, <2>2 DEF U!Objects
  <2>6. U!QuestionsWereAsked'
    BY <1>1, <1>3, <2>5 DEF U!IInv, U!QuestionsWereAsked
  <2>7. U!AnswersGoToTheAsker'
    <3> SUFFICES ASSUME NEW d \in Clients, NEW i \in DOMAIN queue'[d]
                 PROVE  queue'[d][i].from = d /\ queue'[d][i].round <= round[d]
      BY <1>1 DEF U!AnswersGoToTheAsker
    <3>1. PICK k \in DOMAIN queue[d] : queue'[d][i] = queue[d][k]
      <4>1. CASE d = c
        BY <2>1, <2>2, <4>1
      <4>2. CASE d # c
        BY <2>2, <4>2 DEF U!Objects
      <4> QED
        BY <4>1, <4>2
    <3> QED
      BY <3>1 DEF U!IInv, U!AnswersGoToTheAsker
  <2>8. ASSUME NEW d \in Clients \ late' PROVE U!OneInFlight(d)'
    <3>1. U!OneInFlight(d)
      BY <1>5 DEF U!IInv
    <3>2. CASE d = c
      <4>1. /\ udp_pc[c] = "get" /\ Len(q) = 1 /\ q[1].round = round[c]
            /\ ~U!InService(c) /\ \A i \in DOMAIN queue[Service] : queue[Service][i].from # c
        BY <1>1, <1>5, <3>1, <3>2 DEF U!OneInFlight
      <4>2. udp_pc'[c] = "done" /\ queue'[c] = <<>> /\ reply'[c] = round[c]
        BY <1>0, <1>5, <2>1, <2>2, <4>1
      <4> QED
        BY <1>1, <1>4, <2>5, <3>2, <4>1, <4>2 DEF U!OneInFlight
    <3>3. CASE d # c
      BY <1>0, <1>1, <1>3, <1>4, <1>5, <2>2, <2>5, <3>1, <3>3, UdpOthers DEF U!Objects
    <3> QED
      BY <3>2, <3>3
  <2> QED
    BY <2>4, <2>6, <2>7, <2>8 DEF U!IInv
<1>6. CASE reply' = [reply EXCEPT ![c] = 0] /\ late' = late \cup {c} /\ UNCHANGED queue
  <2>1. reply' \in [Clients -> Nat] /\ \A d \in Clients : d # c => reply'[d] = reply[d]
    BY <1>0, <1>6
  <2>2. U!TypeOK'
    BY <1>1, <1>3, <1>6, <2>1 DEF U!IInv, U!TypeOK
  <2>3. U!QuestionsWereAsked' /\ U!AnswersGoToTheAsker'
    BY <1>1, <1>3, <1>6 DEF U!IInv, U!QuestionsWereAsked, U!AnswersGoToTheAsker
  <2>4. ASSUME NEW d \in Clients \ late' PROVE U!OneInFlight(d)'
    BY <1>1, <1>3, <1>4, <1>6, <2>1, UdpOthers DEF U!IInv
  <2> QED
    BY <2>2, <2>3, <2>4 DEF U!IInv
<1> QED
  BY <1>5, <1>6 DEF U!Receive, U!Goto

\* A client that begins again, or closes its sockets and others.
LEMMA UdpAgain ==
  ASSUME U!UdpGroupAssumption, U!IInv, NEW c \in Clients, U!Again(c) \/ U!Free(c)
  PROVE  U!IInv'
<1>1. /\ udp_pc[c] = "done" /\ UNCHANGED <<round, reply, late, queue, cliAddr, request>>
      /\ \E to \in {"send", "freed"} : udp_pc' = [udp_pc EXCEPT ![c] = to]
  BY DEF U!Again, U!Free, U!Goto
<1>2. /\ Service \notin Clients /\ c \in U!Objects
      /\ udp_pc \in [U!Objects -> {"init", "join", "send", "get", "reget", "resend", "done", "freed"}]
  BY UdpTypes DEF U!IInv, U!TypeOK
<1>3. /\ udp_pc' \in [U!Objects -> {"init", "join", "send", "get", "reget", "resend", "done", "freed"}]
      /\ udp_pc'[Service] = udp_pc[Service] /\ udp_pc'[c] \in {"send", "freed"}
      /\ \A d \in Clients : d # c => udp_pc'[d] = udp_pc[d]
  BY <1>1, <1>2 DEF U!Objects
<1>4. U!TypeOK'
  BY <1>1, <1>3 DEF U!IInv, U!TypeOK
<1>5. U!QuestionsWereAsked' /\ U!AnswersGoToTheAsker'
  BY <1>1, <1>3 DEF U!IInv, U!QuestionsWereAsked, U!AnswersGoToTheAsker
<1>6. ASSUME NEW d \in Clients \ late' PROVE U!OneInFlight(d)'
  <2>1. U!OneInFlight(d) /\ (U!InService(d)' <=> U!InService(d))
    BY <1>1, <1>3 DEF U!IInv, U!InService
  <2>2. CASE d = c
    BY <1>1, <1>3, <2>1, <2>2 DEF U!OneInFlight
  <2>3. CASE d # c
    BY <1>1, <1>3, <2>1, <2>3, UdpOthers
  <2> QED
    BY <2>2, <2>3
<1> QED
  BY <1>4, <1>5, <1>6 DEF U!IInv

\* The service takes the next datagram, or finds none.
LEMMA UdpGet ==
  ASSUME U!UdpGroupAssumption, U!IInv, U!Get
  PROVE  U!IInv'
<1> DEFINE q == queue[Service]
<1>0. /\ Service \notin Clients /\ Service \in U!Objects /\ Clients \subseteq U!Objects
      /\ udp_pc \in [U!Objects -> {"init", "join", "send", "get", "reget", "resend", "done", "freed"}]
      /\ queue \in [U!Objects -> Seq(U!Datagrams)] /\ q \in Seq(U!Datagrams)
  BY UdpTypes DEF U!IInv, U!TypeOK
<1>1. udp_pc[Service] = "get" /\ UNCHANGED <<round, reply, late>>
  BY DEF U!Get
<1>2. \A d \in Clients : ~U!InService(d)
  BY <1>1 DEF U!InService
<1>3. CASE UNCHANGED <<udp_pc, request, queue>>
  <2>1. U!TypeOK' /\ U!QuestionsWereAsked' /\ U!AnswersGoToTheAsker'
    BY <1>1, <1>3 DEF U!IInv, U!TypeOK, U!QuestionsWereAsked, U!AnswersGoToTheAsker
  <2>2. ASSUME NEW d \in Clients \ late' PROVE U!OneInFlight(d)'
    BY <1>1, <1>3, UdpOthers DEF U!IInv, U!InService
  <2> QED
    BY <2>1, <2>2 DEF U!IInv
<1>4. CASE /\ q # <<>> /\ request' = Head(q) /\ cliAddr' = request'.from
           /\ queue' = [queue EXCEPT ![Service] = Tail(@)]
           /\ udp_pc' = [udp_pc EXCEPT ![Service] = "send"]
  <2>1. /\ Head(q) \in U!Datagrams /\ Head(q) = q[1] /\ Tail(q) \in Seq(U!Datagrams)
        /\ Len(q) \in Nat /\ Len(q) > 0 /\ DOMAIN q = 1 .. Len(q)
        /\ DOMAIN Tail(q) = 1 .. Len(q) - 1
        /\ \A i \in DOMAIN Tail(q) : i + 1 \in DOMAIN q /\ Tail(q)[i] = q[i + 1]
    BY <1>0, <1>4, UdpTail
  <2>2. /\ queue' \in [U!Objects -> Seq(U!Datagrams)] /\ queue'[Service] = Tail(q)
        /\ \A d \in Clients : queue'[d] = queue[d]
    BY <1>0, <1>4, <2>1
  <2>3. /\ udp_pc' \in [U!Objects -> {"init", "join", "send", "get", "reget", "resend", "done", "freed"}]
        /\ udp_pc'[Service] = "send" /\ \A d \in Clients : udp_pc'[d] = udp_pc[d]
    BY <1>0, <1>4
  <2>4. U!TypeOK'
    BY <1>1, <1>4, <2>1, <2>2, <2>3 DEF U!IInv, U!TypeOK
  <2>5. U!QuestionsWereAsked'
    <3>1. \A i \in DOMAIN q : q[i].round <= round[q[i].from]
      BY DEF U!IInv, U!QuestionsWereAsked
    <3>2. 1 \in DOMAIN q
      BY <2>1
    <3> QED
      BY <1>1, <1>4, <2>1, <2>2, <3>1, <3>2 DEF U!QuestionsWereAsked
  <2>6. U!AnswersGoToTheAsker'
    BY <1>1, <2>2 DEF U!IInv, U!AnswersGoToTheAsker
  <2>7. ASSUME NEW d \in Clients \ late' PROVE U!OneInFlight(d)'
    <3>1. /\ udp_pc[d] \notin {"reget", "resend"}
          /\ \A i \in DOMAIN q : q[i].from = d =>
               /\ udp_pc[d] = "get" /\ q[i].round = round[d] /\ queue[d] = <<>>
               /\ \A j \in DOMAIN q : q[j].from = d => j = i
          /\ queue[d] # <<>> => /\ udp_pc[d] = "get" /\ Len(queue[d]) = 1
                                /\ queue[d][1].round = round[d]
          /\ udp_pc[d] = "done" => reply[d] = round[d]
      BY <1>1 DEF U!IInv, U!OneInFlight
    <3>2. 1 \in DOMAIN q
      BY <2>1
    <3>3. U!InService(d)' <=> q[1].from = d
      BY <1>4, <2>1, <2>3 DEF U!InService
    <3>4. U!InService(d)' => /\ udp_pc'[d] = "get" /\ request'.round = round'[d]
                             /\ queue'[d] = <<>>
      BY <1>1, <1>4, <2>1, <2>2, <2>3, <3>1, <3>2, <3>3
    <3>5. ASSUME NEW i \in DOMAIN Tail(q), Tail(q)[i].from = d
          PROVE  /\ udp_pc'[d] = "get" /\ Tail(q)[i].round = round'[d] /\ queue'[d] = <<>>
                 /\ ~U!InService(d)'
                 /\ \A j \in DOMAIN Tail(q) : Tail(q)[j].from = d => j = i
      <4>1. i + 1 \in DOMAIN q /\ q[i + 1] = Tail(q)[i] /\ i \in Nat /\ i > 0
        BY <2>1, <3>5
      <4>2. /\ udp_pc[d] = "get" /\ q[i + 1].round = round[d] /\ queue[d] = <<>>
            /\ \A j \in DOMAIN q : q[j].from = d => j = i + 1
        BY <3>1, <3>5, <4>1
      <4>3. q[1].from # d
        BY <3>2, <4>1, <4>2
      <4>4. ASSUME NEW j \in DOMAIN Tail(q), Tail(q)[j].from = d PROVE j = i
        <5>1. j + 1 \in DOMAIN q /\ q[j + 1] = Tail(q)[j] /\ j \in Nat
          BY <2>1
        <5>2. j + 1 = i + 1
          BY <4>2, <4>4, <5>1
        <5> QED
          BY <4>1, <5>1, <5>2
      <4> QED
        BY <1>1, <2>2, <2>3, <3>3, <4>1, <4>2, <4>3, <4>4
    <3> HIDE DEF q
    <3> QED
      BY <1>1, <2>2, <2>3, <3>1, <3>4, <3>5 DEF U!OneInFlight
  <2> QED
    BY <2>4, <2>5, <2>6, <2>7 DEF U!IInv
<1> QED
  BY <1>3, <1>4 DEF U!Get, U!Goto

\* The service answers, and the answer is lost or arrives.
LEMMA UdpAnswer ==
  ASSUME U!UdpGroupAssumption, U!IInv, U!AnswerLost \/ U!AnswerArrives
  PROVE  U!IInv'
<1> DEFINE c == request.from
<1>0. /\ Service \notin Clients /\ Service \in U!Objects /\ Clients \subseteq U!Objects
      /\ udp_pc \in [U!Objects -> {"init", "join", "send", "get", "reget", "resend", "done", "freed"}]
      /\ queue \in [U!Objects -> Seq(U!Datagrams)]
  BY UdpTypes DEF U!IInv, U!TypeOK
<1>1. /\ udp_pc[Service] = "send" /\ udp_pc' = [udp_pc EXCEPT ![Service] = "get"]
      /\ UNCHANGED <<round, reply, late, cliAddr, request>>
  BY DEF U!AnswerLost, U!AnswerArrives, U!Answer, U!Goto
<1>2. /\ udp_pc' \in [U!Objects -> {"init", "join", "send", "get", "reget", "resend", "done", "freed"}]
      /\ udp_pc'[Service] = "get" /\ \A d \in Clients : udp_pc'[d] = udp_pc[d]
  BY <1>0, <1>1
<1>3. request \in U!Datagrams /\ cliAddr = c /\ c \in Clients
  BY <1>1 DEF U!IInv, U!TypeOK, U!Datagrams
<1>4. \A d \in Clients : ~U!InService(d)'
  BY <1>2 DEF U!InService
<1>5. CASE UNCHANGED queue
  <2>1. U!TypeOK' /\ U!QuestionsWereAsked' /\ U!AnswersGoToTheAsker'
    BY <1>1, <1>2, <1>5 DEF U!IInv, U!TypeOK, U!QuestionsWereAsked, U!AnswersGoToTheAsker
  <2>2. ASSUME NEW d \in Clients \ late' PROVE U!OneInFlight(d)'
    BY <1>1, <1>2, <1>4, <1>5, UdpOthers DEF U!IInv
  <2> QED
    BY <2>1, <2>2 DEF U!IInv
<1>6. ASSUME NEW i \in 1 .. Len(queue[c]) + 1,
             queue' = [queue EXCEPT ![c] = U!InsertAt(@, i, request)]
      PROVE  U!IInv'
  <2> DEFINE q == queue[c]
             t == queue'[c]
  <2>1. /\ t \in Seq(U!Datagrams)
        /\ DOMAIN t = 1 .. Len(q) + 1 /\ DOMAIN q = 1 .. Len(q)
        /\ \A j \in DOMAIN t : \/ j = i /\ t[j] = request
                               \/ j < i /\ j \in DOMAIN q /\ t[j] = q[j]
                               \/ j > i /\ j - 1 \in DOMAIN q /\ t[j] = q[j - 1]
    <3>1. t = U!InsertAt(q, i, request)
      BY <1>0, <1>3, <1>6
    <3>2. q \in Seq(U!Datagrams)
      BY <1>0, <1>3
    <3> HIDE DEF q, t
    <3> QED
      BY SMTT(30), <1>3, <1>6, <3>1, <3>2, UdpInsert DEF Inserted, q
  <2> HIDE DEF t
  <2>2. /\ queue' \in [U!Objects -> Seq(U!Datagrams)] /\ queue'[Service] = queue[Service]
        /\ \A d \in Clients : d # c => queue'[d] = queue[d]
    BY <1>0, <1>3, <1>6, <2>1 DEF t
  <2>3. U!TypeOK'
    BY <1>1, <1>2, <2>2 DEF U!IInv, U!TypeOK
  <2>4. U!QuestionsWereAsked'
    BY <1>1, <1>2, <2>2 DEF U!IInv, U!QuestionsWereAsked
  <2>5. U!AnswersGoToTheAsker'
    <3>1. request.round <= round[c]
      BY <1>1 DEF U!IInv, U!QuestionsWereAsked
    <3>2. \A j \in DOMAIN t : t[j].from = c /\ t[j].round <= round[c]
      BY <1>3, <2>1, <3>1 DEF U!IInv, U!AnswersGoToTheAsker
    <3>3. ASSUME NEW d \in Clients
          PROVE  \A j \in DOMAIN queue'[d] :
                   queue'[d][j].from = d /\ queue'[d][j].round <= round'[d]
      <4>1. CASE d = c
        BY <1>1, <3>2, <4>1 DEF t
      <4>2. CASE d # c
        BY <1>1, <2>2, <4>2 DEF U!IInv, U!AnswersGoToTheAsker
      <4> QED
        BY <4>1, <4>2
    <3> QED
      BY <3>3 DEF U!AnswersGoToTheAsker
  <2>6. ASSUME NEW d \in Clients \ late' PROVE U!OneInFlight(d)'
    <3>1. U!OneInFlight(d)
      BY <1>1 DEF U!IInv
    <3>2. CASE d = c
      <4>1. U!InService(d)
        BY <1>1, <3>2 DEF U!InService
      <4>2. /\ udp_pc[d] = "get" /\ request.round = round[d] /\ queue[d] = <<>>
            /\ \A j \in DOMAIN queue[Service] : queue[Service][j].from # d
        BY <3>1, <4>1 DEF U!OneInFlight
      <4>3. Len(q) = 0 /\ i = 1 /\ 1 \in DOMAIN t
        BY <1>6, <2>1, <3>2, <4>2
      <4>4. t[1] = request
        BY <2>1, <4>3
      <4>5. Len(t) = 1
        BY <2>1, <4>3, LenProperties
      <4> QED
        BY <1>1, <1>2, <1>4, <2>2, <3>2, <4>2, <4>4, <4>5 DEF U!OneInFlight, t
    <3>3. CASE d # c
      BY <1>1, <1>2, <1>4, <2>2, <3>1, <3>3, UdpOthers
    <3> QED
      BY <3>2, <3>3
  <2> QED
    BY <2>3, <2>4, <2>5, <2>6 DEF U!IInv
<1> QED
  BY <1>3, <1>5, <1>6 DEF U!AnswerLost, U!AnswerArrives, U!Arrives

LEMMA UdpStep ==
  ASSUME U!UdpGroupAssumption, U!IInv, U!Next
  PROVE  U!IInv'
BY UdpSetUp, UdpAsk, UdpReceive, UdpAgain, UdpGet, UdpAnswer
   DEF U!Next, U!Serve, U!Client

-----------------------------------------------------------------------------
(* The behaviours *)

SInv == /\ which = "multi_io" => M!IInv
        /\ which = "reactor" => R!IInv
        /\ which = "udp" => U!IInv

\* Whichever component a behaviour is about, the invariant of that component
\* holds: its steps keep it, and nobody else touches its variables.
THEOREM ServersInvariant == ServersSpec => []SInv
<1> USE ServersAssumption DEF ServersAssumption
<1>1. ServersInit => SInv
  BY MultiIoInit, ReactorInit, UdpInit DEF ServersInit, SInv
<1>2. ASSUME SInv, [ServersNext]_<<which, vars, echo, multi_io, reactor, udp>>
      PROVE  SInv'
  <2>1. CASE which = "multi_io" /\ M!Next /\ UNCHANGED which
    BY <1>2, <2>1, MultiIoStep DEF SInv
  <2>2. CASE which = "reactor" /\ R!Next /\ UNCHANGED which
    BY <1>2, <2>2, ReactorStep DEF SInv
  <2>3. CASE which = "udp" /\ U!Next /\ UNCHANGED which
    BY <1>2, <2>3, UdpStep DEF SInv
  <2>4. CASE which = "tasks" /\ UNCHANGED which
    BY <2>4 DEF SInv
  <2>5. CASE UNCHANGED <<which, vars, echo, multi_io, reactor, udp>>
    <3>1. M!IInv => M!IInv'
      BY <2>5 DEF echo, multi_io, M!IInv, M!Net!TypeOK, M!Net!FdsAreOwn,
                  M!EchoConserves, M!Conserves, M!Pending, M!Said
    <3>2. R!IInv => R!IInv'
      <4> SUFFICES ASSUME R!IInv PROVE R!IInv'
        OBVIOUS
      <4>1. \A c \in Clients : R!Served(c)'
        BY <2>5, ReactorOthers DEF echo, reactor
      <4> QED
        BY <2>5, <4>1 DEF echo, reactor, R!IInv, R!Net!TypeOK, R!Net!FdsAreOwn
    <3>3. U!IInv => U!IInv'
      BY <2>5 DEF udp, U!IInv, U!TypeOK, U!QuestionsWereAsked, U!AnswersGoToTheAsker,
                  U!OneInFlight, U!InService
    <3> QED
      BY <1>2, <2>5, <3>1, <3>2, <3>3 DEF SInv
  <2> QED
    BY <1>2, <2>1, <2>2, <2>3, <2>4, <2>5 DEF ServersNext
<1> QED
  BY <1>1, <1>2, PTL DEF ServersSpec

\* What the echo servers send back and what the UDP service answers are true
\* at all times: the property RepliesAreTrue.
THEOREM ServersTellTheTruth == ServersSpec => []RepliesAreTrue
<1>1. SInv => RepliesAreTrue
  <2> SUFFICES ASSUME SInv PROVE RepliesAreTrue
    OBVIOUS
  <2>1. which = "multi_io" => M!EchoConserves
    BY DEF SInv, M!IInv
  <2>2. which = "reactor" => R!BufferIsTheConnection /\ R!RepliesAreWhole
    BY DEF SInv, R!IInv, R!Served, R!BufferIsTheConnection, R!RepliesAreWhole
  <2>3. which = "udp" => U!AnswersGoToTheAsker /\ U!FreshUntilLate
    BY DEF SInv, U!IInv, U!OneInFlight, U!FreshUntilLate
  <2> QED
    BY <2>1, <2>2, <2>3 DEF RepliesAreTrue
<1> QED
  BY <1>1, ServersInvariant, PTL

=============================================================================
