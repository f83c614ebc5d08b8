-------------------------------- MODULE MemGc --------------------------------
(***************************************************************************)
(* The memory tracker of mem/mem.h: malloc_gc and free_gc around the C     *)
(* library's malloc and free, called by several threads, and total_gc,     *)
(* which writes the report when they are done.                             *)
(*                                                                         *)
(* A semaphore makes the calls exclusive.  free_gc of an address that is   *)
(* not in the map posts it twice, once before it touches the map: from     *)
(* then on two threads may be inside.  The map is a std::map, so once two  *)
(* are, anything may follow, and the model stops there (Overlap).          *)
(*                                                                         *)
(* The per-thread log (OPEN_THREAD_INFO) is a trace and is left out.       *)
(***************************************************************************)
EXTENDS Integers, FiniteSets, Functions, FiniteSetsExt

CONSTANTS
  Threads,
  Blocks,   \* the addresses the C library's malloc returns
  NULL,     \* the null pointer
  Sizes,    \* what callers ask for
  MaxTotal,   \* bound: the bytes asked for in a run
  MaxMisuses  \* bound: the frees of an address that the program does not hold

Addrs == Blocks \cup {NULL}

MemGcAssumption == /\ IsFiniteSet(Threads)
                   /\ NULL \notin Blocks
                   /\ NULL \notin [unfreed : Int, entries : SUBSET Addrs]
                   /\ Sizes \subseteq Nat \ {0}
                   /\ MaxTotal \in Nat /\ MaxMisuses \in Nat

VARIABLES
  Mode,            \* what init_gc opened; nothing, if it found no directory
  sem_mutex,
  total,           \* the map: from some addresses to their _size
  totalMallocSize, totalFreeSize,
  logs,            \* the file of each address: "none", "leak" or "double"
  heap,            \* the C library's blocks, and their sizes
  held,            \* the blocks that the program has and has not freed
  pc, ptr, size,   \* per thread: where it is, and the call's arguments
  report,          \* what total_gc wrote, or NULL
  misuses,         \* history: how often the program freed what it did not hold
  failed,          \* history: the C library's malloc failed
  freedTwice       \* history: the C library was given a block it did not have

accounts == <<total, totalMallocSize, totalFreeSize>>
history == <<misuses, failed, freedTwice>>
vars == <<Mode, sem_mutex, accounts, logs, heap, held, pc, ptr, size, report, history>>

Empty == [a \in {} |-> 0]

\* init_gc
Init == /\ Mode \in SUBSET {"total", "single"}
        /\ sem_mutex = 1
        /\ total = Empty
        /\ totalMallocSize = 0 /\ totalFreeSize = 0
        /\ logs = [a \in Addrs |-> "none"]
        /\ heap = Empty
        /\ held = {}
        /\ pc = [t \in Threads |-> "idle"]
        /\ ptr = [t \in Threads |-> NULL]
        /\ size = [t \in Threads |-> 0]
        /\ report = NULL
        /\ misuses = 0 /\ failed = FALSE /\ freedTwice = FALSE

Inside == {t \in Threads : pc[t] \notin {"idle", "m_wait", "f_wait"}}
Overlap == Cardinality(Inside) > 1

Goto(t, from, to) == ~Overlap /\ pc[t] = from /\ pc' = [pc EXCEPT ![t] = to]

Insert(map, a, n) == IF a \in DOMAIN map THEN map
                     ELSE [b \in DOMAIN map \cup {a} |-> IF b = a THEN n ELSE map[b]]
Without(map, a) == Restrict(map, DOMAIN map \ {a})
Bytes(map) == MapThenSumSet(LAMBDA a : map[a], DOMAIN map)

Wait(t, from, to) == /\ Goto(t, from, to)
                     /\ sem_mutex > 0
                     /\ sem_mutex' = sem_mutex - 1
                     /\ UNCHANGED <<Mode, accounts, logs, heap, held, ptr, size, report, history>>

-----------------------------------------------------------------------------
(* malloc_gc *)

\* Callers stop before total_gc.
Asked == totalMallocSize + SumFunction([t \in Threads |-> size[t]])
MallocCall(t) == /\ report = NULL
                 /\ Goto(t, "idle", "m_wait")
                 /\ \E n \in Sizes : /\ Asked + n <= MaxTotal
                                     /\ size' = [size EXCEPT ![t] = n]
                 /\ UNCHANGED <<Mode, sem_mutex, accounts, logs, heap, held, ptr, report, history>>

\* Faulty form: the semaphore is not waited for.
WaitMissing(t) == /\ Goto(t, "m_wait", "m_alloc")
                  /\ UNCHANGED <<Mode, sem_mutex, accounts, logs, heap, held, ptr, size,
                                 report, history>>

MallocWait(t) == Wait(t, "m_wait", "m_alloc")

\* malloc, which may fail, and then the file and the sum.
MallocAlloc(t) ==
  /\ Goto(t, "m_alloc", "m_insert")
  /\ \E p \in Addrs \ DOMAIN heap :
       /\ ptr' = [ptr EXCEPT ![t] = p]
       /\ heap' = IF p = NULL THEN heap ELSE Insert(heap, p, size[t])
       /\ failed' = (failed \/ p = NULL)
       /\ logs' = IF "single" \in Mode THEN [logs EXCEPT ![p] = "leak"] ELSE logs
  /\ totalMallocSize' = IF "total" \in Mode THEN totalMallocSize + size[t]
                        ELSE totalMallocSize
  /\ UNCHANGED <<Mode, sem_mutex, total, totalFreeSize, held, size, report, misuses, freedTwice>>

\* std::map::insert leaves an entry that is there as it is.
MallocInsert(t) ==
  /\ Goto(t, "m_insert", "m_post")
  /\ total' = IF "total" \in Mode THEN Insert(total, ptr[t], size[t]) ELSE total
  /\ UNCHANGED <<Mode, sem_mutex, totalMallocSize, totalFreeSize, logs, heap, held, ptr,
                 size, report, history>>

MallocPost(t) ==
  /\ Goto(t, "m_post", "idle")
  /\ sem_mutex' = sem_mutex + 1
  /\ held' = held \cup ({ptr[t]} \ {NULL})
  /\ ptr' = [ptr EXCEPT ![t] = NULL]
  /\ size' = [size EXCEPT ![t] = 0]
  /\ UNCHANGED <<Mode, accounts, logs, heap, report, history>>

Malloc(t) == MallocWait(t) \/ MallocAlloc(t) \/ MallocInsert(t) \/ MallocPost(t)

-----------------------------------------------------------------------------
(* free_gc *)

\* The program frees a block it has; or NULL, or one it no longer has.
FreeCall(t) == /\ report = NULL
               /\ Goto(t, "idle", "f_wait")
               /\ \E p \in Addrs : /\ ptr' = [ptr EXCEPT ![t] = p]
                                   /\ held' = held \ {p}
                                   /\ misuses' = IF p \in held THEN misuses ELSE misuses + 1
               /\ misuses' <= MaxMisuses
               /\ UNCHANGED <<Mode, sem_mutex, accounts, logs, heap, size, report,
                              failed, freedTwice>>

FreeWait(t) == Wait(t, "f_wait", "f_find")

\* An address in the map is taken out, and given back to the C library.
FreeKnown(t) ==
  /\ "total" \in Mode /\ ptr[t] \in DOMAIN total
  /\ Goto(t, "f_find", "f_log")
  /\ totalFreeSize' = totalFreeSize + total[ptr[t]]
  /\ total' = Without(total, ptr[t])
  /\ heap' = Without(heap, ptr[t])
  /\ freedTwice' = (freedTwice \/ ptr[t] \in Blocks \ DOMAIN heap)
  /\ UNCHANGED <<Mode, sem_mutex, totalMallocSize, logs, held, ptr, size, report,
                 misuses, failed>>

\* Any other is a "double free": the semaphore is posted ...
FreeUnknown(t) ==
  /\ "total" \in Mode /\ ptr[t] \notin DOMAIN total
  /\ Goto(t, "f_find", "f_insert")
  /\ sem_mutex' = sem_mutex + 1
  /\ UNCHANGED <<Mode, accounts, logs, heap, held, ptr, size, report, history>>

\* ... and then the report gets an entry, of size 0.
FreeInsert(t) ==
  /\ Goto(t, "f_insert", "f_log")
  /\ total' = Insert(total, ptr[t], 0)
  /\ UNCHANGED <<Mode, sem_mutex, totalMallocSize, totalFreeSize, logs, heap, held, ptr,
                 size, report, history>>

\* Without OPEN_TOTAL_INFO the block is not freed.
FreeUntracked(t) ==
  /\ "total" \notin Mode
  /\ Goto(t, "f_find", "f_log")
  /\ UNCHANGED <<Mode, sem_mutex, accounts, logs, heap, held, ptr, size, report, history>>

\* unlink, and a file that says "double free" if there was none to unlink.
FreeLog(t) ==
  /\ Goto(t, "f_log", "f_post")
  /\ logs' = IF "single" \in Mode
               THEN [logs EXCEPT ![ptr[t]] = IF @ = "none" THEN "double" ELSE "none"]
               ELSE logs
  /\ UNCHANGED <<Mode, sem_mutex, accounts, heap, held, ptr, size, report, history>>

FreePost(t) ==
  /\ Goto(t, "f_post", "idle")
  /\ sem_mutex' = sem_mutex + 1
  /\ ptr' = [ptr EXCEPT ![t] = NULL]
  /\ UNCHANGED <<Mode, accounts, logs, heap, held, size, report, history>>

Free(t) == \/ FreeWait(t) \/ FreeKnown(t) \/ FreeUnknown(t) \/ FreeInsert(t)
           \/ FreeUntracked(t) \/ FreeLog(t) \/ FreePost(t)

-----------------------------------------------------------------------------
\* total_gc, once nobody calls malloc or free any more.
total_gc ==
  /\ report = NULL
  /\ \A t \in Threads : pc[t] = "idle"
  /\ "total" \in Mode
  /\ report' = [unfreed |-> totalMallocSize - totalFreeSize, entries |-> DOMAIN total]
  /\ total' = Empty
  /\ UNCHANGED <<Mode, sem_mutex, totalMallocSize, totalFreeSize, logs, heap, held, pc, ptr,
                 size, history>>

Next == \/ \E t \in Threads : MallocCall(t) \/ Malloc(t) \/ FreeCall(t) \/ Free(t)
        \/ total_gc

Spec == Init /\ [][Next]_vars

-----------------------------------------------------------------------------
(* Properties *)

\* Two threads are never inside at once, unless the program freed something
\* that it did not hold; and as long as it did not, the semaphore is 1 when
\* nobody is inside.
ExclusiveUnlessMisused ==
  misuses = 0 => ~Overlap /\ sem_mutex + Cardinality(Inside) = 1

\* When the program frees only what it holds and malloc does not fail, the
\* report names the blocks never freed, all of them and no others, and its
\* total is the sum of their sizes.
ReportNamesLeaks ==
  report # NULL /\ misuses = 0 /\ ~failed
    => report.entries = DOMAIN heap /\ report.unfreed = Bytes(heap)

\* For such a program the files left behind are those of the blocks it has
\* or is about to free.
FilesNameLeaks ==
  Inside = {} /\ misuses = 0 /\ ~failed /\ "single" \in Mode
    => {a \in Addrs : logs[a] # "none"} = held \cup {ptr[t] : t \in {u \in Threads : pc[u] = "f_wait"}}

\* A block that is freed again is reported as a double free and not passed on.
\* That is so once: the report is an entry of the map, so the third free of the
\* block finds it and passes it on.
SecondFreeIsCaught == freedTwice => misuses >= 2

=============================================================================
