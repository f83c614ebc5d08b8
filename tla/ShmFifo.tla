-------------------------------- MODULE ShmFifo --------------------------------
(***************************************************************************)
(* The FIFO of shmfifo/shmfifo.cpp in one shared-memory segment: Init in   *)
(* the process that creates the segment, and Read and Write in processes   *)
(* that are attached to it, from the moment it exists: Connect does not    *)
(* wait for Init to be done, and a new segment reads as zeros.             *)
(*                                                                         *)
(* A process may be killed at any step; its semaphores stay as they are.   *)
(* A block's data is one value.  Copying into a block is two steps, since  *)
(* Write clears the block before it fills it.  What happens to segments    *)
(* (Init over an old one, Connect, Separate, Distory) is ShmSegment.       *)
(***************************************************************************)
EXTENDS Integers, Sequences, FiniteSets, FiniteSetTheorems, QueueLemmas

CONSTANTS
  Readers, Writers,  \* the processes that call Read, and those that call Write
  Data,              \* what a caller may write
  Zero,              \* a block of zeros
  NULL,
  blockNum,
  MaxKilled          \* bound: the processes that are killed

ASSUME ShmFifoAssumption ==
  /\ IsFiniteSet(Readers) /\ IsFiniteSet(Writers) /\ Readers \cap Writers = {}
  /\ NULL \notin Data /\ Zero \notin Data /\ NULL # Zero
  /\ blockNum \in Nat
  /\ MaxKilled \in Nat

Procs == Readers \cup Writers

VARIABLES
  init,        \* how far Init has come
  sem_mutex, sem_full, sem_empty,
  readIndex, writeIndex,
  block,       \* the payload: block[k] for each index k
  pc,          \* where each process is
  buf,         \* the caller's buffer
  dead,        \* the processes that were killed
  early,       \* the processes asleep on a semaphore since before Init set it
  items        \* history: the blocks in the FIFO

sems == <<sem_mutex, sem_full, sem_empty>>
ring == <<readIndex, writeIndex, block, items>>
vars == <<init, sems, ring, pc, buf, dead, early>>

InitPCs == {"created", "cleared", "mutex_set", "empty_set", "done"}
ReaderPCs == {"idle", "r_empty", "r_mutex", "r_copy", "r_index", "r_post_mutex",
              "r_post_full"}
WriterPCs == {"idle", "w_full", "w_mutex", "w_clear", "w_copy", "w_index",
              "w_post_mutex", "w_post_empty"}

\* shmget(IPC_CREAT | IPC_EXCL) has returned, and the key can be found.
Init == /\ init = "created"
        /\ sem_mutex = 0 /\ sem_full = 0 /\ sem_empty = 0
        /\ readIndex = 0 /\ writeIndex = 0
        /\ block = [k \in 0 .. blockNum - 1 |-> Zero]
        /\ pc = [p \in Procs |-> "idle"]
        /\ buf = [p \in Procs |-> NULL]
        /\ dead = {}
        /\ early = {}
        /\ items = <<>>

-----------------------------------------------------------------------------
(* CShmFIFO::Init, after the segment was created *)

ClearSegment == /\ init = "created"
                /\ init' = "cleared"
                /\ sem_mutex' = 0 /\ sem_full' = 0 /\ sem_empty' = 0
                /\ readIndex' = 0 /\ writeIndex' = 0
                /\ block' = [k \in 0 .. blockNum - 1 |-> Zero]
                /\ UNCHANGED <<pc, buf, dead, early, items>>

\* Faulty form: the full slots are announced before the mutex is there.
SetFullFirst == /\ init = "cleared"
                /\ init' = "mutex_set"
                /\ sem_full' = blockNum
                /\ UNCHANGED <<sem_mutex, sem_empty, ring, pc, buf, dead, early>>

SetMutex == /\ init = "cleared"
            /\ init' = "mutex_set"
            /\ sem_mutex' = 1
            /\ UNCHANGED <<sem_full, sem_empty, ring, pc, buf, dead, early>>

SetEmpty == /\ init = "mutex_set"
            /\ init' = "empty_set"
            /\ sem_empty' = 0
            /\ UNCHANGED <<sem_mutex, sem_full, ring, pc, buf, dead, early>>

SetFull == /\ init = "empty_set"
           /\ init' = "done"
           /\ sem_full' = blockNum
           /\ UNCHANGED <<sem_mutex, sem_empty, ring, pc, buf, dead, early>>

-----------------------------------------------------------------------------
Goto(p, from, to) == /\ p \notin dead
                     /\ pc[p] = from
                     /\ pc' = [pc EXCEPT ![p] = to]
                     /\ early' = early \ {p}
                     /\ UNCHANGED <<init, dead>>

\* A process that meets a zero before Init has set the semaphore is asleep
\* on a semaphore that is about to be initialised again: sem_init wakes
\* nobody, and whether a later sem_post does is not defined.
EarlySleep(p) == /\ init # "done"
                 /\ p \notin dead
                 /\ pc[p] \in {"r_empty", "w_full"}
                 /\ early' = early \cup {p}
                 /\ UNCHANGED <<init, sems, ring, pc, buf, dead>>

\* The process is killed.
Kill(p) == /\ p \notin dead
           /\ Cardinality(dead) < MaxKilled
           /\ dead' = dead \cup {p}
           /\ UNCHANGED <<init, sems, ring, pc, buf, early>>

-----------------------------------------------------------------------------
(* CShmFIFO::Read *)

ReadCall(r) == /\ Goto(r, "idle", "r_empty")
               /\ UNCHANGED <<sems, ring, buf>>

ReadWaitEmpty(r) == /\ Goto(r, "r_empty", "r_mutex")
                    /\ sem_empty > 0
                    /\ sem_empty' = sem_empty - 1
                    /\ UNCHANGED <<sem_mutex, sem_full, ring, buf>>

ReadWaitMutex(r) == /\ Goto(r, "r_mutex", "r_copy")
                    /\ sem_mutex > 0
                    /\ sem_mutex' = sem_mutex - 1
                    /\ UNCHANGED <<sem_full, sem_empty, ring, buf>>

ReadCopy(r) == /\ Goto(r, "r_copy", "r_index")
               /\ buf' = [buf EXCEPT ![r] = block[readIndex]]
               /\ UNCHANGED <<sems, ring>>

ReadIndex(r) == /\ Goto(r, "r_index", "r_post_mutex")
                /\ readIndex' = (readIndex + 1) % blockNum
                /\ items' = Tail(items)
                /\ UNCHANGED <<sems, writeIndex, block, buf>>

ReadPostMutex(r) == /\ Goto(r, "r_post_mutex", "r_post_full")
                    /\ sem_mutex' = sem_mutex + 1
                    /\ UNCHANGED <<sem_full, sem_empty, ring, buf>>

\* Faulty form: the semaphore that Read waits on is posted again.
ReadPostsEmpty(r) == /\ Goto(r, "r_post_full", "idle")
                     /\ sem_empty' = sem_empty + 1
                     /\ buf' = [buf EXCEPT ![r] = NULL]
                     /\ UNCHANGED <<sem_mutex, sem_full, ring>>

ReadPostFull(r) == /\ Goto(r, "r_post_full", "idle")
                   /\ sem_full' = sem_full + 1
                   /\ buf' = [buf EXCEPT ![r] = NULL]
                   /\ UNCHANGED <<sem_mutex, sem_empty, ring>>

Read(r) == \/ ReadWaitEmpty(r) \/ ReadWaitMutex(r) \/ ReadCopy(r)
           \/ ReadIndex(r) \/ ReadPostMutex(r) \/ ReadPostFull(r)

-----------------------------------------------------------------------------
(* CShmFIFO::Write *)

WriteCall(w) == /\ Goto(w, "idle", "w_full")
                /\ \E d \in Data : buf' = [buf EXCEPT ![w] = d]
                /\ UNCHANGED <<sems, ring>>

WriteWaitFull(w) == /\ Goto(w, "w_full", "w_mutex")
                    /\ sem_full > 0
                    /\ sem_full' = sem_full - 1
                    /\ UNCHANGED <<sem_mutex, sem_empty, ring, buf>>

\* Faulty form: blocks are written without the mutex.
WriteWithoutMutex(w) == /\ Goto(w, "w_mutex", "w_clear")
                        /\ UNCHANGED <<sems, ring, buf>>

WriteWaitMutex(w) == /\ Goto(w, "w_mutex", "w_clear")
                     /\ sem_mutex > 0
                     /\ sem_mutex' = sem_mutex - 1
                     /\ UNCHANGED <<sem_full, sem_empty, ring, buf>>

WriteClear(w) == /\ Goto(w, "w_clear", "w_copy")
                 /\ block' = [block EXCEPT ![writeIndex] = Zero]
                 /\ UNCHANGED <<sems, readIndex, writeIndex, items, buf>>

WriteCopy(w) == /\ Goto(w, "w_copy", "w_index")
                /\ block' = [block EXCEPT ![writeIndex] = buf[w]]
                /\ UNCHANGED <<sems, readIndex, writeIndex, items, buf>>

WriteIndex(w) == /\ Goto(w, "w_index", "w_post_mutex")
                 /\ writeIndex' = (writeIndex + 1) % blockNum
                 /\ items' = Append(items, buf[w])
                 /\ UNCHANGED <<sems, readIndex, block, buf>>

\* Faulty form: the mutex is not given back.
WriteKeepsMutex(w) == /\ Goto(w, "w_post_mutex", "w_post_empty")
                      /\ UNCHANGED <<sems, ring, buf>>

WritePostMutex(w) == /\ Goto(w, "w_post_mutex", "w_post_empty")
                     /\ sem_mutex' = sem_mutex + 1
                     /\ UNCHANGED <<sem_full, sem_empty, ring, buf>>

\* Faulty form: readers are not told.
WriteTellsNobody(w) == /\ Goto(w, "w_post_empty", "idle")
                       /\ buf' = [buf EXCEPT ![w] = NULL]
                       /\ UNCHANGED <<sems, ring>>

WritePostEmpty(w) == /\ Goto(w, "w_post_empty", "idle")
                     /\ sem_empty' = sem_empty + 1
                     /\ buf' = [buf EXCEPT ![w] = NULL]
                     /\ UNCHANGED <<sem_mutex, sem_full, ring>>

Write(w) == \/ WriteWaitFull(w) \/ WriteWaitMutex(w) \/ WriteClear(w) \/ WriteCopy(w)
            \/ WriteIndex(w) \/ WritePostMutex(w) \/ WritePostEmpty(w)

-----------------------------------------------------------------------------
Initialise == ClearSegment \/ SetMutex \/ SetEmpty \/ SetFull

Next == \/ Initialise
        \/ \E p \in Procs : EarlySleep(p) \/ Kill(p)
        \/ \E r \in Readers : ReadCall(r) \/ Read(r)
        \/ \E w \in Writers : WriteCall(w) \/ Write(w)

Spec == Init /\ [][Next]_vars

\* Init goes on, and so does a process that is alive and not left asleep by
\* Init.  A semaphore may be taken by anyone who waits for it: only weak
\* fairness is assumed.
Fairness == /\ WF_vars(Initialise)
            /\ \A r \in Readers : WF_vars(r \notin early /\ Read(r))
            /\ \A w \in Writers : WF_vars(w \notin early /\ Write(w))

FairSpec == Spec /\ Fairness

-----------------------------------------------------------------------------
(* Properties *)

At(points) == Cardinality({p \in Procs : pc[p] \in points})
Inside == {"r_copy", "r_index", "r_post_mutex",
           "w_clear", "w_copy", "w_index", "w_post_mutex"}

\* A reader has taken a block and not moved readIndex, or a writer has moved
\* writeIndex and not announced the block; a writer has claimed a slot and not
\* moved writeIndex, or a reader has moved readIndex and not returned the slot.
Taking == {"r_mutex", "r_copy", "r_index"}
Announcing == {"w_post_mutex", "w_post_empty"}
Claiming == {"w_mutex", "w_clear", "w_copy", "w_index"}
Returning == {"r_post_mutex", "r_post_full"}

\* The semaphores count what they stand for, killed processes included: the
\* mutex is taken once per process inside, a block is either promised to
\* readers, taken by one, or not announced yet, and a slot is free, claimed
\* by a writer, full, or not returned yet.
SemaphoresAgree ==
  init = "done" =>
    /\ sem_mutex + At(Inside) = 1
    /\ sem_empty + At(Taking) + At(Announcing) = Len(items)
    /\ sem_full + At(Claiming) + Len(items) + At(Returning) = blockNum

\* The blocks from readIndex to writeIndex are the queue, whole and in
\* order, whatever half-written block a killed process left behind.
RingHoldsItems ==
  /\ writeIndex = IF blockNum = 0 THEN 0 ELSE (readIndex + Len(items)) % blockNum
  /\ \A k \in 1 .. Len(items) : block[(readIndex + k - 1) % blockNum] = items[k]

\* The semaphores and the indices tell the same story.
RingAndSemaphoresAgree == SemaphoresAgree /\ RingHoldsItems

\* Nobody gets past its first semaphore before Init has set up everything:
\* Init sets sem_full last.
NobodyBeforeInit ==
  init # "done" => \A p \in Procs : pc[p] \in {"idle", "r_empty", "w_full"}

\* The FIFO promised by the header.  A Write takes effect when it moves
\* writeIndex, a Read when it moves readIndex.
Offered == [w \in Writers |->
  IF pc[w] \in {"w_full", "w_mutex", "w_clear", "w_copy", "w_index"} THEN buf[w] ELSE NULL]
Got == [r \in Readers |->
  IF pc[r] \in {"r_post_mutex", "r_post_full"} THEN buf[r] ELSE NULL]
Fifo == INSTANCE BoundedFifo WITH offered <- Offered, got <- Got
ImplementsFifo == Fifo!Spec

\* Nobody is killed, and Init leaves nobody asleep.
Orderly == dead = {} /\ early = {}

\* With a block in the FIFO and a reader waiting, some reader takes a block:
\* writers, who compete for the same mutex, run out of slots first.
ReadersProgress ==
  (items # <<>> /\ \E r \in Readers : pc[r] = "r_empty")
    ~> (~Orderly \/ \E r \in Readers : pc[r] = "r_post_mutex")

\* With a free slot and a writer waiting, some writer writes a block.
WritersProgress ==
  (Len(items) < blockNum /\ \E w \in Writers : pc[w] = "w_full")
    ~> (~Orderly \/ \E w \in Writers : pc[w] = "w_post_mutex")

\* A process killed outside the critical section does not take the mutex
\* with it: the mutex is free again, unless its holder was killed.
MutexComesBack ==
  (init = "done" /\ sem_mutex = 0)
    ~> (sem_mutex = 1 \/ \E p \in dead : pc[p] \in Inside)

\* What can be read is read, what fits is written, and only a process killed
\* inside keeps the mutex.
BlocksPass == ReadersProgress /\ WritersProgress /\ MutexComesBack

-----------------------------------------------------------------------------
(* Proofs, for any finite sets of processes and any number of blocks.  The *)
(* semaphores are what makes the ring safe: they bound the processes       *)
(* inside by one, and say that whoever is inside finds a block, or a slot. *)

TypeOK == /\ init \in InitPCs
          /\ sem_mutex \in Nat /\ sem_full \in Nat /\ sem_empty \in Nat
          /\ readIndex \in Nat /\ writeIndex \in Nat
          /\ blockNum # 0 => readIndex < blockNum /\ writeIndex < blockNum
          /\ block \in [0 .. blockNum - 1 -> Data \cup {Zero}]
          /\ pc \in [Procs -> ReaderPCs \cup WriterPCs]
          /\ \A r \in Readers : pc[r] \in ReaderPCs
          /\ \A w \in Writers : pc[w] \in WriterPCs
          /\ buf \in [Procs -> Data \cup {Zero, NULL}]
          /\ items \in Seq(Data)

\* Until Init is done there is nothing to take, and nobody has.
StartInv == init # "done" =>
              /\ sem_full = 0 /\ sem_empty = 0
              /\ sem_mutex = IF init \in {"created", "cleared"} THEN 0 ELSE 1
              /\ readIndex = 0 /\ writeIndex = 0 /\ items = <<>>
              /\ NobodyBeforeInit

\* What is in the callers' buffers: a reader that is about to move readIndex
\* has the oldest block, and the block of a writer that is about to move
\* writeIndex is whole.
BufInv == /\ \A w \in Writers :
               /\ buf[w] \in IF pc[w] = "idle" THEN {NULL} ELSE Data
               /\ pc[w] = "w_index" => block[writeIndex] = buf[w]
          /\ \A r \in Readers :
               /\ pc[r] \in {"idle", "r_empty", "r_mutex", "r_copy"} => buf[r] = NULL
               /\ pc[r] = "r_index" => buf[r] = Head(items)
               /\ pc[r] \in {"r_post_mutex", "r_post_full"} => buf[r] \in Data

\* The inductive invariant.
IInv == TypeOK /\ StartInv /\ SemaphoresAgree /\ RingHoldsItems /\ BufInv

-----------------------------------------------------------------------------
(* Counting processes, and going round the ring *)

LEMMA ProcsAreFinite == IsFiniteSet(Procs)
  BY ShmFifoAssumption, FS_Union DEF Procs

\* The processes at some points are a finite set: none, or at least one, and
\* if they are at most one then any two are the same.
LEMMA AtFacts ==
  ASSUME NEW S
  PROVE  /\ At(S) \in Nat
         /\ (\A p \in Procs : pc[p] \notin S) => At(S) = 0
         /\ \A p \in Procs : pc[p] \in S => At(S) >= 1
         /\ At(S) <= 1 => \A p, q \in Procs : pc[p] \in S /\ pc[q] \in S => p = q
<1> DEFINE those == {p \in Procs : pc[p] \in S}
<1>1. IsFiniteSet(those) /\ At(S) = Cardinality(those)
  BY ProcsAreFinite, FS_Subset DEF At
<1>2. Cardinality(those) \in Nat
  BY <1>1, FS_CardinalityType
<1>3. ASSUME \A p \in Procs : pc[p] \notin S PROVE Cardinality(those) = 0
  BY <1>3, FS_EmptySet
<1>4. ASSUME NEW p \in Procs, pc[p] \in S
      PROVE  /\ IsFiniteSet(those \ {p})
             /\ Cardinality(those \ {p}) = Cardinality(those) - 1
             /\ Cardinality(those \ {p}) \in Nat
  <2>1. p \in those
    BY <1>4
  <2>2. IsFiniteSet(those \ {p}) /\ Cardinality(those \ {p}) = Cardinality(those) - 1
    BY <1>1, <2>1, FS_RemoveElement
  <2> QED
    BY <2>2, FS_CardinalityType
<1>5. ASSUME Cardinality(those) <= 1, NEW p \in Procs, NEW q \in Procs,
             pc[p] \in S, pc[q] \in S
      PROVE  p = q
  <2>1. Cardinality(those \ {p}) = 0 /\ IsFiniteSet(those \ {p})
    BY <1>2, <1>4, <1>5
  <2>2. those \ {p} = {}
    BY <2>1, FS_EmptySet
  <2> QED
    BY <1>5, <2>2
<1>6. ASSUME NEW p \in Procs, pc[p] \in S PROVE Cardinality(those) >= 1
  <2>1. Cardinality(those \ {p}) = Cardinality(those) - 1 /\ Cardinality(those \ {p}) \in Nat
    BY <1>4, <1>6
  <2> QED
    BY <1>2, <2>1
<1> QED
  BY <1>1, <1>2, <1>3, <1>5, <1>6

\* A process that moves leaves the points it was among and joins those it
\* goes to.
LEMMA AtMoves ==
  ASSUME NEW S, NEW p \in Procs, NEW from, NEW to, TypeOK, Goto(p, from, to)
  PROVE  At(S)' = At(S) - (IF from \in S THEN 1 ELSE 0) + (IF to \in S THEN 1 ELSE 0)
<1> DEFINE old == {q \in Procs : pc[q] \in S}
           new == {q \in Procs : pc'[q] \in S}
           rest == old \ {p}
<1>0. pc[p] = from /\ \A q \in Procs : pc'[q] = IF q = p THEN to ELSE pc[q]
  BY DEF TypeOK, Goto
<1>1. IsFiniteSet(old) /\ IsFiniteSet(rest)
  BY ProcsAreFinite, FS_Subset
<1>2. Cardinality(old) \in Nat /\ Cardinality(rest) \in Nat
  BY <1>1, FS_CardinalityType
<1>3. Cardinality(old) = Cardinality(rest) + (IF from \in S THEN 1 ELSE 0)
  <2>1. CASE from \in S
    <3>1. p \in old
      BY <1>0, <2>1
    <3>2. Cardinality(rest) = Cardinality(old) - 1
      BY <1>1, <3>1, FS_RemoveElement
    <3> QED
      BY <1>2, <2>1, <3>2
  <2>2. CASE from \notin S
    <3>1. rest = old
      BY <1>0, <2>2
    <3> QED
      BY <1>2, <2>2, <3>1
  <2> QED
    BY <2>1, <2>2
<1>4. Cardinality(new) = Cardinality(rest) + (IF to \in S THEN 1 ELSE 0)
  <2>1. CASE to \in S
    <3>1. new = rest \cup {p}
      BY <1>0, <2>1
    <3>2. Cardinality(rest \cup {p}) = Cardinality(rest) + 1
      BY <1>1, FS_AddElement
    <3> QED
      BY <2>1, <3>1, <3>2
  <2>2. CASE to \notin S
    <3>1. new = rest
      BY <1>0, <2>2
    <3> QED
      BY <1>2, <2>2, <3>1
  <2> QED
    BY <2>1, <2>2
<1>5. At(S) = Cardinality(old) /\ At(S)' = Cardinality(new)
  BY DEF At
<1> QED
  BY <1>2, <1>3, <1>4, <1>5

\* The same for the points that the semaphores stand for.
LEMMA GroupsMove ==
  ASSUME NEW p \in Procs, NEW from, NEW to, TypeOK, Goto(p, from, to)
  PROVE  /\ At(Inside)' = At(Inside) - (IF from \in Inside THEN 1 ELSE 0)
                                     + (IF to \in Inside THEN 1 ELSE 0)
         /\ At(Taking)' = At(Taking) - (IF from \in Taking THEN 1 ELSE 0)
                                     + (IF to \in Taking THEN 1 ELSE 0)
         /\ At(Announcing)' = At(Announcing) - (IF from \in Announcing THEN 1 ELSE 0)
                                             + (IF to \in Announcing THEN 1 ELSE 0)
         /\ At(Claiming)' = At(Claiming) - (IF from \in Claiming THEN 1 ELSE 0)
                                         + (IF to \in Claiming THEN 1 ELSE 0)
         /\ At(Returning)' = At(Returning) - (IF from \in Returning THEN 1 ELSE 0)
                                           + (IF to \in Returning THEN 1 ELSE 0)
         /\ At(Inside) \in Nat /\ At(Taking) \in Nat /\ At(Announcing) \in Nat
         /\ At(Claiming) \in Nat /\ At(Returning) \in Nat
  BY AtMoves, AtFacts

\* The slot behind len items from r on holds none of them.
LEMMA SlotBehind ==
  ASSUME NEW n \in Nat \ {0}, NEW r \in 0 .. n - 1, NEW len \in 0 .. n - 1, NEW k \in 1 .. len
  PROVE  (r + k - 1) % n # (r + len) % n
<1>1. (r + k - 1) % n = (IF r + k - 1 < n THEN r + k - 1 ELSE r + k - 1 - n)
  OBVIOUS
<1>2. (r + len) % n = (IF r + len < n THEN r + len ELSE r + len - n)
  OBVIOUS
<1> QED
  BY <1>1, <1>2

\* The slots that hold len items from r on, the one behind them, and the same
\* when r has moved on by one.
LEMMA RingSlots ==
  ASSUME NEW n \in Nat \ {0}, NEW r \in 0 .. n - 1, NEW len \in 0 .. n
  PROVE  /\ (r + 1) % n \in 0 .. n - 1
         /\ (r + len) % n \in 0 .. n - 1
         /\ \A k \in 1 .. n : (r + k - 1) % n \in 0 .. n - 1
         /\ len < n => (((r + len) % n) + 1) % n = (r + len + 1) % n
         /\ \A k \in 1 .. n : (((r + 1) % n) + k - 1) % n = (r + k) % n
<1>1. (r + 1) % n = (IF r + 1 < n THEN r + 1 ELSE 0)
  OBVIOUS
<1>2. (r + len) % n = (IF r + len < n THEN r + len ELSE r + len - n)
  OBVIOUS
<1>3. \A k \in 1 .. n : (r + k - 1) % n = (IF r + k - 1 < n THEN r + k - 1 ELSE r + k - 1 - n)
  OBVIOUS
<1>4. ASSUME len < n PROVE (((r + len) % n) + 1) % n = (r + len + 1) % n
  <2>1. (r + len + 1) % n = (IF r + len + 1 < n THEN r + len + 1 ELSE r + len + 1 - n)
    BY <1>4
  <2>2. CASE r + len < n
    BY <1>2, <2>2
  <2>3. CASE r + len >= n
    <3>1. (r + len - n + 1) % n = (IF r + len - n + 1 < n THEN r + len - n + 1 ELSE 0)
      BY <1>4, <2>3
    <3> QED
      BY <1>2, <1>4, <2>1, <2>3, <3>1
  <2> QED
    BY <2>2, <2>3
<1>5. ASSUME NEW k \in 1 .. n PROVE (((r + 1) % n) + k - 1) % n = (r + k) % n
  <2>1. CASE r + 1 < n
    BY <1>1, <2>1
  <2>2. CASE r + 1 = n
    <3>1. ((r + 1) % n) + k - 1 = k - 1 /\ r + k = n + (k - 1)
      BY <1>1, <2>2
    <3>2. (k - 1) % n = k - 1 /\ (n + (k - 1)) % n = k - 1
      OBVIOUS
    <3> QED
      BY <3>1, <3>2
  <2> QED
    BY <2>1, <2>2
<1>6. /\ (r + 1) % n \in 0 .. n - 1 /\ (r + len) % n \in 0 .. n - 1
      /\ \A k \in 1 .. n : (r + k - 1) % n \in 0 .. n - 1
  BY <1>1, <1>2, <1>3
<1> QED
  BY <1>4, <1>5, <1>6

-----------------------------------------------------------------------------
(* The inductive invariant *)

LEMMA ProcKinds ==
  /\ \A r \in Readers : r \in Procs /\ r \notin Writers
  /\ \A w \in Writers : w \in Procs /\ w \notin Readers
  /\ \A p \in Procs : p \in Readers \/ p \in Writers
  BY ShmFifoAssumption DEF Procs

\* What the semaphores say: nobody is past its first semaphore before Init is
\* done, at most one process is inside, whoever takes a block finds one, and
\* whoever claims a slot finds one.
LEMMA InsideFacts ==
  ASSUME TypeOK, StartInv, SemaphoresAgree
  PROVE  /\ \A p \in Procs : pc[p] \notin {"idle", "r_empty", "w_full"} => init = "done"
         /\ \A p, q \in Procs : pc[p] \in Inside /\ pc[q] \in Inside => p = q
         /\ Len(items) \in Nat /\ Len(items) <= blockNum /\ blockNum \in Nat
         /\ \A p \in Procs : pc[p] \in Taking => items # <<>> /\ blockNum # 0
         /\ \A p \in Procs : pc[p] \in Claiming => Len(items) < blockNum /\ blockNum # 0
<1>1. \A p \in Procs : pc[p] \notin {"idle", "r_empty", "w_full"} => init = "done"
  BY DEF StartInv, NobodyBeforeInit
<1>2. Len(items) \in Nat /\ blockNum \in Nat /\ (items = <<>> <=> Len(items) = 0)
  BY ShmFifoAssumption, EmptyFacts DEF TypeOK
<1>3. /\ At(Inside) \in Nat /\ At(Taking) \in Nat /\ At(Announcing) \in Nat
      /\ At(Claiming) \in Nat /\ At(Returning) \in Nat
      /\ sem_mutex \in Nat /\ sem_full \in Nat /\ sem_empty \in Nat
  BY AtFacts DEF TypeOK
<1>4. \A p, q \in Procs : pc[p] \in Inside /\ pc[q] \in Inside => p = q
  <2> SUFFICES ASSUME NEW p \in Procs, NEW q \in Procs, pc[p] \in Inside, pc[q] \in Inside
               PROVE  p = q
    OBVIOUS
  <2>1. init = "done"
    BY <1>1 DEF Inside
  <2>2. At(Inside) <= 1
    BY <1>3, <2>1 DEF SemaphoresAgree
  <2> QED
    BY <2>2, AtFacts
<1>5. Len(items) <= blockNum
  BY SMTT(30), <1>2, <1>3 DEF StartInv, SemaphoresAgree
<1>6. ASSUME NEW p \in Procs, pc[p] \in Taking PROVE items # <<>>
  <2>1. init = "done" /\ At(Taking) >= 1
    BY <1>1, <1>6, AtFacts DEF Taking
  <2> QED
    BY <1>2, <1>3, <2>1 DEF SemaphoresAgree
<1>7. ASSUME NEW p \in Procs, pc[p] \in Claiming PROVE Len(items) < blockNum
  <2>1. init = "done" /\ At(Claiming) >= 1
    BY <1>1, <1>7, AtFacts DEF Claiming
  <2> QED
    BY SMTT(30), <1>2, <1>3, <2>1 DEF SemaphoresAgree
<1> QED
  BY <1>1, <1>2, <1>4, <1>5, <1>6, <1>7

LEMMA InitEstablishesIInv == Init => IInv
<1> SUFFICES ASSUME Init PROVE IInv
  OBVIOUS
<1> USE ShmFifoAssumption, ProcKinds DEF Init
<1>1. items \in Seq(Data) /\ Len(items) = 0
  OBVIOUS
<1>2. TypeOK
  BY <1>1 DEF TypeOK, InitPCs, ReaderPCs, WriterPCs
<1>3. StartInv /\ SemaphoresAgree
  BY DEF StartInv, NobodyBeforeInit, SemaphoresAgree
<1>4. RingHoldsItems
  <2>1. blockNum # 0 => (0 + 0) % blockNum = 0
    OBVIOUS
  <2> QED
    BY <1>1, <2>1 DEF RingHoldsItems
<1>5. BufInv
  BY DEF BufInv
<1> QED
  BY <1>2, <1>3, <1>4, <1>5 DEF IInv

\* The steps of Read and Write, and all others.
LEMMA StepKinds ==
  ASSUME [Next]_vars
  PROVE  \/ Initialise
         \/ \E r \in Readers : ReadCall(r) \/ Read(r)
         \/ \E w \in Writers : WriteCall(w) \/ Write(w)
         \/ UNCHANGED <<init, sems, ring, pc, buf>>
  BY DEF Next, vars, EarlySleep, Kill

LEMMA TypeKept ==
  ASSUME IInv, [Next]_vars
  PROVE  TypeOK'
<1> USE ShmFifoAssumption, ProcKinds, InsideFacts
    DEF IInv, TypeOK, InitPCs, ReaderPCs, WriterPCs, Goto, sems, ring
<1>1. CASE Initialise
  BY <1>1 DEF Initialise, ClearSegment, SetMutex, SetEmpty, SetFull
<1>2. ASSUME NEW r \in Readers, ReadCall(r) \/ Read(r) PROVE TypeOK'
  <2>1. CASE ReadCall(r) \/ ReadWaitEmpty(r) \/ ReadWaitMutex(r)
             \/ ReadPostMutex(r) \/ ReadPostFull(r)
    BY SMTT(30), <2>1 DEF ReadCall, ReadWaitEmpty, ReadWaitMutex, ReadPostMutex, ReadPostFull
  <2>2. CASE ReadCopy(r)
    BY <2>2 DEF ReadCopy, Taking
  <2>3. CASE ReadIndex(r)
    <3>1. blockNum \in Nat \ {0} /\ readIndex \in 0 .. blockNum - 1 /\ items # <<>>
      BY <2>3 DEF ReadIndex, Taking
    <3>2. (readIndex + 1) % blockNum \in 0 .. blockNum - 1 /\ Tail(items) \in Seq(Data)
      BY <3>1, RingSlots, TailFacts
    <3> QED
      BY <2>3, <3>1, <3>2 DEF ReadIndex
  <2> QED
    BY <1>2, <2>1, <2>2, <2>3 DEF Read
<1>3. ASSUME NEW w \in Writers, WriteCall(w) \/ Write(w) PROVE TypeOK'
  <2>0. CASE WriteCall(w)
    BY <2>0 DEF WriteCall
  <2>1. CASE WriteWaitFull(w) \/ WriteWaitMutex(w)
    BY SMTT(30), <2>1 DEF WriteWaitFull, WriteWaitMutex
  <2>5. CASE WritePostMutex(w)
    BY <2>5 DEF WritePostMutex
  <2>6. CASE WritePostEmpty(w)
    BY <2>6 DEF WritePostEmpty
  <2>2. CASE WriteClear(w)
    BY <2>2 DEF WriteClear
  <2>3. CASE WriteCopy(w)
    BY <2>3 DEF WriteCopy, BufInv
  <2>4. CASE WriteIndex(w)
    <3>1. blockNum \in Nat \ {0} /\ writeIndex \in 0 .. blockNum - 1 /\ buf[w] \in Data
      BY <2>4 DEF WriteIndex, Claiming, BufInv
    <3>2. (writeIndex + 1) % blockNum \in 0 .. blockNum - 1
          /\ Append(items, buf[w]) \in Seq(Data)
      BY <3>1, RingSlots, AppendFacts
    <3> QED
      BY <2>4, <3>1, <3>2 DEF WriteIndex
  <2> QED
    BY <1>3, <2>0, <2>1, <2>2, <2>3, <2>4, <2>5, <2>6 DEF Write
<1>4. CASE UNCHANGED <<init, sems, ring, pc, buf>>
  BY <1>4
<1> QED
  BY <1>1, <1>2, <1>3, <1>4, StepKinds

\* sem_full is set last, and before that every semaphore of the first wait is
\* zero.
LEMMA StartKept ==
  ASSUME IInv, [Next]_vars
  PROVE  StartInv'
<1> USE ProcKinds DEF IInv, TypeOK, StartInv, NobodyBeforeInit, Goto, sems, ring
<1>1. CASE Initialise
  BY <1>1 DEF Initialise, ClearSegment, SetMutex, SetEmpty, SetFull, InitPCs
<1>2. ASSUME NEW r \in Readers, ReadCall(r) \/ Read(r) PROVE StartInv'
  BY <1>2 DEF Read, ReadCall, ReadWaitEmpty, ReadWaitMutex, ReadCopy, ReadIndex,
              ReadPostMutex, ReadPostFull
<1>3. ASSUME NEW w \in Writers, WriteCall(w) \/ Write(w) PROVE StartInv'
  BY <1>3 DEF Write, WriteCall, WriteWaitFull, WriteWaitMutex, WriteClear, WriteCopy,
              WriteIndex, WritePostMutex, WritePostEmpty
<1>4. CASE UNCHANGED <<init, sems, ring, pc, buf>>
  BY <1>4
<1> QED
  BY <1>1, <1>2, <1>3, <1>4, StepKinds

\* Every step of Read and Write moves as much between the semaphores and the
\* points as it moves its process.
LEMMA SemaphoresKept ==
  ASSUME IInv, [Next]_vars
  PROVE  SemaphoresAgree'
<1> DEFINE Moves(inside, taking, announcing, claiming, returning) ==
             /\ At(Inside)' = At(Inside) + inside
             /\ At(Taking)' = At(Taking) + taking
             /\ At(Announcing)' = At(Announcing) + announcing
             /\ At(Claiming)' = At(Claiming) + claiming
             /\ At(Returning)' = At(Returning) + returning
           Changes(mutex, full, empty, len) ==
             /\ sem_mutex' = sem_mutex + mutex
             /\ sem_full' = sem_full + full
             /\ sem_empty' = sem_empty + empty
             /\ Len(items') = Len(items) + len
             /\ init' = init
<1>0. /\ At(Inside) \in Nat /\ At(Taking) \in Nat /\ At(Announcing) \in Nat
      /\ At(Claiming) \in Nat /\ At(Returning) \in Nat
      /\ Len(items) \in Nat /\ blockNum \in Nat
      /\ sem_mutex \in Nat /\ sem_full \in Nat /\ sem_empty \in Nat
      /\ SemaphoresAgree
  BY AtFacts, InsideFacts DEF IInv, TypeOK
<1> HIDE DEF Moves, Changes
<1>a. \A a, b, c, d, x, y, z, u \in Int :
        /\ (a + x) + (b + y) = (a + b) + (x + y)
        /\ (a + x) + (b + y) + (c + z) = (a + b + c) + (x + y + z)
        /\ (a + x) + (b + y) + (c + z) + (d + u) = (a + b + c + d) + (x + y + z + u)
  OBVIOUS
<1>b. ASSUME NEW inside \in Int, NEW taking \in Int, NEW announcing \in Int,
             NEW claiming \in Int, NEW returning \in Int,
             NEW mutex \in Int, NEW full \in Int, NEW empty \in Int, NEW len \in Int,
             Moves(inside, taking, announcing, claiming, returning),
             Changes(mutex, full, empty, len),
             mutex + inside = 0, empty + taking + announcing = len,
             full + claiming + len + returning = 0
      PROVE  SemaphoresAgree'
  <2> SUFFICES ASSUME init' = "done"
               PROVE  /\ sem_mutex' + At(Inside)' = 1
                      /\ sem_empty' + At(Taking)' + At(Announcing)' = Len(items')
                      /\ sem_full' + At(Claiming)' + Len(items') + At(Returning)' = blockNum
    BY DEF SemaphoresAgree
  <2>0. init = "done"
    BY <1>b DEF Changes
  <2>1. /\ sem_mutex + At(Inside) = 1
        /\ sem_empty + At(Taking) + At(Announcing) = Len(items)
        /\ sem_full + At(Claiming) + Len(items) + At(Returning) = blockNum
    BY <1>0, <2>0 DEF SemaphoresAgree
  <2>2. /\ At(Inside)' = At(Inside) + inside /\ At(Taking)' = At(Taking) + taking
        /\ At(Announcing)' = At(Announcing) + announcing
        /\ At(Claiming)' = At(Claiming) + claiming
        /\ At(Returning)' = At(Returning) + returning
    BY <1>b DEF Moves
  <2>3. /\ sem_mutex' = sem_mutex + mutex /\ sem_full' = sem_full + full
        /\ sem_empty' = sem_empty + empty /\ Len(items') = Len(items) + len
    BY <1>b DEF Changes
  <2>4. mutex + inside = 0 /\ empty + taking + announcing = len
        /\ full + claiming + len + returning = 0
    BY <1>b
  <2>5. sem_mutex' + At(Inside)' = 1
    <3>1. (sem_mutex + mutex) + (At(Inside) + inside)
            = (sem_mutex + At(Inside)) + (mutex + inside)
      BY <1>0, <1>a
    <3> QED
      BY <2>1, <2>2, <2>3, <2>4, <3>1
  <2>6. sem_empty' + At(Taking)' + At(Announcing)' = Len(items')
    <3>1. (sem_empty + empty) + (At(Taking) + taking) + (At(Announcing) + announcing)
            = (sem_empty + At(Taking) + At(Announcing)) + (empty + taking + announcing)
      BY <1>0, <1>a
    <3> QED
      BY <2>1, <2>2, <2>3, <2>4, <3>1
  <2>7. sem_full' + At(Claiming)' + Len(items') + At(Returning)' = blockNum
    <3>1. (sem_full + full) + (At(Claiming) + claiming) + (Len(items) + len)
              + (At(Returning) + returning)
            = (sem_full + At(Claiming) + Len(items) + At(Returning))
                + (full + claiming + len + returning)
      BY SMTT(30), <1>0, <1>a
    <3> QED
      BY <1>0, <2>1, <2>2, <2>3, <2>4, <3>1
  <2> QED
    BY <2>5, <2>6, <2>7
<1> USE DEF sems, ring
<1>1. CASE Initialise
  <2> SUFFICES ASSUME SetFull PROVE SemaphoresAgree'
    BY <1>0, <1>1 DEF Initialise, ClearSegment, SetMutex, SetEmpty, SemaphoresAgree
  <2>1. /\ \A p \in Procs : pc'[p] \in {"idle", "r_empty", "w_full"}
        /\ sem_mutex' = 1 /\ sem_empty' = 0 /\ sem_full' = blockNum /\ items' = <<>>
    BY DEF SetFull, IInv, StartInv, NobodyBeforeInit
  <2>2. ASSUME NEW S, S \cap {"idle", "r_empty", "w_full"} = {} PROVE At(S)' = 0
    <3>1. {p \in Procs : pc'[p] \in S} = {}
      BY <2>1, <2>2
    <3> QED
      BY <3>1, FS_EmptySet DEF At
  <2>3. /\ At(Inside)' = 0 /\ At(Taking)' = 0 /\ At(Announcing)' = 0
        /\ At(Claiming)' = 0 /\ At(Returning)' = 0
    BY <2>2 DEF Inside, Taking, Announcing, Claiming, Returning
  <2> QED
    BY <1>0, <2>1, <2>3 DEF SemaphoresAgree
<1>2. ASSUME NEW r \in Readers, ReadCall(r) \/ Read(r) PROVE SemaphoresAgree'
  <2>1. CASE ReadCall(r)
    <3>1. Goto(r, "idle", "r_empty")
      BY <2>1 DEF ReadCall
    <3>2. Moves(0, 0, 0, 0, 0)
      BY <3>1, ProcKinds, GroupsMove DEF Moves, IInv, Inside, Taking, Announcing, Claiming, Returning
    <3>3. Changes(0, 0, 0, 0)
      BY <1>0, <2>1 DEF ReadCall, Goto, Changes
    <3> QED
      BY <1>b, <3>2, <3>3
  <2>2. CASE ReadWaitEmpty(r)
    <3>1. Goto(r, "r_empty", "r_mutex")
      BY <2>2 DEF ReadWaitEmpty
    <3>2. Moves(0, 1, 0, 0, 0)
      BY <3>1, ProcKinds, GroupsMove DEF Moves, IInv, Inside, Taking, Announcing, Claiming, Returning
    <3>3. Changes(0, 0, -1, 0)
      BY <1>0, <2>2 DEF ReadWaitEmpty, Goto, Changes
    <3> QED
      BY <1>b, <3>2, <3>3
  <2>3. CASE ReadWaitMutex(r)
    <3>1. Goto(r, "r_mutex", "r_copy")
      BY <2>3 DEF ReadWaitMutex
    <3>2. Moves(1, 0, 0, 0, 0)
      BY <3>1, ProcKinds, GroupsMove DEF Moves, IInv, Inside, Taking, Announcing, Claiming, Returning
    <3>3. Changes(-1, 0, 0, 0)
      BY <1>0, <2>3 DEF ReadWaitMutex, Goto, Changes
    <3> QED
      BY <1>b, <3>2, <3>3
  <2>4. CASE ReadCopy(r)
    <3>1. Goto(r, "r_copy", "r_index")
      BY <2>4 DEF ReadCopy
    <3>2. Moves(0, 0, 0, 0, 0)
      BY <3>1, ProcKinds, GroupsMove DEF Moves, IInv, Inside, Taking, Announcing, Claiming, Returning
    <3>3. Changes(0, 0, 0, 0)
      BY <1>0, <2>4 DEF ReadCopy, Goto, Changes
    <3> QED
      BY <1>b, <3>2, <3>3
  <2>5. CASE ReadIndex(r)
    <3>1. Goto(r, "r_index", "r_post_mutex")
      BY <2>5 DEF ReadIndex
    <3>2. Moves(0, -1, 0, 0, 1)
      BY <3>1, ProcKinds, GroupsMove DEF Moves, IInv, Inside, Taking, Announcing, Claiming, Returning
    <3>3. items # <<>>
      BY <3>1, ProcKinds, InsideFacts DEF IInv, Goto, Taking
    <3>4. Len(Tail(items)) = Len(items) - 1
      BY <3>3, TailFacts DEF IInv, TypeOK
    <3>5. Changes(0, 0, 0, -1)
      BY <1>0, <2>5, <3>4 DEF ReadIndex, Goto, Changes
    <3> QED
      BY <1>b, <3>2, <3>5
  <2>6. CASE ReadPostMutex(r)
    <3>1. Goto(r, "r_post_mutex", "r_post_full")
      BY <2>6 DEF ReadPostMutex
    <3>2. Moves(-1, 0, 0, 0, 0)
      BY <3>1, ProcKinds, GroupsMove DEF Moves, IInv, Inside, Taking, Announcing, Claiming, Returning
    <3>3. Changes(1, 0, 0, 0)
      BY <1>0, <2>6 DEF ReadPostMutex, Goto, Changes
    <3> QED
      BY <1>b, <3>2, <3>3
  <2>7. CASE ReadPostFull(r)
    <3>1. Goto(r, "r_post_full", "idle")
      BY <2>7 DEF ReadPostFull
    <3>2. Moves(0, 0, 0, 0, -1)
      BY <3>1, ProcKinds, GroupsMove DEF Moves, IInv, Inside, Taking, Announcing, Claiming, Returning
    <3>3. Changes(0, 1, 0, 0)
      BY <1>0, <2>7 DEF ReadPostFull, Goto, Changes
    <3> QED
      BY <1>b, <3>2, <3>3
  <2> QED
    BY <1>2, <2>1, <2>2, <2>3, <2>4, <2>5, <2>6, <2>7 DEF Read
<1>3. ASSUME NEW w \in Writers, WriteCall(w) \/ Write(w) PROVE SemaphoresAgree'
  <2>1. CASE WriteCall(w)
    <3>1. Goto(w, "idle", "w_full")
      BY <2>1 DEF WriteCall
    <3>2. Moves(0, 0, 0, 0, 0)
      BY <3>1, ProcKinds, GroupsMove DEF Moves, IInv, Inside, Taking, Announcing, Claiming, Returning
    <3>3. Changes(0, 0, 0, 0)
      BY <1>0, <2>1 DEF WriteCall, Goto, Changes
    <3> QED
      BY <1>b, <3>2, <3>3
  <2>2. CASE WriteWaitFull(w)
    <3>1. Goto(w, "w_full", "w_mutex")
      BY <2>2 DEF WriteWaitFull
    <3>2. Moves(0, 0, 0, 1, 0)
      BY <3>1, ProcKinds, GroupsMove DEF Moves, IInv, Inside, Taking, Announcing, Claiming, Returning
    <3>3. Changes(0, -1, 0, 0)
      BY <1>0, <2>2 DEF WriteWaitFull, Goto, Changes
    <3> QED
      BY <1>b, <3>2, <3>3
  <2>3. CASE WriteWaitMutex(w)
    <3>1. Goto(w, "w_mutex", "w_clear")
      BY <2>3 DEF WriteWaitMutex
    <3>2. Moves(1, 0, 0, 0, 0)
      BY <3>1, ProcKinds, GroupsMove DEF Moves, IInv, Inside, Taking, Announcing, Claiming, Returning
    <3>3. Changes(-1, 0, 0, 0)
      BY <1>0, <2>3 DEF WriteWaitMutex, Goto, Changes
    <3> QED
      BY <1>b, <3>2, <3>3
  <2>4. CASE WriteClear(w)
    <3>1. Goto(w, "w_clear", "w_copy")
      BY <2>4 DEF WriteClear
    <3>2. Moves(0, 0, 0, 0, 0)
      BY <3>1, ProcKinds, GroupsMove DEF Moves, IInv, Inside, Taking, Announcing, Claiming, Returning
    <3>3. Changes(0, 0, 0, 0)
      BY <1>0, <2>4 DEF WriteClear, Goto, Changes
    <3> QED
      BY <1>b, <3>2, <3>3
  <2>5. CASE WriteCopy(w)
    <3>1. Goto(w, "w_copy", "w_index")
      BY <2>5 DEF WriteCopy
    <3>2. Moves(0, 0, 0, 0, 0)
      BY <3>1, ProcKinds, GroupsMove DEF Moves, IInv, Inside, Taking, Announcing, Claiming, Returning
    <3>3. Changes(0, 0, 0, 0)
      BY <1>0, <2>5 DEF WriteCopy, Goto, Changes
    <3> QED
      BY <1>b, <3>2, <3>3
  <2>6. CASE WriteIndex(w)
    <3>1. Goto(w, "w_index", "w_post_mutex")
      BY <2>6 DEF WriteIndex
    <3>2. Moves(0, 0, 1, -1, 0)
      BY <3>1, ProcKinds, GroupsMove DEF Moves, IInv, Inside, Taking, Announcing, Claiming, Returning
    <3>3. buf[w] \in Data
      BY <3>1 DEF IInv, Goto, BufInv
    <3>4. Len(Append(items, buf[w])) = Len(items) + 1
      BY <3>3, AppendFacts DEF IInv, TypeOK
    <3>5. Changes(0, 0, 0, 1)
      BY <1>0, <2>6, <3>4 DEF WriteIndex, Goto, Changes
    <3> QED
      BY <1>b, <3>2, <3>5
  <2>7. CASE WritePostMutex(w)
    <3>1. Goto(w, "w_post_mutex", "w_post_empty")
      BY <2>7 DEF WritePostMutex
    <3>2. Moves(-1, 0, 0, 0, 0)
      BY <3>1, ProcKinds, GroupsMove DEF Moves, IInv, Inside, Taking, Announcing, Claiming, Returning
    <3>3. Changes(1, 0, 0, 0)
      BY <1>0, <2>7 DEF WritePostMutex, Goto, Changes
    <3> QED
      BY <1>b, <3>2, <3>3
  <2>8. CASE WritePostEmpty(w)
    <3>1. Goto(w, "w_post_empty", "idle")
      BY <2>8 DEF WritePostEmpty
    <3>2. Moves(0, 0, -1, 0, 0)
      BY <3>1, ProcKinds, GroupsMove DEF Moves, IInv, Inside, Taking, Announcing, Claiming, Returning
    <3>3. Changes(0, 0, 1, 0)
      BY <1>0, <2>8 DEF WritePostEmpty, Goto, Changes
    <3> QED
      BY <1>b, <3>2, <3>3
  <2> QED
    BY <1>3, <2>1, <2>2, <2>3, <2>4, <2>5, <2>6, <2>7, <2>8 DEF Write
<1>4. CASE UNCHANGED <<init, sems, ring, pc, buf>>
  BY <1>0, <1>4 DEF SemaphoresAgree, At
<1> QED
  BY <1>1, <1>2, <1>3, <1>4, StepKinds

\* A block enters behind the others, in a slot that none of them is in, and
\* leaves at the front; a writer at work touches no slot but its own.
LEMMA RingKept ==
  ASSUME IInv, [Next]_vars
  PROVE  RingHoldsItems'
<1> USE DEF sems, ring
<1>0. /\ TypeOK /\ StartInv /\ RingHoldsItems /\ BufInv
      /\ Len(items) \in Nat /\ Len(items) <= blockNum /\ blockNum \in Nat
      /\ items \in Seq(Data)
  BY InsideFacts DEF IInv, TypeOK
<1>1. CASE UNCHANGED ring
  BY <1>0, <1>1 DEF RingHoldsItems
<1>2. CASE ClearSegment
  <2>1. Len(items') = 0 /\ readIndex' = 0 /\ writeIndex' = 0
    BY <1>0, <1>2 DEF ClearSegment, StartInv
  <2>2. blockNum # 0 => (0 + 0) % blockNum = 0
    BY <1>0
  <2> QED
    BY <2>1, <2>2 DEF RingHoldsItems
<1>3. ASSUME NEW r \in Readers, ReadIndex(r) PROVE RingHoldsItems'
  <2>1. items # <<>> /\ blockNum \in Nat \ {0} /\ readIndex \in 0 .. blockNum - 1
    BY <1>0, <1>3, ProcKinds, InsideFacts DEF IInv, TypeOK, ReadIndex, Goto, Taking
  <2>2. /\ Len(Tail(items)) = Len(items) - 1 /\ Len(items) >= 1
        /\ \A i \in 1 .. Len(Tail(items)) : Tail(items)[i] = items[i + 1]
    BY <1>0, <2>1, TailFacts
  <2>3. \A k \in 1 .. blockNum :
          (((readIndex + 1) % blockNum) + k - 1) % blockNum = (readIndex + k) % blockNum
    <3>1. Len(items) \in 0 .. blockNum
      BY <1>0
    <3> QED
      BY <2>1, <3>1, RingSlots
  <2>4. readIndex' = (readIndex + 1) % blockNum /\ items' = Tail(items)
        /\ UNCHANGED <<writeIndex, block>> /\ readIndex' \in Nat
    BY <1>0, <1>3, <2>1, RingSlots DEF ReadIndex
  <2>5. writeIndex' = (readIndex' + Len(items')) % blockNum
    <3>1. writeIndex = (readIndex + Len(items)) % blockNum
      BY <1>0, <2>1 DEF RingHoldsItems
    <3>2. (readIndex' + Len(items) - 1) % blockNum = (readIndex + Len(items)) % blockNum
      BY <1>0, <2>2, <2>3, <2>4
    <3>3. readIndex' + Len(items') = readIndex' + Len(items) - 1
      BY <1>0, <2>2, <2>4
    <3> QED
      BY <2>4, <3>1, <3>2, <3>3
  <2>6. ASSUME NEW k \in 1 .. Len(items')
        PROVE  block'[(readIndex' + k - 1) % blockNum] = items'[k]
    <3>1. k \in 1 .. blockNum /\ k + 1 \in 1 .. Len(items) /\ k \in 1 .. Len(Tail(items))
      BY <1>0, <2>2, <2>4, <2>6
    <3>2. (readIndex' + k - 1) % blockNum = (readIndex + k) % blockNum
      BY <2>3, <2>4, <3>1
    <3>3. readIndex + (k + 1) - 1 = readIndex + k
      BY <2>1, <3>1
    <3>4. block[(readIndex + (k + 1) - 1) % blockNum] = items[k + 1]
      BY <1>0, <3>1 DEF RingHoldsItems
    <3> QED
      BY <2>2, <2>4, <3>1, <3>2, <3>3, <3>4
  <2> QED
    BY <2>1, <2>5, <2>6 DEF RingHoldsItems
<1>4. ASSUME NEW w \in Writers, WriteClear(w) \/ WriteCopy(w) \/ WriteIndex(w)
      PROVE  RingHoldsItems'
  <2>1. Len(items) < blockNum /\ blockNum \in Nat \ {0} /\ readIndex \in 0 .. blockNum - 1
    BY <1>0, <1>4, ProcKinds, InsideFacts
       DEF IInv, TypeOK, WriteClear, WriteCopy, WriteIndex, Goto, Claiming
  <2>2. writeIndex = (readIndex + Len(items)) % blockNum /\ writeIndex \in 0 .. blockNum - 1
    BY <1>0, <2>1, RingSlots DEF RingHoldsItems
  <2>3. CASE WriteClear(w) \/ WriteCopy(w)
    <3>1. \E b : block' = [block EXCEPT ![writeIndex] = b]
      BY <2>3 DEF WriteClear, WriteCopy
    <3>2. UNCHANGED <<readIndex, writeIndex, items>>
      BY <2>3 DEF WriteClear, WriteCopy
    <3>3. ASSUME NEW k \in 1 .. Len(items)
          PROVE  block'[(readIndex + k - 1) % blockNum] = items[k]
      <4>1. (readIndex + k - 1) % blockNum # writeIndex
        <5>1. Len(items) \in 0 .. blockNum - 1
          BY <1>0, <2>1
        <5>2. (readIndex + k - 1) % blockNum # (readIndex + Len(items)) % blockNum
          BY <2>1, <5>1, SlotBehind
        <5> QED
          BY <2>2, <5>2
      <4>2. (readIndex + k - 1) % blockNum \in 0 .. blockNum - 1
        BY <1>0, <2>1, RingSlots
      <4>3. block[(readIndex + k - 1) % blockNum] = items[k]
        BY <1>0 DEF RingHoldsItems
      <4> QED
        BY <1>0, <3>1, <4>1, <4>2, <4>3 DEF TypeOK
    <3> QED
      BY <2>1, <2>2, <3>2, <3>3 DEF RingHoldsItems
  <2>4. CASE WriteIndex(w)
    <3>1. buf[w] \in Data /\ block[writeIndex] = buf[w]
      BY <1>0, <2>4 DEF WriteIndex, Goto, BufInv
    <3>2. /\ items' = Append(items, buf[w]) /\ Len(items') = Len(items) + 1
          /\ \A i \in 1 .. Len(items) : items'[i] = items[i]
          /\ items'[Len(items) + 1] = buf[w]
      BY <1>0, <2>4, <3>1, AppendFacts DEF WriteIndex
    <3>3. UNCHANGED <<readIndex, block>> /\ writeIndex' = (writeIndex + 1) % blockNum
      BY <2>4 DEF WriteIndex
    <3>4. writeIndex' = (readIndex' + Len(items')) % blockNum
      <4>1. (((readIndex + Len(items)) % blockNum) + 1) % blockNum
              = (readIndex + Len(items) + 1) % blockNum
        <5>1. Len(items) \in 0 .. blockNum
          BY <1>0
        <5> QED
          BY <2>1, <5>1, RingSlots
      <4>2. readIndex' + Len(items') = readIndex + Len(items) + 1
        BY <1>0, <2>1, <3>2, <3>3
      <4> QED
        BY <2>2, <3>3, <4>1, <4>2
    <3>5. ASSUME NEW k \in 1 .. Len(items')
          PROVE  block'[(readIndex' + k - 1) % blockNum] = items'[k]
      <4>1. CASE k = Len(items) + 1
        <5>1. readIndex + k - 1 = readIndex + Len(items)
          BY <1>0, <2>1, <4>1
        <5> QED
          BY <2>2, <3>1, <3>2, <3>3, <4>1, <5>1
      <4>2. CASE k # Len(items) + 1
        <5>1. k \in 1 .. Len(items)
          BY <1>0, <3>2, <4>2
        <5> QED
          BY <1>0, <3>2, <3>3, <5>1 DEF RingHoldsItems
      <4> QED
        BY <4>1, <4>2
    <3> QED
      BY <2>1, <3>4, <3>5 DEF RingHoldsItems
  <2> QED
    BY <1>4, <2>3, <2>4
<1> QED
  BY <1>1, <1>2, <1>3, <1>4, StepKinds
     DEF Initialise, SetMutex, SetEmpty, SetFull,
         ReadCall, Read, ReadWaitEmpty, ReadWaitMutex, ReadCopy, ReadPostMutex, ReadPostFull,
         WriteCall, Write, WriteWaitFull, WriteWaitMutex, WritePostMutex, WritePostEmpty

\* Nobody moves an index or touches a block while another process is between
\* its copy and its index.
LEMMA BufKept ==
  ASSUME IInv, [Next]_vars
  PROVE  BufInv'
<1> USE ProcKinds DEF sems, ring
<1>0. /\ TypeOK /\ RingHoldsItems /\ BufInv
      /\ \A p, q \in Procs : pc[p] \in Inside /\ pc[q] \in Inside => p = q
      /\ \A p \in Procs : pc[p] \in Taking => items # <<>> /\ blockNum # 0
      /\ \A p \in Procs : pc[p] \in Claiming => Len(items) < blockNum /\ blockNum # 0
      /\ \A p \in Procs : pc[p] \notin {"idle", "r_empty", "w_full"} => init = "done"
  BY InsideFacts DEF IInv
<1>1. CASE Initialise
  <2>1. \A p \in Procs : pc[p] \in {"idle", "r_empty", "w_full"}
    BY <1>0, <1>1 DEF Initialise, ClearSegment, SetMutex, SetEmpty, SetFull
  <2>2. UNCHANGED <<pc, buf>>
    BY <1>1 DEF Initialise, ClearSegment, SetMutex, SetEmpty, SetFull, ring
  <2> QED
    BY <1>0, <2>1, <2>2 DEF BufInv
<1>2. ASSUME NEW r \in Readers, ReadCall(r) \/ Read(r) PROVE BufInv'
  <2>1. CASE ReadCall(r) \/ ReadWaitEmpty(r) \/ ReadWaitMutex(r) \/ ReadPostMutex(r)
    BY ZenonT(60), <1>0, <2>1 DEF BufInv, TypeOK, Goto, ReadCall, ReadWaitEmpty, ReadWaitMutex, ReadPostMutex
  <2>2. CASE ReadCopy(r)
    <3>1. block[readIndex] = Head(items)
      <4>1. /\ items # <<>> /\ items \in Seq(Data)
            /\ blockNum \in Nat \ {0} /\ readIndex \in 0 .. blockNum - 1
        BY <1>0, <2>2, ShmFifoAssumption DEF ReadCopy, Goto, Taking, TypeOK
      <4>2. 1 \in 1 .. Len(items) /\ Head(items) = items[1]
        BY <4>1, TailFacts
      <4>3. (readIndex + 1 - 1) % blockNum = readIndex
        BY <4>1
      <4>4. block[(readIndex + 1 - 1) % blockNum] = items[1]
        BY <1>0, <4>2 DEF RingHoldsItems
      <4> QED
        BY <4>2, <4>3, <4>4
    <3> QED
      BY <1>0, <2>2, <3>1 DEF BufInv, TypeOK, Goto, ReadCopy
  <2>3. CASE ReadIndex(r)
    <3>1. Head(items) \in Data
      <4>1. items # <<>> /\ items \in Seq(Data)
        BY <1>0, <2>3 DEF ReadIndex, Goto, Taking, TypeOK
      <4> QED
        BY <4>1, TailFacts
    <3>2. \A q \in Readers : q # r => pc[q] # "r_index"
      BY <1>0, <2>3 DEF ReadIndex, Goto, Inside
    <3> QED
      BY <1>0, <2>3, <3>1, <3>2 DEF BufInv, TypeOK, Goto, ReadIndex
  <2>4. CASE ReadPostFull(r)
    BY <1>0, <2>4 DEF BufInv, TypeOK, Goto, ReadPostFull
  <2> QED
    BY <1>2, <2>1, <2>2, <2>3, <2>4 DEF Read
<1>3. ASSUME NEW w \in Writers, WriteCall(w) \/ Write(w) PROVE BufInv'
  <2>1. CASE WriteCall(w)
    BY <1>0, <2>1 DEF BufInv, TypeOK, Goto, WriteCall
  <2>2. CASE WriteWaitFull(w) \/ WriteWaitMutex(w) \/ WritePostMutex(w)
    BY <1>0, <2>2 DEF BufInv, TypeOK, Goto, WriteWaitFull, WriteWaitMutex, WritePostMutex
  <2>3. CASE WriteClear(w) \/ WriteCopy(w) \/ WriteIndex(w)
    <3>1. /\ \A q \in Writers : q # w => pc[q] # "w_index"
          /\ \A q \in Readers : pc[q] # "r_index"
      BY <1>0, <2>3 DEF WriteClear, WriteCopy, WriteIndex, Goto, Inside
    <3>2. blockNum # 0 /\ writeIndex \in 0 .. blockNum - 1
      BY <1>0, <2>3, ShmFifoAssumption
         DEF WriteClear, WriteCopy, WriteIndex, Goto, Claiming, TypeOK
    <3>3. CASE WriteClear(w)
      BY <1>0, <3>1, <3>2, <3>3 DEF BufInv, TypeOK, Goto, WriteClear
    <3>4. CASE WriteCopy(w)
      BY <1>0, <3>1, <3>2, <3>4 DEF BufInv, TypeOK, Goto, WriteCopy
    <3>5. CASE WriteIndex(w)
      BY <1>0, <3>1, <3>2, <3>5 DEF BufInv, TypeOK, Goto, WriteIndex
    <3> QED
      BY <2>3, <3>3, <3>4, <3>5
  <2>4. CASE WritePostEmpty(w)
    BY <1>0, <2>4 DEF BufInv, TypeOK, Goto, WritePostEmpty
  <2> QED
    BY <1>3, <2>1, <2>2, <2>3, <2>4 DEF Write
<1>4. CASE UNCHANGED <<init, sems, ring, pc, buf>>
  BY <1>0, <1>4 DEF BufInv
<1> QED
  BY <1>1, <1>2, <1>3, <1>4, StepKinds

LEMMA StepPreservesIInv == IInv /\ [Next]_vars => IInv'
  BY TypeKept, StartKept, SemaphoresKept, RingKept, BufKept DEF IInv

\* The inductive invariant holds in every reachable state.
THEOREM ShmFifoInvariant == Spec => []IInv
  BY InitEstablishesIInv, StepPreservesIInv, PTL DEF Spec

\* Nobody gets past its first semaphore before Init is done, though Connect
\* does not wait for it.
THEOREM WaitersWaitForInit == Spec => []NobodyBeforeInit
<1>1. IInv => NobodyBeforeInit
  BY DEF IInv, StartInv, NobodyBeforeInit
<1> QED
  BY <1>1, ShmFifoInvariant, PTL

\* The semaphores count what they stand for, and the ring holds the blocks,
\* whoever is killed wherever.
THEOREM RingHoldsWhatSemaphoresCount == Spec => []RingAndSemaphoresAgree
<1>1. IInv => RingAndSemaphoresAgree
  BY DEF IInv, RingAndSemaphoresAgree
<1> QED
  BY <1>1, ShmFifoInvariant, PTL

-----------------------------------------------------------------------------
(* The refinement: a Write puts its block into the queue when it moves     *)
(* writeIndex, a Read gets its block when it moves readIndex, and nothing  *)
(* else, no kill either, can be seen.                                      *)

LEMMA StepRefinesFifo == IInv /\ [Next]_vars => [Fifo!Next]_(Fifo!vars)
<1> SUFFICES ASSUME IInv, [Next]_vars
             PROVE  \/ \E w \in Writers : Fifo!Put(w) \/ \E d \in Data : Fifo!Offer(w, d)
                    \/ \E r \in Readers : Fifo!Get(r) \/ Fifo!Use(r)
                    \/ items' = items /\ Offered' = Offered /\ Got' = Got
  BY DEF Fifo!Next, Fifo!vars
<1> USE ProcKinds DEF sems, ring
<1>0. /\ TypeOK /\ BufInv
      /\ \A p \in Procs : pc[p] \in Taking => items # <<>> /\ blockNum # 0
      /\ \A p \in Procs : pc[p] \in Claiming => Len(items) < blockNum /\ blockNum # 0
      /\ NULL \notin Data
  BY InsideFacts, ShmFifoAssumption DEF IInv
<1>1. CASE Initialise
  BY <1>0, <1>1 DEF Initialise, ClearSegment, SetMutex, SetEmpty, SetFull, Offered, Got,
                    StartInv, IInv
<1>2. ASSUME NEW r \in Readers,
             ReadCall(r) \/ ReadWaitEmpty(r) \/ ReadWaitMutex(r) \/ ReadCopy(r) \/ ReadPostMutex(r)
      PROVE  items' = items /\ Offered' = Offered /\ Got' = Got
  <2>1. items' = items
    BY <1>2 DEF ReadCall, ReadWaitEmpty, ReadWaitMutex, ReadCopy, ReadPostMutex
  <2>2. \A w \in Writers : pc'[w] = pc[w] /\ buf'[w] = buf[w]
    BY <1>0, <1>2 DEF ReadCall, ReadWaitEmpty, ReadWaitMutex, ReadCopy, ReadPostMutex, Goto, TypeOK
  <2>3. \A q \in Readers : (IF pc'[q] \in {"r_post_mutex", "r_post_full"} THEN buf'[q] ELSE NULL)
                             = (IF pc[q] \in {"r_post_mutex", "r_post_full"} THEN buf[q] ELSE NULL)
    BY <1>0, <1>2 DEF ReadCall, ReadWaitEmpty, ReadWaitMutex, ReadCopy, ReadPostMutex, Goto, TypeOK
  <2> QED
    BY <2>1, <2>2, <2>3 DEF Offered, Got
<1>3. ASSUME NEW w \in Writers,
             WriteWaitFull(w) \/ WriteWaitMutex(w) \/ WriteClear(w) \/ WriteCopy(w)
               \/ WritePostMutex(w) \/ WritePostEmpty(w)
      PROVE  items' = items /\ Offered' = Offered /\ Got' = Got
  <2>1. items' = items
    BY <1>3 DEF WriteWaitFull, WriteWaitMutex, WriteClear, WriteCopy, WritePostMutex, WritePostEmpty
  <2>2. \A r \in Readers : pc'[r] = pc[r] /\ buf'[r] = buf[r]
    BY <1>0, <1>3 DEF WriteWaitFull, WriteWaitMutex, WriteClear, WriteCopy, WritePostMutex,
                      WritePostEmpty, Goto, TypeOK
  <2>3. ASSUME NEW q \in Writers
        PROVE  (IF pc'[q] \in {"w_full", "w_mutex", "w_clear", "w_copy", "w_index"}
                THEN buf'[q] ELSE NULL)
                 = (IF pc[q] \in {"w_full", "w_mutex", "w_clear", "w_copy", "w_index"}
                    THEN buf[q] ELSE NULL)
    BY <1>0, <1>3 DEF WriteWaitFull, WriteWaitMutex, WriteClear, WriteCopy, WritePostMutex,
                      WritePostEmpty, Goto, TypeOK
  <2> QED
    BY <2>1, <2>2, <2>3 DEF Offered, Got
<1>4. ASSUME NEW r \in Readers, ReadIndex(r) PROVE Fifo!Get(r)
  <2>1. items # <<>> /\ buf[r] = Head(items) /\ pc[r] = "r_index"
    BY <1>0, <1>4 DEF ReadIndex, Goto, Taking, BufInv
  <2>2. Got[r] = NULL
    BY <2>1 DEF Got
  <2>3. Got' = [Got EXCEPT ![r] = Head(items)]
    BY <1>0, <1>4, <2>1 DEF ReadIndex, Goto, TypeOK, Got
  <2>4. Offered' = Offered
    BY <1>0, <1>4 DEF ReadIndex, Goto, TypeOK, Offered
  <2> QED
    BY <1>4, <2>1, <2>2, <2>3, <2>4 DEF Fifo!Get, ReadIndex
<1>5. ASSUME NEW r \in Readers, ReadPostFull(r) PROVE Fifo!Use(r)
  <2>1. buf[r] \in Data /\ pc[r] = "r_post_full"
    BY <1>0, <1>5 DEF ReadPostFull, Goto, BufInv
  <2>2. Got[r] # NULL
    BY <1>0, <2>1 DEF Got
  <2>3. Got' = [Got EXCEPT ![r] = NULL]
    BY <1>0, <1>5 DEF ReadPostFull, Goto, TypeOK, Got
  <2>4. Offered' = Offered
    BY <1>0, <1>5 DEF ReadPostFull, Goto, TypeOK, Offered
  <2> QED
    BY <1>5, <2>2, <2>3, <2>4 DEF Fifo!Use, ReadPostFull
<1>6. ASSUME NEW w \in Writers, WriteCall(w) PROVE \E d \in Data : Fifo!Offer(w, d)
  <2>1. PICK d \in Data : buf' = [buf EXCEPT ![w] = d]
    BY <1>6 DEF WriteCall
  <2>2. Offered[w] = NULL
    BY <1>6 DEF WriteCall, Goto, Offered
  <2>3. Offered' = [Offered EXCEPT ![w] = d]
    BY <1>0, <1>6, <2>1 DEF WriteCall, Goto, TypeOK, Offered
  <2>4. Got' = Got
    BY <1>0, <1>6, <2>1 DEF WriteCall, Goto, TypeOK, Got
  <2> QED
    BY <1>6, <2>2, <2>3, <2>4 DEF Fifo!Offer, WriteCall
<1>7. ASSUME NEW w \in Writers, WriteIndex(w) PROVE Fifo!Put(w)
  <2>1. Len(items) < blockNum /\ buf[w] \in Data /\ pc[w] = "w_index"
    BY <1>0, <1>7 DEF WriteIndex, Goto, Claiming, BufInv
  <2>2. Offered[w] = buf[w] /\ Offered[w] # NULL
    BY <1>0, <2>1 DEF Offered
  <2>3. Offered' = [Offered EXCEPT ![w] = NULL]
    BY <1>0, <1>7 DEF WriteIndex, Goto, TypeOK, Offered
  <2>4. Got' = Got
    BY <1>0, <1>7 DEF WriteIndex, Goto, TypeOK, Got
  <2> QED
    BY <1>7, <2>1, <2>2, <2>3, <2>4 DEF Fifo!Put, WriteIndex
<1>8. CASE UNCHANGED <<init, sems, ring, pc, buf>>
  BY <1>8 DEF Offered, Got
<1> QED
  BY <1>1, <1>2, <1>3, <1>4, <1>5, <1>6, <1>7, <1>8, StepKinds DEF Read, Write

\* The ring and its semaphores implement the queue of module BoundedFifo,
\* for any number of readers, writers and blocks, whoever is killed.
THEOREM ShmFifoImplementsFifo == Spec => ImplementsFifo
<1>1. Init => Fifo!Init
  BY ShmFifoAssumption, ProcKinds DEF Init, Fifo!Init, Offered, Got
<1> QED
  BY <1>1, ShmFifoInvariant, StepRefinesFifo, PTL DEF Spec, ImplementsFifo, Fifo!Spec

=============================================================================
