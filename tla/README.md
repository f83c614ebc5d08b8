# Verification of CPPWheel

CPPWheel is a collection of small C and C++ building blocks ("wheels") for
concurrent programs: a spin lock, two thread pools, a shared-memory FIFO, a
leak-tracking allocator, two epoll echo servers, a UDP multicast helper and an
HTTP service, with the third-party libraries that they use or come with
(mongoose, yyjson, jsonxx).  This directory holds TLA+ models of the parts that
keep state or compute something worth checking, the TLC configurations that
check them on small instances, and proofs checked by the TLA+ proof system
(TLAPS).  Paths below are relative to `src/`.

Contents: 1 inventory, 2 modules, 3 runs, 4 proofs, 5 what the checks say about
the code, 6 what is assumed, 7 what is not modelled, 8 plan.

To repeat the checks: `tlc -config MCSpinlock.cfg Spinlock` and so on for the
runs of section 3, `tlapm Spinlock.tla` and so on for the proofs of section 4.

## 1. Inventory

| Component | Source | State | Operations | What must hold |
|---|---|---|---|---|
| spin lock | `lock/spinlock.h` | the lock word | lock, trylock, unlock | at most one holder; the word says whether there is one; trylock fails only on a held lock; a free lock is taken by a waiter |
| atomics | `lock/atomic.h` | none of its own | names for `<stdatomic.h>` | - |
| task queue | `ThreadPool2.0/task_queue.c` | a list linked through the tasks (`head`, `tail`), `block`, spin lock, mutex, condition variable | create, add_task, pop_task, get_task, nonblock, destroy | the list is the FIFO queue it looks like, at every step of every thread; a task leaves it once; a sleeping consumer is woken |
| thread pool 2.0 | `ThreadPool2.0/ThreadPool.c` | `quit`, `threads[]`, `thread_count` | create, post, worker, terminate, waitdone | a posted task runs at most once and is not lost; nothing runs after terminate; terminate and a failing create return and leave nothing behind |
| thread pool 1 | `ThreadPool/ThreadPool.cpp` | counters, circular queue, `threads[]`, `shutdown`, two mutexes, two condition variables | creat, add_task, worker, admin, destory, free | an added task is queued; the lock excludes; destory wakes everybody, waits for them and frees |
| shared-memory FIFO | `shmfifo/shmfifo.cpp` | in the segment: head, blocks, three semaphores; per process: two pointers | Init, Connect, Write, Read, Separate, Distory | a bounded FIFO for readers and writers in several processes, some of which die; the pointers name one live segment |
| memory tracker | `mem/mem.h` | map of blocks, sums, an unnamed semaphore, mode, one file per block | init_gc, malloc_gc, free_gc, total_gc | the report, and the files, name the blocks not freed and their total |
| echo servers | `reactor/reactor.c`, `reactor/multi-io.c` | per descriptor: buffers, lengths, epoll interest | accept, recv and send callbacks, the loop | what comes back is what was sent, in order, to the client that sent it |
| UDP group | `UdpGroup/src/` | sockets, the last peer's address, time-outs | Init, Join, SetTimeOut, sendData, getData, Free | an answer goes to the client that asked, and answers its question |
| HTTP service | `httpTool/httpService.c`, on `mongoose-7.12` | a request counter; per connection: buffers, flags | one poll loop, one handler | each request is delivered once, whole and in order, and answered in that order |
| mongoose, network | `mongoose-7.12/mongoose.c` (`src/queue.c`, `src/net_builtin.c`, `src/dns.c`) | a ring without a lock; a TCP connection; a lease; look-ups | book and add, next and del; segments and timers; the DHCP states | messages arrive whole and in order; no gap or repetition in what is read; every look-up and connection ends |
| mongoose, devices | the same (`src/drivers/`, `src/device_flash.c`, `src/ota_flash.c`) | rings of descriptors shared with an engine; a log of objects in flash; two firmware banks | interrupt handler, tx and rx; save, load, compaction; begin, write, end, commit, boot | frames get through in order; a power failure costs no saved value and no bootable firmware |
| mongoose, above the connection | the same (`src/ws.c`, `src/mqtt.c`, `src/fs.c`, `src/http.c`, `src/fmt.c`, `src/json.c`, `src/str.c`, `src/url.c`, ...) | frames in pieces, packet identifiers, files | the readers and writers of texts, files and protocols | what is read is what was written; a message arrives once; a served or replaced file is one version |
| JSON libraries | `json/yyjson.*`, `json/jsonxx.*` | buffers that grow, a pool, circular lists, owned cells | read, write, mutate, allocate; parse, print, import | what is read follows the grammar, what is written is read as the same value, nothing is lost, overlapped or freed twice |
| INI reader | `ini/` (inih, with array accessors added) | section, previous name, first error | line loop, lookups | - |
| transcoding | `Transcoding/Transcoding.c` | none | conversions around iconv | - |
| array | `GenericProgramming/STL/Array/MyArray.hpp` | fixed storage | get, set, `[]` | - |
| ring buffer | `RingBuffer/` | none: a stub | - | - |
| load-test clients | `reactor/mul_port_client_epoll.c`, `reactor/clientTcp.c` | sockets | connect, send | - |
| protocol notes | `KCP/explain.md` | documentation only | - | - |

### How they interact

* `ThreadPool.c` (2.0) calls `task_queue.c`, which takes `lock/spinlock.h`
  around its list, and a pthread mutex with a condition variable around its
  sleep.  The two locks are independent: add_task holds neither when it
  signals, and get_task looks at the list before it takes the mutex.
* The first thread pool stands alone: workers, an admin thread and clients
  share one mutex; destory takes none.
* `shmfifo.cpp` shares a segment and three semaphores between processes, which
  find each other by a key and by nothing else: there is no handshake between
  Init and Connect.
* The tracker replaces malloc and free in the program that includes it; all its
  calls go through one semaphore.
* The echo servers are single-threaded; their partner is the kernel, which
  decides what is ready, how much a recv returns, and when a client is gone.
* The UDP service and its askers share a network that loses datagrams; a
  time-out on either side is all that notices.
* `httpService.c` is a handler called from mongoose's event loop; mongoose
  calls it with a request in the receive buffer and deletes it afterwards.
* Inside mongoose, an interrupt handler, an engine and the task share the
  descriptor rings; the handler hands frames to the task through the queue of
  `src/queue.c`; the TCP/IP stack takes them from there.  `src/ota_flash.c`
  keeps its records in the key store of `src/device_flash.c`.

### What is hard

* a signal or broadcast sent without the mutex, against a thread that has
  decided to sleep and does not sleep yet (both pools, with different results);
* a list whose tail pointer may point into a task that has just been removed;
* shutdown, partial creation and double join;
* processes that connect before the segment is set up, or die with a semaphore;
* a segment replaced under processes that are attached to it;
* a semaphore posted twice on an error path, after which nothing excludes;
* one item per descriptor, used again by the next connection, and interest that
  alternates between reading and writing;
* answers that come after their question has timed out;
* requests in pieces, several in one read, and one left unanswered;
* a queue and descriptor rings that two sides use at once without a lock;
* power that goes between any two writes;
* segments, leases and look-ups that are lost, repeated or overtaken;
* a file replaced while it is served;
* buffers that grow while there are pointers into them, and integers at the
  limits of their width;
* failing system calls whose result is used as if it were valid.

Each has a line in `PROJECT.json` under `hazards`, with the properties that
would notice.

## 2. Modules

| Module | Models | Uses |
|---|---|---|
| `Mutex` | what a lock promises; also the pthread build of the spin lock and every `pthread_mutex_t` | |
| `Spinlock` | `lock/spinlock.h`, C11 and `__sync` builds; its proofs | implements `Mutex` |
| `TaskFifo` | abstract: an atomic FIFO queue, as calls and returns | |
| `TaskList` | add_task and pop_task of `task_queue.c`, store by store | `Mutex`; implements `TaskFifo` |
| `CondVar` | a `pthread_cond_t` (external) | |
| `ThreadPool2` | `ThreadPool2.0/ThreadPool.c` with get_task, nonblock and destroy; its proofs | `Mutex`, `CondVar`; add_task and pop_task atomic |
| `ThreadPool1` | `ThreadPool/ThreadPool.cpp`; its proofs | `CondVar` |
| `BoundedFifo` | abstract: a bounded FIFO with blocking Put and Get | |
| `ShmFifo` | Init's set-up, Read and Write of `shmfifo.cpp`; its proofs | implements `BoundedFifo` |
| `ShmSegment` | Init, Connect, Separate and Distory of `shmfifo.cpp` | |
| `MemGc` | `mem/mem.h` | |
| `EchoNet` | the kernel's sockets and the clients (external) | |
| `MultiIo`, `Reactor` | `reactor/multi-io.c`, `reactor/reactor.c` | `EchoNet` |
| `UdpGroup` | `UdpGroup/src/UdpGroup.cpp` with the service and the askers of `test.cpp` | |
| `HttpServer` | `httpService.c` (or mg_hello) on mongoose's event loop and HTTP parser | |
| `MgQueue` | `src/queue.c` | |
| `MgTcpip`, `MgDhcp`, `MgDns` | a TCP connection and the DHCP client of `src/net_builtin.c`; `src/dns.c` | |
| `MgDriver` | the rings of the drivers rt1020, same54, stm32, stm32h and tm4c | |
| `KeyStore` | abstract: the newest value of each key, with failures | |
| `MgFlash` | `src/device_flash.c` | implements `KeyStore` |
| `MgOta` | `src/ota_flash.c` with a boot loader | `KeyStore` |
| `MgWs`, `MgMqtt` | `src/ws.c`; `src/mqtt.c` with a broker | |
| `MgFiles` | mg_file_write and mg_file_read, static serving, upload | |
| `MgText`, `MgPrint`, `MgJson` | base64, hex, numbers, addresses, forms, headers, multipart, URLs, paths, patterns, digests; `mg_vxprintf` with `mg_lld`, `mg_dtoa` and `addexp`; `src/json.c` | |
| `YyJson`, `YyScalar`, `YyPool` | yyjson's reader and writers; its numbers and strings; its pool allocator | |
| `JsonList` | abstract: a list with an iterator | |
| `YyMut` | yyjson's mutable arrays and objects | implements `JsonList` |
| `JxxText`, `JxxValues` | jsonxx's parser and writers; the ownership of its values | |
| `MCServers`, `MCLibraries`, `MCMongoose`, `MCMgNet` | small instances of components that do not know of each other | |
| `MCHttpServer` | the scripts of the clients | `HttpServer` |
| `QueueLemmas`, `ServersProofs`, `LibrariesProofs`, `MgNetProofs` | proofs: lemmas about sequences; those of `TaskList` and the servers; of the libraries' segment, tracker, firmware and drivers; of `MgQueue`, `MgTcpip`, `MgDhcp` and `MgDns` | |

In every module an action is one access to memory that other threads see, one
system call, or, in single-threaded code, one callback or one call.  `pc` is
where a thread is; its values name the next statement.  Operators called "faulty
form" are plausible bugs, kept beside the definition they distort; no
specification uses them, and each shows that some property can fail.

The four `MC` modules with several components are disjoint sums: a behaviour is
one of *one* component, chosen by `which` in its first state; the variables of
the others stay as they are.  This shares a run between components that do not
interact and says nothing of them together.  Their properties are conjunctions
of "if this component was chosen, then this holds of it".

**Spinlock.** `lock` is the word.  `Exchange` is the atomic exchange, `Spin` the
relaxed load of the inner loop (only the C11 build has it), `TryLoad` and
`TryExchange` are the two halves of trylock.  The word is a single atomic
object, so relaxed loads of it are interleaved like the others.

**TaskList.** The first word of a task is the link.  `tail` is the address of
the word that the next add_task will write: `HEAD` for the word `head`, or a
task.  `items` is a history variable: a task enters it when it is linked
(`AddLink`) and leaves it when `head` moves past it (`PopNext`).  The source
calls `__pop_task` and `__nonblock` where it defines `pop_task` and `nonblock`;
they are taken to be the same functions.

**ThreadPool2.** Owner, posters and workers.  A worker goes check - pop - (run,
or lock - test - wait - sleep - unlock - pop).  Allocation and pthread_create may
fail at any point.  `heap` holds what is allocated, `ran` counts runs, and
`missed` records that a signal found nobody asleep and a worker about to be.
The uninitialised variable of task_queue_destroy is any word (`Destroy`).
`JoinAgain` is the second join of waitdone after terminate: an ignored error or
a crash.

**ThreadPool1.** threadpool_add_task stores nothing, so `queue_size` stays 0 for
ever, and the code that takes a task, grows the pool or
lets a worker exit cannot be reached: it has no action.  Undefined behaviour
(freeing an uninitialised pointer, joining a thread that was never created,
touching a freed pool) either sets `crashed` or goes unnoticed.  Unlocking a
mutex that another thread holds frees it.

**ShmFifo.** One segment, from the moment it exists: it reads as zeros, and
processes may be attached already.  The initialiser writes the head, then the
three semaphores in the source's order.  `EarlySleep` is a process asleep on a
semaphore that is then initialised.  `Kill` stops a process anywhere.  `items`
is a history variable: a block enters when `writeIndex` moves, and leaves when
`readIndex` does.

**ShmSegment.** `key` is the segment that the key names; a removed segment lives
on while somebody is attached.  One process, the creator, calls Init and
Distory, as the test programs do.  Restart detaches a process and gives it a new
object.

**MemGc.** `sem_mutex` is the semaphore's count, `total` the map, `heap` what the
C library has given out, `logs` the per-block files.  A thread is *inside*
between its sem_wait and its last sem_post; two threads inside at once would use
a `std::map` concurrently, after which anything may happen: the model stops
there, and the properties say when it can get there.

**EchoNet, MultiIo, Reactor.** Byte `i` of client `c` is the value `<<c, i>>`.
`Received` is what one recv returns; a client may leave by closing or by a
reset; sending to a client that has closed provokes a reset, and the next send
kills the server (neither server ignores SIGPIPE).  `down` is a dead server.

**UdpGroup.** The service receives, remembers the peer in its one address, and
answers; clients ask and give up after a time-out, as the asker of `test.cpp`
does.  A datagram is the pair of the client and the round of its question.

**HttpServer.** One pass of mg_mgr_poll per connection, event by event:
accept, read, parse and deliver, handler, write, close.  The receive buffer is a
sequence of tokens, so that a read may end inside a header, a chunk's size or a
body.  The program is httpService.c or mg_hello; the clients' scripts hold what
`http_cb` tells apart: pipelined, chunked, unsized, oversized, malformed and
unanswered requests.

**MgQueue, MgDriver.** No lock in either: each read and write of a field that
the other side writes is an action of its own.  In `MgQueue` lengths are in
words and the bytes of a message are its number.  In `MgDriver` a frame is its
number; `rxdesc` and `txdesc` are the two rings with their owner bits, `engine`
is the chip, `irq` the interrupt handler, `task` the stack's thread, which the
handler may interrupt anywhere; `driver` is chosen at the start, and each step of
the handler and of the task does what that driver does there.

**MgTcpip, MgDhcp, MgDns.** The network loses, repeats and reorders (the bound
is `MaxFaults`, `MaxLosses`, `MaxDnsFaults`).  The TCP peer retransmits,
mongoose does not.  Time is a countdown.  `past` is the history of a TCP
connection: the first byte that it took, and whether data were sent under
numbers that a second FIN has set (`renumbered`, `astray`, see section 5).  The
list of look-ups is a set, whose order is that of the identifiers: a new one is
put at the head, with one more than the head's.

**MgFlash, MgOta.** Each write of a flash unit is a step, after any of which the
power may go; what was being written is then torn.  An object is told by its key
and its version, and its key determines its size (`Units`).  `KeyStore` does not
see what a call returns: `AnswersTruly` ties that to the abstract step, and
`RefusedWithReason` says when a call may fail.  `MgOta` uses the promise
(`KeyStore`) of what `MgFlash` implements.

**MgWs, MgMqtt, MgFiles, MgText, MgPrint, MgJson.** A protocol module sends a
stream through pieces of any length to the reader.  `MgFiles` has the calls of
the file system as steps of writer, reader and server.  The modules for texts
let a text grow by one chosen character per step, so that all short texts are
met, and compare the code's function with a definition of what it should return.
In `MgPrint` a real is a sign and a decimal number, m * 10^x; `RealsAreRounded`
reads the text back by itself and compares the two numbers, the number of digits
and the sign.

**YyJson, YyScalar, YyMut, YyPool.** The reader is the state machine of
read_root_minify over classes of tokens, one transition per action, with the
growing array of values; the writers put tokens into the buffer that the stack
of contexts shares.  `YyScalar` does the arithmetic of numbers in words scaled
down (`Max64`, `SigBits`) so that overflow and both slow paths happen in short
texts.  `YyMut` has `ptr`, `len` and the ring of `next`; `YyPool` the free list
with splitting and joining.

**JxxText, JxxValues.** jsonxx reads from a stream with one position and a
state; its backing up is modelled as such.  `JxxValues` has heap cells with an
owner, and destructors that run.

## 3. Runs

States are distinct states, times with two workers: a few seconds to three
minutes.  The fair specification (`FairSpec`, `FairServers`) is used where the
run has a liveness property: `spinlock`, the pools, `shm_fifo`, `servers`,
`http` and `mongoose_net`.

| Run | Instance | Shows |
|---|---|---|
| `spinlock` | 3 threads, C11 build (199) | exclusion, trylock fails only on a held lock, refinement of `Mutex`, some waiter gets in |
| `thread_pool_2` | 2 workers, 2 posters, 2 tasks (79 996) | each task once, none lost, memory outlives its users, a task is stranded only by a missed signal, nothing runs once terminate has returned; terminate and create return, and a queued task is taken |
| `thread_pool_1` | 2 workers, 2 clients (191 948) | the lock excludes until a client meets a pool that is shut down; destory returns unless a worker was on its way to sleep; the pool outlives its threads |
| `shm_fifo` | 2 readers, 2 writers, 2 blocks, 2 values, 1 killed (292 585) | the semaphores add up, the ring is the queue, nobody is inside before Init is through, refinement of `BoundedFifo`; readers and writers progress, and only a process killed inside keeps the mutex |
| `servers` | list: 3 threads, 3 tasks; echo servers: 2 clients, 2 descriptors or 1, buffers of 2, 3 bytes; UDP: 2 clients, one asks twice (213 347) | the words of the list spell the queue, no task is in two places, refinement of `TaskFifo`; replies are what was sent or asked, to whom it belongs; everything comes back, and descriptors too |
| `http` | 2 clients, one may leave; buffer limit 5, reads of 4 (178 423) | requests are delivered once, whole, in order; answered in that order; a connection is dropped only for a reason; every request comes to an end |
| `libraries` | segment: 3 processes, 2 segments; tracker: 2 threads, 2 blocks, 2 misuses; flash of 6 units, objects of 1, 2 and 3 units (`Keys`, `Units`), 4 saves; 3 updates of up to 3 chunks, 2 losses of power; 5 drivers, 2 descriptors, 3 frames in, 2 out (713 781) | attached processes share the current segment unless it was taken from under them; report and files are those of the heap for a program that frees what it holds; refinement of `KeyStore`, with true answers and refusals for a reason; a whole firmware boots; frames get through in order and none is forgotten |
| `mongoose` | see the bounds below (1 393 118) | WebSocket and MQTT messages arrive once and whole; a file read or served is one version of it; texts are taken apart and put together as they should; for jsonxx and yyjson, what is read and written is as the grammar and the values say; buffers hold; cells have one owner; refinement of `JsonList` |
| `mongoose_net` | queue of 8 words, 6 messages; TCP: 1 fault, 1 byte each way; DHCP: lease of 3, 3 losses; 2 connections, 3 look-ups, 1 fault (536 780) | messages arrive intact and no assertion fails; what either end of a TCP connection has read has no gap and no repetition; a lease and an answer belong to who has them; everything ends |
| `thread_pool_1_destory` | 1 worker and 1 client | counterexample, see section 5 |
| `yyjson_remove` | 4 elements, 2 removals | counterexample, see section 5 |
| `yyjson_real` | the reals of `YyScalar` | counterexample, see section 5 |

The `__sync` build of the spin lock has no run of its own: the proofs of section
4 cover its safety, for any number of threads.  Its liveness is unchecked.

Why the bounds are enough: the interesting cases need a second thread of each
kind and, for order, a second item behind the first.  Three threads give the
list a producer between the two stores of another and a consumer at the same
time; two workers give a signal a wrong addressee; two tasks let one be posted
while the other is queued, taken or running.  Two blocks make the ring wrap with
one block in it and be full and empty at equal indices, and two processes of each
kind make every operation wait at both limits; one death leaves each of the others
to notice it.  Buffers of two bytes with three bytes per client
make a recv that does not fetch everything and a buffer that fills up; one
descriptor for two clients forces its reuse.  Two misuses are the two extra
frees of one block, or a double free by each thread.  A queue of 8 words wraps
with and without room for its marker, and six messages go round it more than
once.  Two descriptors with a batch of three let the engine overtake a handler
that is in its loop.  A sector of 6 units with objects of 1 to 3 units is
compacted, and runs full after it.  Three updates put one in each bank and one
over a bank that is in use.  Texts of four tokens (yyjson) or up to six
characters (mongoose) hold each pair of neighbours in each context; the longer
documents are there to make buffers grow.

Bounds on behaviour, all named constants: `MaxSegs` (segments made), `MaxTotal`
(bytes asked for), `MaxMisuses` (frees of what is not held), `MaxSent` (bytes a
client sends), `MaxKilled` (processes killed), `MaxSaves`, `MaxUpdates`,
`MaxLosses`, `MaxIn`, `MaxOut` (frames), `MaxMsgs`, `MaxFaults`, `MaxConns`,
`MaxLease`, `MaxConnects`, `MaxFrames` (WebSocket), `MaxId` and `MaxOps` (MQTT),
`MaxCuts` (pieces), `MaxWrites`, `MaxInodes`, `MaxRequests`, `MaxUpload`,
`MaxPieces`, `MaxText`, `MaxDepth`, `MaxTokens`, `MaxDocument`, `MaxDigits`,
`MaxRemovals`, `MaxItems`, `MaxCalls`, `MaxCells`, `MaxMembers`, `MaxMore`.  Widths are scaled
down: 64-bit integers to `Max64` = 103, the significand of a double to
`SigBits` = 5 bits, `size_t` to `SizeMax` = 255, `int` and `long` in printf to
16 and 64, and the buffer of `mg_dtoa` from 40 to `DtoaBuf` = 13 characters, which
leaves room for a precision of 6, its default, and none for 7.  The tasks of
pool 2 run once each, since the source never frees a task that was run and its
address does not come back.

Some properties excuse, by their own conditions, what the code does get wrong
and section 5 describes: `LockExcludes` ends where a call unlocks a lock that it
does not hold, `LeaksAreNamed` at the first free of what is not held,
`SegmentsAreCurrent` at a removal under attached processes, `RepliesAreTrue` at a
UDP client that has timed out, `NetworkIsTrue` and `EverythingEnds` at a look-up
whose number was used again and at a message that never finds room.  They show
that nothing goes wrong before.

`CHECK_DEADLOCK FALSE` stands where the system may really stop: a pool that was
ended, or in which everybody sleeps; a FIFO whose mutex died with its holder; a
tracker that has reported; a server that is down, or whose clients are done; a
text that was read.  It stands in every run but that of the spin lock.

## 4. Proofs

Checked by TLAPS for every value of the constants that the named assumptions
(`SpinlockAssumption`, `TaskListAssumption` and so on, in the module that
declares the constants) allow.  These say that special values are different from
the others, that kinds of threads are disjoint, that sizes are positive and sets
that are counted or summed over finite; for the driver rings, that there is at least one
descriptor and that the handler's loop is no shorter than the ring, as all five
drivers have it (10 turns, or as many as there are descriptors, for 4 of them).  The bounds on behaviour are arbitrary, so that a theorem holds
however long a behaviour is.

| Module | Theorems (and the property of a run that they state) |
|---|---|
| `Spinlock` | `SpinlockInvariant`, `SpinlockExcludes` (MutualExclusion), `TrylockFailsOnlyOnHeldLock` (TryFailsOnlyOnHeldLock), `SpinlockImplementsMutex` (ImplementsMutex) |
| `ServersProofs` | `TaskListInvariant`, `TaskListSpellsQueue` (ListSpellsQueue), `TaskListHoldsEachTaskOnce` (EachTaskOnce), `TaskListImplementsFifo` (ImplementsFifo), `ServersInvariant`, `ServersTellTheTruth` (RepliesAreTrue) |
| `ThreadPool2` | `ThreadPool2Invariant`, `OnlyAMissedSignalStrands` (StrandedOnlyIfMissed), `ThreadPool2Ends`, `NothingRunsAfterTerminate` (NoRunAfterTerminate), `MemoryIsFreedLast` (MemoryOutlivesUsers), `TasksRunOnce` (TasksAreKept) |
| `ThreadPool1` | `ThreadPool1Invariant`, `LockExcludesUntilShutdown` (LockExcludes), `FreedBehindThreads` (FreedAfterThreads) |
| `ShmFifo` | `ShmFifoInvariant`, `WaitersWaitForInit` (NobodyBeforeInit), `RingHoldsWhatSemaphoresCount` (RingAndSemaphoresAgree), `ShmFifoImplementsFifo` (ImplementsFifo) |
| `MgNetProofs` | `MgQueueInvariant`, `MessagesArriveIntact`, `QueueAssertsHold`, `NetworkIsAlwaysTrue` (NetworkIsTrue) |
| `LibrariesProofs` | `LibrariesInvariant`, `SegmentsStayCurrent` (SegmentsAreCurrent), `FirmwareAlwaysBoots` (FirmwareBoots), `LeaksAreAlwaysNamed` (LeaksAreNamed), `FramesAlwaysGetThrough` (FramesGetThrough), `FlashAlwaysSurvives` (FlashSurvivesPowerFailures) |

`QueueLemmas` has the facts about sequences and finite sets that several of them
cite.  The argument of each, and why its inductive invariant says more than the
property:

* **Spin lock.**  `IInv` is the type invariant, exclusion and
  `LockWordAgrees`: the word is needed because a thread is let in by the word and
  not by looking at the others.  From it: exclusion, the action property of
  trylock (whoever fails has seen the word at 1 in that very step, so somebody
  else is a holder then), and the refinement of `Mutex`.
* **Task list.**  The invariant says what `head`, the links, `tail` and each
  thread's local variable are at every point of the two programs.  It is needed
  because `ListSpellsQueue` speaks only of moments when nobody holds the lock; in
  between, `tail` is one task behind (after `AddLink`) or names the task just
  removed (after `PopNext`).  The lock makes at most one of these true at a time.
  From it: the list spells the queue, each task is in one place, and the
  refinement of `TaskFifo`: `AddLink` and `PopNext` take effect, and a `PopTest`
  that finds `head = NULL` finds the queue empty; all other steps stutter.
* **Servers.**  Multi-io: the descriptor of a client is its own, its buffer is
  empty while it reads, and what was echoed, what is in the buffer and what is
  unread make up what was sent.  Reactor: per client, the buffer is everything
  received so far and a reply all of it.  UDP: what is on its way was asked, an
  answer is to its asker, and a client that never gave up too early has at most
  one question under way, whose answer is the one it waits for.
* **Thread pool 2.0.**  `OnlyAMissedSignalStrands`: the argument follows the
  signal.  It wakes a sleeper, or there is none; then a worker is about to sleep,
  which is the missed signal, or all workers are up.  `IInv` adds who can be
  asleep, that workers leave only after `quit`, and that nothing is queued before
  every worker was started.  `KInv` adds how far the owner has come: whom it has
  joined (`JoinInv`), what is still allocated (`HeapInv`) and where each task is
  (`TaskInv`).  From it: nothing runs after terminate, memory is freed last, and
  each task is in one place and runs at most once.
* **Thread pool 1.**  `LockInv` ties the mutex to where each thread is, and
  allows for a client that goes on without the lock once the pool is shutting
  down; `JoinInv` ties what was joined to who has ended.
* **Shared-memory FIFO.**  The counting argument: each semaphore's count plus
  those who have taken it and not yet passed it on is the number of blocks; a
  process is added to or taken from one of these sets in a step.  `BufInv` says
  what the buffer holds between a copy and the move of its index.  The refinement
  of `BoundedFifo` follows from it: the moves of the two indices are Put and Get.
* **Message queue.**  `LayoutInv` says where the unread messages lie, wrapped or
  not, with the marker behind the last one before the wrap; `ProducerInv` and
  `ConsumerInv` say in what sense the index that either side has read a while ago
  is still good: there may be more room, and more messages, than it says.
* **TCP.**  Of a segment's data only the numbers matter (`Streams`): the peer's
  segments carry the bytes that their numbers say, at most those that it had to
  send, and so do mongoose's, until a connection is `astray`.  `Reads` says that a
  connection has read the bytes between the first one it took and the number
  that it acknowledges, or is past the peer's FIN, behind which there is no data;
  `Writes` that what waits in its send buffer are the next bytes of the
  application, numbered from `seq`, unless `seq` was set by a second FIN.
  `PeerInv` says the same of the peer, with what it has not been acknowledged.
  `Beginning` adds what is under way before the first connection when nothing
  went wrong: one segment at a time, until the one that opens it and that has no
  data, so that the first byte is not missed.  Nothing else is assumed of the order,
  the number or the loss of segments.
* **DHCP.**  `Answered` says what is in an answer: an ordinary server's names a
  router, so that a client that has asked for its address takes it and is ready;
  that of mongoose's server names none, and its client never gets beyond asking.
  That the address is there exactly in the ready state is then inductive.
* **DNS.**  `HaveHeads` says that the list, and each part of it, has a largest
  identifier, so that a new one is larger than all, and `MessagesHaveRequests`
  that each message on its way belongs to a request with its identifier and of a
  connection that asked for its host, as long as no answer is late.  An answer
  then goes to whoever asked.

The four parts of `MCMgNet` do not know of each other: a step of one is none of
the others (`OneAtATime`), so that the invariant of the whole, `NetInv`, is the
conjunction of theirs.

The arguments about the libraries:

* **Segment.**  A process about to attach has found the current segment unless
  it was taken away since, and whoever looks for one has none.
* **Firmware update.**  `OtaSaves` says which record is being written at each
  point of a call, and that the image in the other bank is whole before it is put
  on trial; `OtaTrial` says that no update begins while a firmware is on trial,
  since the other bank may have to boot again.
* **Memory tracker.**  That two threads do not free the
  same block needs `GcClaims`, that among the calls under way, the blocks that
  the program holds and the stale entries of the map no two are about the same
  block, with one exception once the program has freed something that it does not
  hold.  Exclusion and the files hold as long as there was no misuse
  (`GcExclusive`, `GcFiles`); that a second free is caught holds after one.
  `GcAccounts` ties the sums to the map; that adding a block to the map adds its
  size to the sum is shown by taking a smallest set for which it fails.
* **Driver rings.**  `RxInv`: the descriptors that belong to the driver are the
  ones from `rxno` on, without a gap and in the order of their frames, and the
  handler's loop still has turns for all of them unless a new interrupt is
  pending, for which the batch must not be smaller than the ring.  `TxInv`: the
  engine's descriptors are the ones from `engine.tx` on, as many as were sent and
  have not gone, and the driver's next one is right behind them.
* **Flash.**  The offsets at which the loops over mg_flash_next stop (`Walk`) are
  a recursive function of the flash; that there is one such function is shown by
  going from the end of the sector towards its start, with a smallest
  counterexample in place of an induction, and from then on `Walk` is known as a
  chain: from 0, each offset to the next, up to the only one where it ends.  A
  unit that is programmed behind the end leaves the chain as it is
  (`NothingBehind`) or makes it longer by one (`BegunThere`).  `LogInv`: nothing is
  behind the end but a unit that nobody sees.  `WriteInv` and `RestoreInv` say
  what of the object being written is already there (`Begun`), so that what a
  power failure leaves is known at each unit.  `BaseInv`: what has been written
  back takes no more room than the newest copies it is of, and ends before the
  place of the next one, so that every entry fits; this bound becomes `RefitInv`,
  from which follows that whoever is refused after the cleanup has no room beside
  the newest copies.

Only model-checked, and why:

* everything about liveness (`WaitersAreServed`, `EverybodyGetsOn`,
  `DestoryReturnsUnlessMissed`, `BlocksPass`, `EverythingComesBack`,
  `RequestsEnd`, `EverythingEnds`): outside what this prover handles, like
  ENABLED;
* `DeliveredInOrder`, `AnsweredInOrder`, `DroppedForCause` of `HttpServer`: what
  mg_http_parse and the scan of chunks return is a recursive function of the
  buffer, about which one would have to do induction over sequences, and the
  list of connections is filtered with `SelectSeq`, which the provers cannot
  expand.  The library's induction theorems take an operator as a parameter,
  which the installed provers cannot instantiate (the sum of `GcAccounts` was
  within reach because a smallest counterexample of a set needs no such theorem);
* `ImplementsList`: the abstract list is a filter too;
* `MessagesAndCommandsArrive`, `FilesAreTrue`, `TextsAreTrue`, `TextsAreValues`,
  `BuffersHold`, `WrittenIsRead`, `ValuesAreOwned`: their modules, or those they
  share a run with, have RECURSIVE operators, with which the prover loses its SMT
  backend.

## 5. What the checks say about the code

What the runs and the proofs confirm: the spin lock, the list of pool 2.0, the
shared-memory ring and mongoose's message queue are right in all interleavings,
the last three with the odd state in the middle of an operation; pool 2.0 shuts
down without missing anybody; the order of the three sem_init calls, with
sem_full last, is what keeps early writers out, and early readers wait for a
writer; four of the five drivers lose no frame between engine and stack but for
want of room; an update that loses its power at any write still boots.

What they contradict, each with a run that produces the counterexample:

| Run | The source says | The code does |
|---|---|---|
| `thread_pool_1_destory` | `ThreadPool.cpp:90` "唤醒所有被阻塞的线程" (wake every blocked thread) | flag and broadcast without the lock (82, 91): a worker between 225 and 228 misses both, and destory waits for it for ever at 97 |
| `yyjson_remove` | `yyjson.h:1878` "Removes all key-value pairs for the given key." | `yyjson_mut_obj_iter_remove` (3485) leaves the iterator where the next step passes over a pair: of b, a, a the second a stays |
| `yyjson_real` | `yyjson.c:5822` "Write a JSON number" | write_f64_raw (5746) writes `1.e30`, which is not one, and which yyjson does not read |

Some more disagreements were met in translating the source.  They can be seen in
a line or two, so they are modelled as they are and have no run:

| The source says | The code does | Modelled in |
|---|---|---|
| `ThreadPool.h:137` "向任务队列中添加事件" (add an event to the queue) | `ThreadPool.cpp` 310-314 store nothing and leave `queue_size` at 0 | `ThreadPool1`, where nothing raises `queue_size` |
| `ThreadPool.h:71` "失败返回 NULL" (NULL on failure) | after the break at `ThreadPool.cpp:33`, threadpool_free reads the unassigned `task_queue` (115) and frees it | `Creat` |
| `shmfifo.h:47` "连接到共享内存" (connects) | a failed shmat leaves `(void *)-1`; the next Connect returns true | `ConnectFind`; `ConnectTrueMeansAttached` excuses it |
| `mem.h:127` "未释放总大小" (total not freed) | line 175 counts allocations that failed | `MallocAlloc`; `ReportNamesLeaks` excuses them |
| `mem.h:228` "二次释放" (double free) is reported | the report inserts an entry (233), so the third free reaches `free(p)` (244) | `FreeUnknown`; `SecondFreeIsCaught` is about the second |
| `reactor.c:74` "回写数据" (write the data back) | `rLen -= 0` (76): every reply repeats all earlier data | `recv_cb`, `send_cb`; `ReplyIsWhole` states it |

Two weaknesses that no document denies are kept visible in properties that hold:
the signal of add_task without the mutex can leave a task waiting for the next
post (`StrandedOnlyIfMissed` and `EverybodyGetsOn` excuse `missed`), and an
add_task on a pool 1 that is shutting down unlocks a lock it no longer holds
(`LockExcludes`).

The models of third-party code do what that code does; where that may surprise,
it is listed here, and the properties are stated so as to allow it.

* **Drivers.**  The same54's handler writes RSR back at its end and wipes out
  what arrived meanwhile; its TX branch takes back a descriptor that the engine may
  still have to send, so that a frame may be lost or overwritten.  Speed and duplex are set only
  when a poll, once a second, has seen the link down.
* **Flash and update.**  A one-unit object in the last unit is never seen again
  (a strict `>` in mg_flash_next), and the next one-unit save then fails for ever.
  When a sector is full, a read goes past its end.  mg_ota_write does not compare
  with the announced size; the application must commit before the next update.
* **TCP.**  Nothing is sent twice.  The payload of a segment with FIN, and what
  is missing before a FIN, is acknowledged and lost; a connection accepted from a
  later segment has lost the bytes before it; data that are waiting when the
  peer's FIN comes are sent behind mongoose's own FIN.  If the peer's FIN comes
  again while they wait, read_conn (4966) takes it for the answer to a closure of
  its own and sets `seq` to the number that it acknowledges, so that what follows
  is sent under the numbers of other bytes and the peer's stream is no longer the
  application's: with two bytes to send and two faults, TLC finds it in the
  definition without the exception, `past.astray`, that `StreamsAreTrue` makes.  A reset while connecting
  is answered by a reset, and only the time-out ends the attempt.
* **DHCP and DNS.**  A request that is lost is not repeated; a NAK for a running
  lease is ignored; the client does not get along with mongoose's own server; the
  lease in milliseconds wraps at 32 bits.  The number of a look-up is used again,
  so a late answer may be taken for another host's.
* **Queue.**  When the tail is near the beginning of the buffer and the message
  does not fit behind the head, mg_queue_book does not wrap: some lengths may be
  refused for ever.
* **HTTP and files.**  Closing delivers a request without a length; a request
  that the handler leaves unanswered keeps every later one of its connection
  from being delivered.  A page404 is sent with status 200; a directory that has
  only an index.html.gz is 404 for a client without gzip; the ETag is seconds and
  size; a file that is replaced between the open and the stat is sent with
  the other's length; HEAD of a missing file has a body; the range `-5` gives the
  whole file as 206; requests pipelined behind a served file wait for more data to
  come.  mg_file_write may put a truncated file in place when the disk is full,
  and there is no file between its remove and rename; mg_file_read may return the
  beginning of a longer replacement.  An upload at offset 0 removes the old file
  even if it is then refused.
* **WebSocket and MQTT.**  Frames behind an upgrade request are read with the
  next data.  An MQTT 5 PUBLISH without properties and of at most one byte keeps
  the byte of their length; the login sets the flags of a will without one.
* **Texts.**  A one-character value at the end of a header is missed, and a name
  is matched at the end of a longer one; `*` in a pattern may be led over a slash,
  a `#` before a `*` is not tried again; `]` in a path resets the port of a URL;
  the last part of an unterminated multipart body is cut; mg_aton6 takes two `::`;
  mg_path_is_sane does not look at the first two characters.  `%-05d` pads with
  zeros on the left, `%#d` has a prefix, `%10.5s` of a shorter string is padded by
  the precision, `%X` prints small letters.
* **Reals in printf.**  A negative number that needs an exponent loses its sign
  and its exponent: `%g` of -1e20 is `1` (mongoose.c:975-978 put the mantissa over
  the sign, and the exponent behind the mantissa's NUL).  An exponent of 100 to
  109, 200 to 209 or 300 to 308 lacks its 0: 1e105 is `1e+15` (927-929).  The
  precision of `%f` is the number of all digits, as that of `%g`: `%.2f` of 123.4
  is `1.2e+02`; with a precision of 0 or 1 half of a digit before the dot is
  added and all digits are printed, so that `%.0f` of 123.4 is `623`.  With a
  precision of 34 or more an exponent may be written behind the end of `buf[40]`,
  or lose its last digit (`Overruns`); up to 33, `DtoaBuf` - 7, it may not.  A
  precision of 0 or 1 cuts what is longer than `buf`, and `%g` then takes zeros
  from its whole part.
* **JSON paths.**  mg_json_get may look into the element behind an empty array
  (`$[0][0]` of `[[],[3]]` is 3).
* **jsonxx.**  Bytes from 0x80 on are written as `\uffffffxx`; json() drops an
  empty key; `nul` at the end is null; `{"a":}` and commas at the end are taken;
  behind an array that could not be read an object is looked for, and what follows
  the value is ignored.  A Value that was reset still names its old payload; a
  copy by assignment is shallow; import of a value from the member that it
  replaces uses it after its deletion.
* **yyjson.**  The range check of remove_range adds its arguments without a look
  at their overflow.

## 6. What is assumed

**Memory.**  mongoose's buffers grow when they have to, and so does the one of
`mg_vmprintf`.  In particular the compaction of a flash sector finds
memory for the sector's objects: `mg_flash_sector_cleanup` does not look at what
`mg_iobuf_add` returns (mongoose.c:255) and would erase the sector with an object
that it could not keep, which `Buffered` leaves out.

**Clients.**  Pool 2.0: posts go to a pool that exists, terminate is called at
most once, waitdone when no post is under way; handlers return.  Pool 1: destory
once, no add_task starts after it returned, though one may overlap it.
FIFO: one creator; attached processes only.  Tracker: total_gc when the other
calls are over; frees of what is not held are allowed, and counted.  Echo
clients read what they are sent.  The application of an update commits a
firmware that it has booted before it starts the next update.  The peers of
mongoose's protocols are ordinary ones and keep to them.

**External parts** are modelled from how the code uses them: condition
variables, the kernel's sockets, epoll, the engines of the network chips, the
flash (a unit is written whole or torn), the file system (rename is atomic), the
boot loader, DHCP and DNS servers, an MQTT broker's application.

**Fairness.**  Weak fairness for each thread's next step, which is what a
preemptive scheduler gives; none for a client's decision to call.  Condition
variables wake spuriously only finitely often, and in the run of pool 1 clients
add finitely many tasks: a pthread mutex does not promise a waiter the lock
against a client that keeps asking.  The spin lock is not fair to each waiter
either, and `WaitersAreServed` says only that *some* waiter gets in.  In `ShmFifo`
no fairness is needed for processes that die: a dead process has no step, and
the progress properties excuse deaths and early sleepers.  For the servers epoll
reports what is ready in turn, so no ready connection waits for ever; for
`HttpServer` this is weak fairness of the loop, stated as
`[]<><<Loop>>_vars \/ []<>(Idle \/ conns = <<>>)`: it runs again and again, or
again and again has nothing to do.  The UDP network is strongly fair: of a
question, or an answer, that is sent again and again one gets through.  The
losses on mongoose's own network are bounded in number.

**Undefined behaviour** is a choice between what the build can do: a crash, or a
step that goes unnoticed.  Memory is sequentially consistent; the plain flags
that the source reads without a lock (`shutdown`, the indices of the message
queue) are read in one step.

## 7. What is not modelled

* `lock/atomic.h`, whose operations are single steps wherever they are used; the
  ring buffer, which is a stub; the load-test clients, which only open
  connections; `httpTool/curl.c`, one call of libcurl.
* The INI reader (inih, one sequential pass over a file), the transcoding
  (stateless calls of iconv) and the array (get and set in a fixed range): little
  state, nothing concurrent, and plain to test.
* The per-thread trace of `mem.h`; block sizes and partial copies in the
  shared-memory FIFO; the destruction of its semaphores under a process that waits
  on them, which POSIX leaves undefined.
* Of mongoose: version 7.6, an older copy of the library of which 7.12 is
  modelled; TLS; the W5500 driver, which has no
  rings in memory; SNTP, the clock of the timers, and the logging.
* Of mongoose's printf: the rounding of doubles.  `MgPrint` calculates with
  decimal numbers; where the code multiplies and divides a double by 10 over and
  over, a last digit, or for large exponents the decade, may be another one.  A
  precision below 0, given by `*`, is left out too.
* Of yyjson: JSON pointers, merge patches, and the variant of the writer that
  calls sprintf; of jsonxx: fractions and exponents of numbers.

## 8. Plan

All modules planned are written, and each has its run.  Done, in this order: the
spin lock, the task list and the two pools; the shared-memory FIFO, its segment
and the tracker; the echo servers and the UDP group; the HTTP service and
mongoose's event loop; mongoose's queue, network, devices and texts; the JSON
libraries.  Proved in the same order; the last ones were the tracker, the
firmware update, the segment, the driver rings, of mongoose's network TCP, DHCP
and DNS, and the flash store.

What would be worth doing next:

1. `HttpServer` with the list of connections as a function from descriptors, so
   that a removal is no filter, and with what the parser returns as assumptions on
   a constant operator that TLC checks: then `AnsweredInOrder` and
   `DroppedForCause` would be within the provers' reach.
2. mongoose's TCP with the sending of data again that it lacks, were it to come:
   `Writes` is what such a change would have to keep.
