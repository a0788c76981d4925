# Verification of poc-event-manager

poc-event-manager is a series of experiments with one design: *managers*, each
with a thread of its own, produce events; a *main loop* takes them over and
passes them on. Every application is another answer to the same question, how
to hand events from a manager's thread to the main loop without losing an
event or a wake-up. `main.cpp` and `app1` to `app12` differ in the queue and in
the order in which they touch queue and wake-up. The queues they try, most of
them lock-free, are part of the repository, so the project has two halves: the
applications with their wake-up protocol, and the queues underneath.

## 1. Inventory

| Part | State | Operations | Used by |
|---|---|---|---|
| `inc/PipedEvent.h` | a pipe (blocking at both ends), the atomic flag `_fired` | `Fire()`, `Consume()`, `GetSource()`, close | all |
| `inc/IManager.h` | thread, `_running`, three counters | `Run()`, `Stop()`, thread loop | all |
| `inc/EventPoller.h` | epoll descriptor, map from descriptor to producer and consumer | `Add`, `Wait`, `Execute`, `Remove` | all but app12 |
| `app12.cpp` `EventRouter` | epoll descriptor, producers by descriptor, consumers by type | `AddProducer`, `AddConsumer`, `WaitAndRoute` | app12 |
| managers of `main.cpp`, app1–3 | `std::list`, mutex, `PipedEvent` | `_runImpl`, `Produce`, `Consume` | |
| managers of app4–7, app10, app11 | a queue without a lock around it, `PipedEvent` | the same | |
| manager of `app8.cpp` | two lists, two mutexes only tried | the same | |
| `inc/promethues-simple-server.h` | counters | `AddCounter`, `IncrementCounter`, `Start` | all |
| `inc/List.h` | list with a mutex locked for each call | `operator->` | app7 |
| `inc/LockeFreeQueue.h` | linked list, `head_`, atomic `tail_` | `emplace_back`, `swap`, destructor | app6 |
| `SPSCQueue.h` | ring of slots, `writeIdx_`, `readIdx_`, a cached copy of each | `emplace`, `try_emplace`, `front`, `pop`, `empty`, destructor | app11, app12 |
| `readerwriterqueue.h` | circle of ring blocks; with a semaphore: blocking queue | `enqueue`, `try_enqueue`, `try_dequeue`, `peek`, `pop`, `wait_dequeue…` | app5 |
| `readerwritercircularbuffer.h` | ring between two semaphores | `try_`, `wait_`, timed enqueue and dequeue, `peek` | – |
| `atomicops.h` | semaphore for one waiter and one signaller | `wait`, `tryWait`, `signal`, timeouts | the two above |
| `concurrentqueue.h` | producers' sub-queues of blocks, block indices, free list, hash tables of implicit producers, tokens, thread-exit listeners | enqueue and dequeue, single and bulk, with and without tokens; move, swap | app9 |
| `lightweightsemaphore.h`, `blockingconcurrentqueue.h` | semaphore for many threads; queue and semaphore | `wait`, `waitMany`, `signal`; waiting dequeue | – |
| `atomic_queue.h` | ring with an atomic element or a state per slot | `try_push`, `push`, `try_pop`, `pop` | app10 |
| `spinlock.h`, `atomic_queue_mutex.h` | ticket or test-and-set lock; ring behind it | `lock`, `unlock`; `try_push`, `try_pop` | benchmarks |
| `barrier.h`, `benchmarks.cc` | counter; clock readings, the last consumer | `wait`, `release`; throughput benchmark | |

**How the parts interact.** The manager's thread runs `_runImpl()` until
`_running` is cleared: make an event, put it into the queue (or drop and count
it), count it, `Fire()`. `Fire()` writes a byte into the pipe unless `_fired`
says one is there. The main loop sleeps in `epoll_wait()`; when the pipe is
readable it calls `Produce()`, which consumes the wake-up (`Consume()`: read
the byte, clear `_fired`) and drains the queue, in one order or the other, and
then the `Consume()` of each receiver. A signal clears `running`; the main loop
leaves and `Stop()`s and joins each manager.

**What is hard.** Two threads share the queue, the flag and the pipe without a
lock (app4–app12), so every load, store and system call can interleave.
`_fired` is tested and set in separate steps. `read()` and `write()` block.
Counters are written by both threads. Threads are started while others already
produce. A signal may come anywhere. `epoll_wait()` can fail or be interrupted.
Descriptor numbers are reused. In the queues: cached and stale indices,
claims made before it is known whether they can be met, ABA on a free list,
indices that wrap, tables replaced while others read them, allocations that
fail half way through, waits that time out while the signal is on its way.
`PROJECT.json` lists these as hazards, each at its line.

**What makes each part correct.** PipedEvent: flag and byte agree, no call
hangs. A manager: no lost wake-up; each event delivered once and in order or
counted as dropped; shutdown terminates. Router: exactly the interested
managers get an event; no counter is used before it is registered. A queue:
what goes in comes out once, in its order, threads are never at the same slot,
"empty" is only said of an empty queue, nothing is leaked or destroyed twice. A
semaphore: no unit made up or lost, nobody sleeps over one.

## 2. Modules

| Module | Models | |
|---|---|---|
| `PipedEvent` | `Fire()` and `Consume()` of `inc/PipedEvent.h` | proofs in `PipedEventProofs` |
| `PipeDescriptors` | its descriptors, from `pipe()` to `close()` | |
| `BoundedFifo` | nothing but what a bounded queue promises | abstract specification |
| `SPSCQueue` | the ring buffer, with stale index loads | implements `BoundedFifo`; proofs in `SPSCQueueProofs` |
| `TxChannel` | `app11.cpp` (with `IManager`, `EventPoller`) | composes `SPSCQueue` and `PipedEvent`; proofs in `TxChannelProofs` |
| `EventRouter`, `App12` | `app12.cpp`; `App12` has its managers, types and the bounds | composes `PipedEvent`, one pipe per manager; proofs in `EventRouterProofs` |
| `MutexManagers` | `main.cpp` | composes `PipedEvent`; proofs in `MutexManagersProofs` |
| `PeerManagers` | `app1.cpp`, `app2.cpp`, `app3.cpp` | |
| `OneManager` | `app4.cpp`, `app5.cpp`, `app6.cpp`, `app7.cpp`, `app10.cpp`, `inc/List.h` | composes `PipedEvent` |
| `TryLockManager` | `app8.cpp` | composes `PipedEvent` |
| `EventPoller` | `inc/EventPoller.h` | |
| `LockeFreeQueue` | `inc/LockeFreeQueue.h` | |
| `ReaderWriterQueue` | the circle of blocks of `readerwriterqueue.h` | |
| `SpscSemaphore` | `spsc_sema` of `atomicops.h` | |
| `BlockingReaderWriterQueue` | the rest of `readerwriterqueue.h` | composes `SpscSemaphore` and the queue's FIFO |
| `CircularBuffer` | `readerwritercircularbuffer.h` | two `SpscSemaphore`s; implements `BoundedFifo` |
| `BlockPool` | `concurrentqueue.h`: initial pool, free list, allocation | proofs in `MCConcurrentListsProofs` |
| `IndexGrants` | what a sub-queue's counters promise | abstract specification |
| `SubQueue` | `concurrentqueue.h`: the counters of `ProducerBase` | implements `IndexGrants` |
| `ExplicitProducer`, `ImplicitProducer` | `concurrentqueue.h`: the two kinds of sub-queues | extend `IndexGrants` |
| `ImplicitHash` | `concurrentqueue.h`: the producers of threads | |
| `ThreadExit` | `concurrentqueue.h`: `ThreadExitNotifier` | proofs in `MCConcurrentListsProofs` |
| `ConsumerTokens` | `concurrentqueue.h`: going over the producers, rotation | |
| `QueueMove` | `concurrentqueue.h`: queues and tokens moved, swapped, destroyed | |
| `LightweightSemaphore` | `lightweightsemaphore.h` | |
| `BlockingConcurrentQueue` | `blockingconcurrentqueue.h` | composes `LightweightSemaphore` |
| `AtomicQueue` | `atomic_queue.h`: the rings, their sizes and slots | |
| `SpinlockQueue` | `spinlock.h`, `atomic_queue_mutex.h` | |
| `ThroughputBenchmark` | `benchmarks.cc`, `barrier.h` | |
| `MCManagers`, `MCReaderWriter`, `MCConcurrentQueue` (with `MCConcurrentLists`), `MCConcurrentCalls`, `MCAtomicQueues` | instances for TLC, see section 3 | proofs of `MCManagers` in `MCManagersProofs`, of `MCReaderWriter` (all three queues) in `MCReaderWriterProofs`, of `MCConcurrentLists` in `MCConcurrentListsProofs` |

Each module also has *faulty variants* of some of its steps, defined before
the steps they vary. They are never part of `Next`; they stand for bugs that
the properties are expected to find (`PROJECT.json`, `mutants`).

### PipedEvent
`fired[p]` is `_fired`, `bytes[p]` the number of bytes in the pipe, `fpc[p]`
and `cpc[p]` the positions of the firing and the consuming thread. `Fire()` is
`FireCheck`, `FireStore`, `FireWrite`; `Consume()` is `ConsumeCheck`,
`ConsumeRead`, `ConsumeReset`. All accesses to `_fired` are sequentially
consistent, so interleaving is exact. `ConsumeRead` and `FireWrite` are
disabled when the system call would block. One thread fires and one consumes,
as in every application.

`PipeDescriptors` has the other half: constructor, `Fire()`, `Consume()`,
`CloseSource()`, `CloseSink()` and destructor as one step each, over descriptor
numbers that the kernel hands out lowest first and that are reused. In `_fds`
0 means closed.

### SPSCQueue
`emplace`/`try_emplace` are `Enter` (compute the next index, compare with
`readIdxCache_`), `LoadReadIdx` (refresh it; refuse or spin), `Construct`,
`Publish`. The reader is `Empty`, `FrontCached`/`FrontLoad`, `PopDestroy`,
`PopStore`. The destructor is `Destroy`, then front and pop, then
`Deallocate`. `capacity_` is the constructor's computation, clamping included;
`Extra` is what `allocate_at_least()` may add.

Release/acquire loads may be old. `visW` and `visR` are the oldest values a
load of `writeIdx_` by the reader, or of `readIdx_` by the writer, may still
return. A load picks any value from there to the newest, and by coherence none
older later; `WriteIdxSettles` and `ReadIdxSettles` say that stores reach
memory eventually. `taken` is the element taken last; the refinement needs it.

### TxChannel
The two threads of app11 drive the steps of the two components: `RunImpl`,
`TryEmplace`, `CountTx`/`CountDrop`, `Fire` for the manager; `Run`,
`CheckRunning`, `Wait`, `ConsumeEvent`, `Drain`, `Front`, `Pop`, `Dispatch`,
`Stop`, `Join`, `Destroy` for `main()`. `Front` on an empty queue would go to
the state `"crashed"` (`*front()` of a null pointer), which `TypeOK` excludes.

*An assumption that matters.* After `try_emplace()` the thread increments a
counter and only then tests `_fired`. The increment is an atomic
read-modify-write in prometheus-cpp, on x86 a full barrier, and `CountTx` says
so (`visW' = writeIdx`). With `CountTxRelaxed`, an increment that is no
barrier, TLC finds a lost wake-up: the main loop misses the event in
`empty()`, and `Fire()` finds the flag still set. The C++ memory model does
not forbid that; app11 and app12 owe their correctness to an instruction that
was not put there for it.

### EventRouter and App12
Three managers, the router's maps, and `main()` from `AddProducer` to the last
`Stop()`. A queue is a sequence and `try_emplace()`, `empty()` and
`front()`/`pop()` are single steps: `QueueIsFifo` allows it, and `TxChannel`
covers what stale loads do to the wake-up. One behaviour is lost by that, a
`try_emplace()` that refuses because it sees an old `readIdx_`; it is in
`TxChannel`. `ready` is what `epoll_wait()` reported; it is served in any
order, and is a set of at most `MaxReady`. `cur` is only meaningful while a
manager is served. Payloads, `target`, `to_string()` and the sleeps in
`_runImpl()` are left out. A weak pointer is always valid because `main()`
holds the managers.

### MutexManagers
`main.cpp`: A and B produce for C, C queues what it consumes again, and
`main()` returns it to the manager of the event's type. B is never started.
The size of the list is read without the mutex. This is a data race on one
word; the model lets the load see the list before or after a concurrent
`swap()`, which is what the compiled load can return.

### PeerManagers
app1–app3: what happens under `txMutex` is one step, since nothing but
`epoll_wait()` looks at list or pipe without it; `MutexManagers` has the steps.
app2's two managers consume each other's events, the others their own; app1
alone checks the length, before it locks.

### OneManager
`app` chooses the program. The thread is `Emplace` (app10 reserves its slot
first and stores later, in two steps), the count and `Fire()`. `Produce()` is
`ConsumeEvent` and `Drain`, in the order of the program: app10 consumes first,
app5, app6 and app7 drain first. app4 has no queue. Queues are sequences; the
modules named in `PROJECT.json` have their inside.

### TryLockManager
`app8.cpp`: `TryLock`, `EmplaceUnlock` for the thread; `Look`, `Swap` for
`Produce()`, which keeps a mutex if the list behind it is empty. A second
`try_lock()` by the owner is undefined in C++; glibc's mutex returns false,
and so does the model.

### EventPoller
Managers come and go, descriptors are added, removed, reported and executed;
`_watchers` keeps entries of removed and dead managers under numbers the kernel
reuses. Between `Wait` and `Execute` anything may happen.

### LockeFreeQueue
`emplace_back()` is `Exchange` (of `tail_`) and `Link` (of the predecessor);
between them the list is cut. `swap()` walks, takes and deletes node by node
and sets `head_` at its end. `live` has the nodes not yet deleted, so a use
after delete is a state.

### ReaderWriterQueue, SpscSemaphore and what is built on them
`ReaderWriterQueue` steps at each access to a variable of the other side.
`try_dequeue()`, `peek()` and `pop()` re-read `tailBlock` and the front block's
`tail` in the code's order; `enqueue()` may add a block to the circle.
`size_approx()` is a walk that runs while both threads work.
`SpscSemaphore` decrements first, sleeps in the kernel and, after a timeout,
takes its decrement back in a loop of its own. `BlockingReaderWriterQueue` and
`CircularBuffer` drive its steps; in the latter one semaphore counts slots and
one items, and no thread looks at the other's index.

### concurrentqueue.h
The queue is cut where its parts meet through a promise.
`BlockPool` is the life of a block outside the producers: the reference count
and the flag of the lock-free free list, every atomic access a step.
`SubQueue` is the optimistic claim (`dequeueOptimisticCount`,
`dequeueOvercommit`, `headIndex`) with indices of `Width` bits; it implements
`IndexGrants`, and the two producer modules use just that: consumers get
published indices, each once.
`ExplicitProducer` has the circle of blocks and the block index that is
extended, overwritten and doubled while consumers hold old headers;
`ImplicitProducer` blocks that come from the pool and go back, and the index
that is rewound when an enqueue fails. `Faults` says whether allocations fail
and constructors throw. A bulk enqueue of the explicit producer that fails half
way leaves something behind (blocks it inserted, entries it wrote); the history
variable `halfWay` remembers what, and `IndexIntact` is false once lookups may
stumble over it. Where they do, see "Known limits". `ImplicitHash` is the chain of hash tables with lazy
moves, reuse after thread exit, and the resize flag; `ThreadExit` the race of a
thread's end with the destruction of a queue; `ConsumerTokens` the choice among
producers; `QueueMove` who points to whom. Loads marked relaxed are confirmed
by the exchange that uses them, so these modules interleave steps.

### LightweightSemaphore and BlockingConcurrentQueue
Any number of threads; `waitMany` and bulk operations. A timed-out waiter loads
the count, looks at the kernel's semaphore and gives back its decrement in
separate steps. The inner queue is a set whose dequeue may miss items, because
`ConcurrentQueue` may report empty while others are in it.

### AtomicQueue, SpinlockQueue, ThroughputBenchmark
`kind` chooses the element type (NIL value or state byte) and `spsc_`. Indices
wrap at `Width` bits and start just before the wrap. `Declared` says how the
queue is declared (form, size, elements per cache line); `RingSize` and `SlotOf`
give its `size_` and the slot of an index, the ring's steps use them, and the
part `"sizes"` of the run checks them (`round_up_to_power_of_2`, `map` and
`remap_index`) for all small declarations, at the start and at the wrap,
with real bit operations. `SpinlockQueue` has both locks with plain ring counters
behind them; `ThroughputBenchmark` barrier, stop elements and clock readings.

## 3. Runs

| Run | Distinct states | Bounds |
|---|---|---|
| `piped_event` | 343 | three pipes of two bytes |
| `spsc_queue` | 4,397 | capacity 2 (three slots), two values |
| `tx_channel` | 26,892 | five events, queue of two |
| `event_router` | 74,714 | A makes three events, B and C one each; queue of two; at most two descriptors per `epoll_wait()` |
| `mutex_managers` | 5,101 | four events, `MAX_QUEUE_SIZE` 1 |
| `managers` | 158,115 | four events per manager; three producers and three nodes; three managers on two descriptors; three pipes |
| `reader_writer` | 542,595 | blocks of two slots, initial sizes 1 and 4, five blocks, five elements; a ring of three (four slots); four elements in the blocking queue |
| `concurrent_queue` | 1,818,064 | three threads and two blocks at the free list; three consumers of 4-bit counters from 14; blocks of two, index of two entries, 5 to 7 elements in bulks of up to three, 5-bit indices from 28 or 0, with and without faults; two queues, two tokens, three producers, two tables; two threads ending |
| `concurrent_calls` | 260,449 | three threads, tables of 2, 4 and 8 slots; two threads with failures and three exits; three producers, quota 2, 2-bit offsets; one producer and two consumers of two items |
| `atomic_queues` | 107,634 | ring of two, 8-bit indices from 254, four pushes and three pops by two threads on each side; sizes to 40 of each form, 1 to 8 elements per cache line; locks with 2-bit counters; two producers of two numbers |
| `try_lock_drops` | (violation) | four events |
| `drain_before_consume` | (violation) | three events |

The five runs of MC modules put several components side by side: `part` is
chosen in the initial state, one component moves, and the variables of the
others keep their initial values. So the states add up instead of multiplying,
and a component may occur with several settings of its constants (for example
`ExplicitProducer` without faults across the wrap of its indices, with failing
allocations, and with throwing constructors). A property of such a run is the
conjunction of what its modules state, each under its `part`.

**Why these bounds.** A pipe of two bytes is the smallest in which a second
byte, which must never be written, would fit. Three slots are the smallest
ring where full, empty and wrap-around differ and both threads can be inside;
five events go round it more than once and let the queue be full, drop, and be
refilled. `SIZE_MAX` 15 and `kPadding` 2 only serve the constructor's clamp.
In app12 the array has ten entries for three managers and never truncates;
`MaxReady` 2 makes truncation happen. Event numbers are a bound on how long
the threads produce, not on what they may do: when it is reached the thread
stays at the top of its loop until it is stopped. Blocks of two elements with
five or six elements make every queue of blocks enter a third block, reuse
one, and double an index of two entries; indices of 3 to 5 bits start so that
they wrap in the middle. Two descriptors for three managers force reuse of a
number. Three threads at the free list are what ABA needs. Hash tables of 2
slots, grown to 4 and 8, with two threads of equal hash, make
probing, moving and reuse meet; a second setting has three exits and failing
allocations. A quota of 2 over three producers and a 2-bit offset makes tokens
rotate past the wrap.

**What they show.**

- `piped_event`: `NoDeafFlag` (the flag is never left set over an empty pipe),
  `FlagCoversByte` (no byte is ever left without the flag), `NeverStuck` (the
  only `read()` that waits has a `write()` on its way, which itself never
  waits), `ConsumeReturns`.
- `spsc_queue`: `NoSlotRace`, `PopAssert` (the `assert` in `pop()` holds
  whatever its load returns), `NothingLeaks`, `ImplementsFifo` (refinement),
  `EmplaceReturns`.
- `tx_channel`: `NoLostWakeup`; `EventsAccounted` (each event is received once
  and in order or counted as dropped, eventRx is ahead of eventTx by one at
  most, and app11 keeps what the queue asks of its user, to its destruction);
  `Served` (events are delivered, a signal ends the program).
- `event_router`: `NoLostWakeup` for each manager; `RoutedRight` (a report of
  `epoll_wait()` is not stale when its turn comes, events reach exactly the
  interested managers, in order, and no counter is used unregistered);
  `Served`, also after a failing `epoll_wait()`.
- `mutex_managers`: `NoLostWakeup` holds although the list is taken before the
  wake-up is consumed, because both happen under the mutex; `EventsAccounted`
  (the list gets one longer than `MAX_QUEUE_SIZE`, never more; through C and
  back once; ManagerB's missing counters are never used); `Served`.
- `managers`: `EventsKept` (app1–app8 and app10 keep, order and account for
  every event; where the queue is drained before the wake-up is consumed, an
  event left behind finds the flag clear, so the next `Fire()` brings it
  along); `ListRight` (`LockeFreeQueue`: no use after delete, order, no leak);
  `DescriptorsRight`; `EverythingServed`.
- `reader_writer`: `QueueRight`, `RingRight` (with the refinement of
  `BoundedFifo`), `SemaphoresRight`, `WaitsEnd`.
- `concurrent_queue`: `PoolRight` (one owner per block, exact reference counts,
  no block lost), `CountersRight` (with the refinement of `IndexGrants`),
  `ExplicitRight` (consumers find their elements, also after bulk enqueues that
  failed, with the exceptions listed under "Known limits"; its part
  `"explicit fails"` has bulks of three over blocks of two, so a second new
  block may be refused), `ImplicitRight`, `OwnersRight`, `ExitsRight`.
- `concurrent_calls`: `HashRight`, `TokensRight`, `UnitsRight`, `CallsReturn`.
- `atomic_queues`: `RingRight`, `LockedRight`, `EveryoneServed`; `SlotsRight`
  (the ring holds what was asked for, and as many consecutive indices as it has
  slots have slots of their own; across the wrap of `head_` and `tail_` *if and
  only if* the size divides 2^32, which every rounded size does and an unrounded
  one like 3 does not).
- `try_lock_drops` is a **finding**: `Produce()` in app8 keeps a mutex whose
  list it found empty, and from then on events are dropped with both lists
  empty, where `IManager.h` calls the counter "dropped events due to full
  queue".
- `drain_before_consume` is a **finding**: in app5, app6 and app7 an event
  added between drain and `Consume()` finds the flag set, so nothing is written;
  then the byte is read. It waits in the queue, with the descriptor not
  readable, until another event is fired. `IManager.h` promises a descriptor
  "on which the Manager will notify about events".

**Known limits of the queues.** While the modules were written TLC also met
these. The runs state what holds without them; where a property of a module
excludes such a case, its comment says so.

- `concurrentqueue.h:2419` (and 2393, 2401): what a bulk enqueue with a token
  leaves behind when it fails half way. A block it had inserted stays in the
  circle, but the count of index slots is restored. Later enqueues reuse the
  block as one ahead, without counting it. Lookups stay right until there are
  more blocks than the index has entries (`ExplicitRight` claims this). But then
  a bulk finds room in an index that is full, and overwrites the entry of a block
  whose elements are still to be taken; a consumer looks in the wrong block. The
  configuration `ExplicitHalfWay.cfg` (of `ExplicitProducer`, not one of the runs
  above) ends in such a trace of 19 states; `try_enqueue_bulk()` on an exhausted
  pool is enough for it. If the call had taken blocks ahead and then replaced the
  index, `new_block_index()` has copied their entries before the restored front
  (line 2411), and later lookups go wrong too, also if it was a constructor that
  threw. In these two cases `IndexIntact` is false, and `concurrent_queue` does
  not follow the behaviour any further.
  The destructor's search for the half-dequeued block (line 2017) starts from
  what the failed call left in the index or did not count, and may find the wrong
  block: elements are destroyed twice or not at all. `DestroysElements` is claimed while `halfWay` is empty.
- `concurrentqueue.h:2171`: a constructor that throws at the start of a block
  leaves the block looking full; the destructor would destroy elements that do
  not exist. `ExplicitRight` claims nothing of the destructor where constructors
  throw.
- `concurrentqueue.h:2089`: the explicit producer checks `MAX_SUBQUEUE_SIZE`
  only where it inserts a block, so the limit is not one. Of
  `ImplicitProducer` it is checked.
- `concurrentqueue.h:4043`: the count of used hash slots is taken back for a
  reused slot in an old table too; the comment at line 3926 ("guaranteed to be
  room") does not follow from it. Probing still finds a free slot in all
  instances checked (`FreeSlot`).
- `concurrentqueue.h:1430`: a bulk dequeue may carry a token's count past the
  quota, which single dequeues compare for equality; such a token never makes
  the others rotate. `QuotaRotates` is claimed where tokens use single calls.
- `concurrentqueue.h:2806`: `~ImplicitProducer()` skips the mutex when the
  producer is inactive, while the exiting thread may still be reading the
  listener's `next`. The model ends such a thread there; `CallbackAlive` says
  that no callback goes to a destroyed producer.
- `SPSCQueue.h:65`: `capacity_++` before the overflow check; a requested
  capacity of `SIZE_MAX` wraps to 0. `QueueAssumption` excludes it.
- `PipedEvent.h:41, 43`: a pipe whose source is descriptor 0 is deaf, and after
  `CloseSink()` alone `Fire()` writes to descriptor 0. The run has the standard
  descriptors open, and no application closes one end alone.
- `readerwriterqueue.h:117`: a requested size of 0 makes a first block of one
  slot, where `front == tail` always means empty. The producer leaves it alone
  at first, but once the circle has a second block and it comes round to the
  first one, the element it puts there is lost (`QueueRight` fails with
  `Sizes = {0}`). Nothing here asks for size 0.
- `readerwriterqueue.h:917`: `peek()` of the blocking queue may show an element
  that `try_dequeue()` right after it does not get, as it is not signalled yet.
- `atomic_queue.h:363`: with more threads than slots a push may be overtaken at
  its slot by the one a ring further; the order is only claimed for `spsc_`
  (`SpscInOrder`). `atomic_queue.h:438`: a size that does not divide 2^32 (only
  possible without `MINIMIZE_CONTENTION`) puts two elements in flight into one
  slot at the wrap. `SlotsRight` says which sizes those are; `RingAssumption`
  excludes them from the ring of `RingRight`, which has two slots.
- `spinlock.h:88`: the `unlock()` without an argument increments `next_` twice;
  nothing calls it, `LockGuard` uses the other.
- `EventPoller` never closes its epoll descriptor.

**Fairness.** Weak fairness of each thread (the operating system schedules
it), and of the settling of stores (a store reaches memory in finite time). No
fairness for signals or failures of `epoll_wait()`, for calls a user of a queue
may or may not make, or for timeouts. No fairness of mutexes
beyond that: in `main.cpp` a thread that keeps taking its mutex stops at the
size limit. `PipedEvent` alone assumes only that a thread inside `Fire()` or
`Consume()` goes on; `SPSCQueue` alone also that the reader keeps polling, and
so does the ring's consumer in `reader_writer`. In `atomic_queues` threads at a
slot go on; `concurrent_queue` states no liveness: its loops around
`compare_exchange` are lock-free, not wait-free, and weak fairness of a thread
does not end them.
Deadlock is not checked for `SPSCQueue`, `MCConcurrentQueue` and
`MCAtomicQueues`: after a destructor, or when the bounded number of calls is
used up, nothing is left to do. The applications have an explicit final step
`Ended`.

## 4. Proofs

All proofs hold for every value of the constants that satisfies the modules'
`ASSUME`s: any capacity, any number of events, managers, producers or
descriptors. Each invariance theorem rests on an inductive invariant that TLC
checked on the run's instance first.

**PipedEventProofs.** `NoDeafFlag`, `FlagCoversByte` and `NeverStuck` are not
inductive. `IInv` says that each pipe is either `Quiet` (flag clear, empty, no
consumer inside) or `Signalled`: flag set, and exactly one of a write about to
happen, a byte in the pipe, a reset about to happen. Each of the six steps
moves a pipe from one of these cases to another; the properties follow.
The second part of the module has what the applications' proofs need of the
sequences of events that the wake-ups announce: what `Append`, `Head`, `Tail`
and concatenation do to order and contents, and `Placed`, the shape that all
applications share: the events `1 .. made` are those on the way, those dropped
and the one in hand, no event in two of these, and those on the way in
increasing order. The applications instantiate the module for their pipes.

**SPSCQueueProofs.** The central conjunct of `IInv` is `RingOrder`: going
round the ring one meets `readIdxCache_`, `visR`, `readIdx_`,
`writeIdxCache_`, `visW`, `writeIdx_` in this order, in at most
`capacity_ - 1` steps altogether. Each load moves an index towards the next,
each store moves the first or the last away by one. `Permits` says what a
thread may rely on once it has passed its check, `SlotsLive` that the slots
with an object are exactly those between reader and writer (but for the one
in transition), `Lifetime` what holds in the destructor. From these:
`SlotsNotShared`, `PopAssertHolds`, `NoLeak`, and `QueueIsFifo`, the
refinement of `BoundedFifo`: `Publish` is an `Enqueue`, `PopDestroy` a
`Dequeue`, every other step a stutter of the sequence read off the ring.

**TxChannelProofs** (app11) uses the two invariants above as they stand.
`UsesItsParts` shows that the threads of app11 take no step with queue or pipe
that their modules do not allow, so both invariants hold here and
`ChannelIsFifo` follows. The new conjuncts are `Stages`, `Writer`, `Reader`,
`InPipe` (which program counters go together), `Visible` (the counter's
barrier: outside `"count"` the newest `writeIdx_` is visible, hence an
`empty()` that says so can be believed, and a queue that is not empty has its
byte), `Once` and `Counts`. `WakeupNeverLost` and `AllEventsAccounted` follow.
`Visible` is where the argument of section 2 enters: without the barrier it
is not preserved by `CountTx`.

**EventRouterProofs** (app12). `Callers` says that only the manager in service
is inside `Consume()` and that whoever was reported still has its byte, because
nobody else consumes it; `Setup` how far registration has got; `OrderOf(p)`
that what was delivered comes before what is being routed and that before
what is queued. `Routing` gives each consumer's history by the events' types.
Results: `WakeupNeverLost`, `RoutingCorrect`.

**MutexManagersProofs** (main.cpp). `Owners` ties each mutex to the program
counters, and `Fire()` and `Consume()` to the holder; `Wakeups` says that a
list just swapped is empty and a list with events has its byte or a `Fire()`
to come from the holder of its mutex. `Sizes` needs that the stale length was
read by the only thread that adds. `InLine` and `Once` follow the events to
ManagerC and back, `Counts` relates four counters to the lengths of the lists.
Results: `WakeupNeverLost`, `AllEventsAccounted`, whichever of the producers
main() starts (`Started`).

**MCManagersProofs.** Each part has an invariant of its own, and a step of
`MCManagers` is a step of one part.
- `EventsAlwaysKept`: `OneInv` (app4–app7, app10: places of the threads, the
  events' line, what a drain must take, and for app10 the wake-up), `TryInv`
  (app8: `TryLocks` says that while `main()` holds the first mutex it also
  holds the second, so the second list stays empty), `PeerInv` (app1–app3:
  counters are registered before a thread starts and all of them before the
  loop; the unlocked length can only have become smaller).
- `ListAlwaysRight`: `ListInv` describes `LockeFreeQueue` by the order in which
  `tail_` was exchanged. `Chain`: a link is stored, or its producer is about to
  store it; `Owned`: who has which node; `Taking`: how far `swap()` is, with
  all links before stored; `Living`: the nodes alive are exactly those from
  there on and those not exchanged yet.
- `DescriptorsNeverConfused`: `PipesInv` (a descriptor belongs to the end that
  remembers its number, and to no other) and `PollerInv` (a living manager has
  one descriptor; a watcher whose producer lives is the descriptor's).

**MCReaderWriterProofs.** `SemaRight` is one semaphore of `atomicops.h`: the
count is what was given less what was granted and what a waiter owes, and the
kernel has a unit, there or about to be posted, exactly when the debt has been
signalled. It relates six numbers, so that `WaiterKeeps`, `SignalKeeps` and
`TryWaitKeeps` are proved once and serve three semaphores. On top of it
`RingUnits` says that the units are the ring's indices: granted slots are
`nextSlot` and the one in the producer's hand, given slots `maxcap + nextItem`
less the one not signalled yet, and likewise for items. Hence the indices are
at most `maxcap` apart, which is no more than the ring has slots, so that
distinct elements have distinct slots (`SlotsDiffer`), and `RingData` (the
elements between the indices are in their slots, nothing is elsewhere) is
preserved. Results: `RingAlwaysRight`, with the refinement of `BoundedFifo`
(`ConstructItem` is an `Enqueue`, `RemoveItem` a `Dequeue`), and
`SemaphoresAlwaysRight` for both queues, with the order of the elements
(`BlkUnits`: those inside follow the one taken last).

`QueueInv` is the invariant of `ReaderWriterQueue`. Nothing in the state says
which blocks hold elements, so it quantifies over witnesses (`QueueWith`): the
blocks are `1 .. n`; `pos[b]` is how far block `b` is from where the consumer
began, laps included; `num[b]` is the number of elements before those of `b`;
every block has room for `K`. Its conjuncts:
- `BlocksRight`: in each block `localFront`, `front`, `localTail` and `tail`
  follow each other round the ring in at most `size - 1` steps, and the slots
  from `front` to `tail`, and no others, hold the elements after `num[b]`, but
  for the slot in transition.
- `CircleRight`: `next` leads round all blocks in the order of `pos`, the
  consumer's block first. Hence the destructor, which goes round once, reaches
  all of them (`ReachesAll`).
- `OrderRight`: the blocks from the consumer's to the producer's are the live
  ones; their elements are consecutive, those in between are full, all others
  are empty. Hence an empty block that is not the producer's is followed by the
  next element, and no element is overlooked.
- `RoomRight`: between two live blocks beyond the consumer's there are at least
  `K` elements for each step, so a queue whose blocks are all in use holds
  `(n - 1) * K`, which is at least the requested size. The sum over the blocks
  is the difference of two `num`, so that no induction is needed.
- `ProducerRight`, `ConsumerRight`: what a thread has found out at its place
  stays true while the other one moves. The consumer's second look at its block
  is needed here: `"advance"` claims that the block is empty for good.
- `WalkRight`: what `size_approx()` has counted, plus what it has still to come
  to (`Ahead`), is never below the size at one end nor above that at the other,
  though the other thread moves indices, turns the circle and inserts blocks.

There is one lemma per action (`EnqueueKeeps` to `DestroyFrees`). Where an
action moves a thread to another block it gives new witnesses: `NextBlock` turns
the circle (`pos`), `LinkBlock` inserts a block (`n`, `pos`, `num`), `SetFront`
and `Advance` renumber the block they work on. Results: `QueueInvariant`
and from it `QueueAlwaysRight`.

**MCConcurrentListsProofs.** `MCConcurrentQueue` extends `MCConcurrentLists` by
the other parts of `concurrentqueue.h`. Its `Init` implies `ListsInit`, and
each of its steps is one of `ListsNext` or leaves `listsVars` as they are, so
what is proved of `ListsSpec` holds in the run `concurrent_queue`.

`PoolRight` speaks of one moment at a time and is far from inductive: that a
thread's exchange of `freeListHead` does not put a block on the list that
another one owns depends on what has happened to the block since the thread
read its `freeListNext`. `PoolInv` (its parts are `PoolWith`) therefore says
for *some* sequence of blocks:
- `ListOf`: the blocks of the sequence, all distinct, are the list from
  `freeListHead` on, in this order, and then the list ends. So there is no
  cycle, and `Walk` in the property, which follows `freeListNext`, meets these
  blocks and no others (`WalkIs`, without induction: the walk is a fixed point
  of the equation that defines it).
- `BlockRight`, `HolderRight`, `OneHolder`: every block is in use, on the list,
  in the hands of one thread (which took it off, or is about to put it there),
  given up (its flag is set and its readers will see that), or not there yet;
  and the place determines `freeListRefs`: one for each reader, one more on the
  list, the flag alone while the thread in `Zeroed` stores into the block.
- `ThreadRight`: what a thread knows at its place. The one that matters for ABA:
  between the load of `freeListNext` and the exchange of the head
  (`r.pc = "pop"`), what it loaded is still the block's successor. It is so
  because whoever writes `freeListNext` has seen a count of zero, and this
  thread has a reference.
- `PoolShape` bounds the index of the initial pool and says that with
  `RECYCLE_ALLOCATED_BLOCKS` off no allocated block ever gets to the list, so
  that freeing one leaves no thread with a pointer to it.

There is one lemma per action; `PopHead` and `PushHead` give the sequence that
is shorter or longer by its last block. `PoolConstants` has the only fact about
numbers that is used: the count of references has room for all threads and the
list (`Mask`), so it cannot carry into the flag. Results: `PoolInvariant` and
`PoolAlwaysRight`.

`ExitsRight` is about the race of `~ThreadExitNotifier()`, which walks its
thread's list under the mutex, with `~ImplicitProducer()`, which reads
`inactive` without the mutex and, if it is set, skips `unsubscribe()`. Its two
halves rest on `ExitsInv`:
- `ListRight`: no listener is twice in a list, and what is chained to a thread
  is its list *from some position on*: the first while the thread runs, the
  listener being called back, or the one after it. So a walk that reads a
  successor by its position (`Index`) misses nobody and meets nobody twice.
  An element before that position may be destroyed by then; that it may be the
  very one whose `next` is read is the known limit in section 3, and such a
  thread is followed no further.
- `MutexRight`: who walks has the mutex, so `Subscribe` and `Unsubscribe` change
  no list that is being walked.
- `ChainedInUse`: who is chained is not destroyed and not inactive. A destructor
  that sees `inactive` (`LoadInactive`) hence has a listener that nobody will
  call back (`FreedRight`).
- `Subscribers`: between the moment a thread takes a producer (a new one, or a
  recycled one it has just made active) and `subscribe()`, nobody else has it
  and its queue is not being destroyed.
- `ProducersRight`: a queue has its first producers and destroys the last, so a
  new producer is none of those there are.

One lemma per action again; `RemovedFrom` and `Prepended` say what a list has
without one of its elements, and with a new one. Results: `ExitsInvariant` and
`ExitsAlwaysRight`.

**Assumptions.** `QueueAssumption` excludes a requested capacity of
`SIZE_MAX`, for which `capacity_++` wraps to 0 before the constructor's
overflow check. A pipe has room for one byte at least. Descriptor 0 is open
when the program starts (`0 \in Standard`), for `PipedEvent` takes it for a
closed pipe. One thread fires and one consumes; one thread writes a queue and
one reads it. Only with `allocate_at_least()` is the ring larger than asked
for. `Order` of app12 lists each manager once. `CapacityAssumption` has two
facts about powers of two that need induction to prove (they are numbers, and
one of them is as large as `maxcap`); TLC evaluates them. A ring has a capacity
of at least one. `SizeAssumption` says likewise that `ceilToPow2()` finds a
power of two. `QueueInvariant` and `QueueAlwaysRight` are for requested sizes of
at least 1 (`0 \notin Sizes`); for 0 they are false, see "Known limits".
`PoolAssumption`: there are finitely many threads, and fewer of them than
`REFS_MASK`, which is 2^31 - 1 in the code. `ExitAssumption`: the name "none"
(no chain, a free mutex) is no thread's.

**Only model-checked.** All liveness (the prover does not handle fairness). Of
the vendored queues the safety of `MCConcurrentCalls`, of `MCAtomicQueues` and,
but for the free list and the exit of threads, of `MCConcurrentQueue`: their
modules are instances with numbers for constants, one of them twice or three
times, the sum over the consumers in `CountersRight` is a fold, about which
only induction says anything, and `MCAtomicQueues` uses bit operations, which
the prover does not know. What `round_up_to_power_of_2` computes for every size
would need induction over data.

## 5. Not modelled

- app9: it does not compile (line 81 is an unfinished statement). Its queue is
  modelled, its manager is that of app5.
- The HTTP side of the Prometheus server (prometheus-cpp).
- Moving and swapping `ReaderWriterQueue`, `BlockingConcurrentQueue` and the
  circular buffer: no thread may use them meanwhile, and nothing moves them.
- Windows and Mach variants of the semaphores; they are one external semaphore.
- Traits, compile-time selection and `MCDBGQ_` debug code of
  `concurrentqueue.h`; `hash_thread_id` is a constant function.
- Weaker memory than x86 in the vendored queues: fences and acquire/release
  are taken to order the steps as written. `SPSCQueue` has stale loads, because
  app11 depends on them.
- The ping-pong benchmark, CPU affinity, huge pages, reports and the vendored
  tests.

## 6. What could come next

What the repository's own code does is proved but for liveness, and so is the
safety of everything modelled of `readerwriterqueue/` and of the free list and
the exit of threads of `concurrentqueue.h`. What is left of the vendored queues
is model-checked only:

1. That `SubQueue` implements `IndexGrants`, with the sum over the consumers
   replaced by a set of claims that they share out.
2. `LockedRight` of `SpinlockQueue` (one thread inside, tickets in order), once
   it is apart from the bit operations of `AtomicQueue`.
3. `ExplicitRight` and `ImplicitRight`, whose circle of blocks could be described
   by witnesses as that of `ReaderWriterQueue` is.
