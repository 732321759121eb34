# JobHunter in TLA+

JobHunter is a C++ repository of small, separate programs: concurrency
"stories" (`src/MultiThreadsInC++11`), home-made infrastructure
(`src/homemade-infra`, `src/priority_LRU.cpp`), and network and process programs
(`src/network`, `src/linux`). There is no single system; each program is a
component of its own, and the interactions that matter are inside a component
(threads and a queue, a server and its clients, a parent and its children), or
between two that share a mechanism (the thread pool runs on the message queue).
This directory models the components with state worth the name, checks them with
TLC and proves their safety properties with TLAPS.

All paths below are relative to `src/`.

## 1. Inventory

| Component | Source | State | Operations | What is hard |
|---|---|---|---|---|
| Thread-safe message queue | `MultiThreadsInC++11/story-3-ThreadSafeMessageQueue/` | `std::queue`, `_limit`, a mutex, two condition variables | `enqueue`, `dequeue`, from any number of threads | interleaving at mutex and waits, lost and spurious wake-ups, signed limit against `size_t` |
| Leader/follower thread pool | `MultiThreadsInC++11/story-4-LeaderAndFollower/` | the same queue; worker threads; the unlocked flag `_threadPoolStop` | `ExecuteTask` loop, enqueueing of tasks, closing with a pill that workers put back, joining destructor | a flag nobody is bound to see, a blocked re-post, a reference to a popped element |
| Stock alert | `MultiThreadsInC++11/story-2-ConditionVariable/` | price, mutex, condition variable | Peter updates and notifies, Danny waits without a predicate | a notification before the wait, a price that drops again |
| Smart lock examples | `MultiThreadsInC++11/story-1-SafeAndSmartLock/` | a blackboard string, a mutex or a safe around both | two threads write a sentence each, main joins and prints | data races in the early stages, a lock only one of them takes, an assignment where an append was meant |
| Order book | `homemade-infra/OrderBook/Orderbook.cpp` | two price trees of deques; `order_index` with deque iterators | `add_order`, `cancel_order`, `match` | iterators across `erase`, endless `match` |
| LRU cache | `homemade-infra/LruCache/` | a list and a map of iterators | `get`, `put` | list and map in step, the right eviction at the limit |
| Circular buffer | `homemade-infra/CircularBuffer/` | vector, `head_`, `tail_`, `size_` | push and pop at both ends, `clear`, `iterate` | `size_t` wrap-around, overwriting at both ends |
| Priority cache | `priority_LRU.cpp` | `priorityMap` of lists, `cache` of iterators, a global clock | `Get`, `Set`, `Evict` | three containers in step, reads of an erased node and a write to it, early return from eviction |
| Shared pointer | `homemade-infra/smartpoint/` | pointer, count and mutex on the heap | construct, copy, assign, destroy | count and mutex that delete themselves; a release inside a release |
| Fixed queue | `homemade-infra/squeue/` | ring in shared memory | `Init`, `push`, `pop` | does not compile |
| Graph | `homemade-infra/graph/` | adjacency lists; during a call `visited`, a queue or nested calls, `topoStack` | `addEdge`, BFS, DFS, topological sort | cycles, edges added twice, an order for cyclic graphs |
| Test framework | `homemade-infra/test-framework/` | registry, counters | `RegisterTestCase`, `Run` | a result that no one initialises |
| select echo server | `network/tcpselect.cpp` | `readfds`, `maxfd`, the scan | accept, receive, send back, drop | hand-kept sets, descriptors used again, a `recv` that must not block, a `send` that may |
| poll echo server | `network/tcppoll.cpp` | `fds[]`, `maxfd`, the scan | the same | stale and uninitialised `revents` |
| epoll echo server | `network/tcpepoll.cpp` | the epoll set, `evs[]` | the same | event data in a union |
| Multi-process server | `network/multi_process_server.cpp` | processes, descriptors, signal dispositions | accept, fork, serve, signal handlers | inherited descriptors and handlers, signals in every window |
| Blocking client and server | `network/socket_client.cpp`, `socket_server.cpp` | one connection | request, reply | little; the client does not compile |
| Files, processes, shared memory | `network/linux_*.cpp`, `linux/*.cpp` | one system call after another | | little; `fork.cpp` and `shared_memory.cpp` do not compile |
| Notes | `NoteBook`, `Log`, `README.md` | prose | | |

`PROJECT.json` lists every component with its status, and under `hazards` every
behaviour of the code that a unit test would hardly reach, at its line, with the
properties that watch it. What makes each modelled component correct is stated
in section 4, next to the run that checks it.

## 2. Modules

| Module | Models | State and actions in terms of the code |
|---|---|---|
| `FifoChannel` | what story 3's opening comment promises | abstract: a bounded channel; a call is `BeginSend`/`Send` or `BeginReceive`/`Receive` |
| `MessageQueue` | `MessageQueue::enqueue`, `dequeue` | `queue`, `mutex`; `pc[t]` is the place of a thread in a call, so the waiters of a condition variable are the threads at `enqWait`/`deqWait`; `Acquire` takes the mutex (on entry or inside `wait`), `TestFull`/`TestEmpty` are the `if` and the predicate, `Push`/`Pop` the update with `notify_one` and unlock |
| `ThreadPool` | story 4 | composes `MessageQueue` (INSTANCE, its own variables) with `next` (main's loop), `wpc` (each worker's loop), `ref` (what the reference returned by `Dequeue` names), `stopped` and `executed` |
| `StockAlert` | story 2 | `peter` and `danny` are the two threads' places, `price` and `mutex` what they share |
| `OrderBook` | `OrderBook` | a deque is a sequence and the place of its front; an iterator is a place; `MatchOnce` is a turn of `match()`'s loop. Two histories say what an erase did to iterators: `moved`, the orders that are no longer where theirs point, and `astray`, that an erase was given one of these |
| `MCOrderBook` | | the order book with clients that use the ids 1, 2, 3, ... in turn: ids are only names, and this keeps states that differ in their names only from being counted twice |
| `DroppingDeque` | what the circular buffer is for | abstract: a bounded sequence that drops at the far end |
| `CircularBuffer` | `CircularBuffer` | one action per method, in arithmetic modulo `Word` |
| `PriorityCache` | `Cache` | `lists` is `priorityMap`, `cache` maps keys to nodes, `item` is the heap; the history `last` says what was set, and the relation `newer` which of two cached keys was used later; `corrupt` that an update has damaged the heap. `Evict`'s scan is described by its result: a node goes if it has expired and too few expired ones stand before it (`FirstExpired`, `MetBefore`) |
| `RecencyCache` | what an LRU cache is for | abstract: the pairs put or found last, latest first |
| `LruCache` | `LRUCache` | `list` holds nodes, `node` what is in them, `map` the iterators; a node keeps its name when it is spliced, and a name is used again once its node is gone |
| `AdjacencyListGraph` | `Graph` | a call goes on edge by edge: `frames` is the stack of loops over an adjacency list, which for `DFSUtil` is its recursion; `q`, `visited`, `topoStack` are the code's, `processed` and `order` what it prints. What it should print is stated apart from the search: `Reachable` by the sets no edge leads out of, distance by the walks of a length (`Leads`) |
| `MCContainers` | | the four structures above (ring, two caches, graph), one per behaviour |
| `Blackboard` | story 1, four programs | `stage` is the program; `pc[w]` the place of a writer, a word is begun and ended in two steps, so that writes overlap where no lock forbids it; `torn` says that a race has happened |
| `SharedPtr` | `Shared_Ptr` | `block` is the heap, `work[t]` the stack of `Release` calls a thread is in; a load and a store of the count are separate steps |
| `MCThreads` | | the blackboard and the shared pointer, one per behaviour |
| `Sockets` | the kernel and clients (external), and the parts the servers share | `backlog`, `fds`, the bytes sent, taken and echoed; `Accept`, `Receive`, `Reply`, `Disconnect` are the system calls of a scan; `full` are the clients to whom a `send()` blocks, `SigPipe` the signal a `send()` to a client that has left may raise; the history `mangled` the clients of whose chunks one had a NUL or filled the buffer |
| `SelectServer`, `PollServer`, `EpollServer` | the event loops | extend `Sockets`; a scan stops at each descriptor, and between `recv` and `send`, and clients act in between |
| `MCEventLoops` | | the first two on the same clients, one per behaviour; `Messages` says what clients send |
| `MultiProcessServer` | the server that forks | `at[p]` is each process's place, `holders`/`listening` say who has which descriptor open, `term`/`int` are pending signals |
| `MessageQueueProofs`, `ThreadPoolProofs`, `OrderBookProofs`, `EventLoopProofs`, `MultiProcessServerProofs`, `SharedPtrProofs`, `BlackboardProofs`, `ContainerProofs` | | the theorems of section 6; each extends the module whose run checks the properties |

Definitions under a comment "Mutant of X" are wrong versions of X,
each a plausible mistake in the code; with X replaced by one, the property it is
listed with in `PROJECT.json` fails. They take no part in a specification.

Proof-minded conventions: parameters are CONSTANTS with named assumptions, one
action per operation, properties are conjunctions of named parts, and no module
declares a RECURSIVE operator.

## 3. Where the code has no defined behaviour

- *Deque iterators after `erase`* (order book). Undefined in C++; `Erase` does
  what libstdc++ does while a deque fits in one node: the shorter side moves,
  and an iterator keeps naming its place. The properties speak of an order until
  an erase has moved it, and of the book until an erase was given the iterator of
  such an order (`astray`); what follows then is modelled, but nothing is claimed
  of it.
- *The reference `Dequeue` returns* (thread pool). The element is already
  popped and destroyed when the worker copies it. The file's own `main` sends at
  most 14 messages, too few for libstdc++ to hand a freed slot out again, and
  the short strings are stored in the object, so the reference still reads the
  popped task; that is what the model has. With a longer list of tasks a later
  `emplace` could overwrite it, and the model would have to be widened (section 7).
- *`_threadPoolStop`* is a plain `bool`. A worker sees its own write; another
  worker's write it may see or not, at each read and for ever.
- *`revents` of a new entry* (poll server): any value at start, and later
  whatever an earlier `poll()` wrote for that descriptor.
- *A read of an erased `CacheItem`*: any priority, the same for the two reads of
  one call, because nothing of the node's size is allocated in between (an entry
  that `operator[]` makes is smaller).
- *`strlen` of a full buffer* (network servers): may read beyond it; `Texts`
  adds the byte `Junk`.
- *A data race on the blackboard*: from the first pair of writes that overlap on,
  the string may be anything (`torn`), and so may what main prints.
- *The write to an erased `CacheItem`* (`Set`, lines 71 to 73). The string is
  destroyed and its node freed when the value is assigned to it. Two values that
  fit into the string object are copied within the freed node, which nothing else
  uses at that moment. An old value with a buffer of its own (`Long`) has had it
  freed, and it is written, or freed a second time; a new one gets a buffer that
  may lie in the freed node, and its bytes then replace the pointer to it. Either
  may damage the heap or not (`Damage`). A program with a damaged heap is not
  followed further than that `Get` may answer anything (`GetDamaged`).

A `recv()` without data, and a `send()` to a full connection, do not return: no
action is enabled for the scan until the client acts.

## 4. Runs

Each passing run checks safety and, where the program must get somewhere,
liveness, in one state space; where programs share an environment or are small,
one run holds several, and a behaviour is of one of them.

| Run | Question | Bounds, and why they are enough |
|---|---|---|
| `queue` | Is what was tested still true when acted on; is a wake-up ever lost; do callers see a FIFO channel, and does it make progress? | 2 producers, 2 consumers, 2 messages, limit 2: several waiters on each side, a woken thread overtaken by a new caller, the queue empty, half full and full |
| `pool` | Is each task executed once, never after the bank closed; does the pill always find room; does the destructor return? | 3 workers as in the program, 3 tasks, size 2 (5 and 10 in the program): the queue is full and empty, every worker may or may not see the flag |
| `book` | Is the index exact for every order that no erase has moved, does trading have price-time priority, does a cancel touch one order only, with cancels from anywhere in a level, and does `match()` end? All up to the first erase by a stale iterator | 4 orders, 2 prices, quantities 0 to 2: partial fills on both sides, zero quantities, erasure at the front, at the back and at both inner places of a level, from which either side moves |
| `book_inside` (violation) | Does `cancel_order` cancel the order it names, always? | 4 orders at one price |
| `alert_hang` (violation) | Does Danny always leave? | 4 rounds and sure round 2, the program's numbers |
| `loops` | Select and poll server: is everything received sent back, every byte once and in order, to clients whose chunks strlen() measures rightly; do the watched set and `maxfd` follow the open sockets; is `recv()` only called with something to read, or else only on a client of the same scan; does select serve everyone, and poll leave nothing undone once all have gone? | 3 clients on 2 descriptors, so that one is refused or a descriptor is used again and the largest one closes first; every initial `revents`; one client sends up to 3 bytes, no two alike, that arrive in chunks of one, two or three, or a NUL, the others one byte each while its answers are under way; the buffer has 3 places, so that a chunk of three fills it; a `send()` may fill any client's connection, and any client may leave before its echo |
| `echo_nul` (violation) | Is every message sent back unchanged? | 1 client, up to 3 bytes, a NUL among them |
| `epoll` (violation) | Is anyone ever accepted? | 2 clients; the failure needs one |
| `processes` | Do descriptors leak through `fork()`; does a child outlive FathEXIT; does the server stop completely, and answer otherwise? | 2 children and the parent, 2 signals from the shell, at any instant: between `fork()` and each `signal()` call, in a handler, to a process that has gone |
| `containers` | Ring: is the buffer a dropping deque? LRU cache: is it a cache of the most recent pairs? Priority cache: does eviction follow the stated order, does `Get` answer the last `Set`? Do counters, iterators and keys agree in all of them? Graph: are searches exact, by distance for BFS; which graphs does the sort order wrongly; does every call end? | ring: capacity 3, word size 16: every pair of indices, and a word that is no multiple of the capacity, so that a wrong wrap shows. LRU: 4 keys for 3 places, 2 values. Priority: 3 keys for 2 places (the program's number), 2 priorities, 2 expiries, a clock of 2 instants after the first: expired and live items mixed, both steps of `Evict`, lists left empty; a short value and a long one, so that updates of all four kinds occur, some of which damage the heap. Graph: every graph of 4 vertices with at most 4 edges, loops and double edges included, in every order of adding them: all cycles, and two paths of different length to a vertex |
| `cache_long` (violation) | Does a Set of a key that is there update its entry, whatever was stored? | 2 keys, a short value and a long one |
| `threads` | Pointers: is the count exact and guarded by its mutex, is nothing used after its deletion, do nested releases end? Blackboard: are sentences whole where the lock is used, and what does main print in each stage, does it always? | pointers: 2 threads with 2 and 1 handles, 2 objects, or null pointers, linked in any way, also in a cycle; blackboard: the four programs themselves, two writers of four words |

Bounds that exist for TLC only are constants with "bound of a run" in their
comment (`MaxSend`, `MaxSignals`, `MaxTime`,
`MaxEdges`) and the finite sets. `Window` keeps
the bytes in flight few.

`CHECK_DEADLOCK FALSE` is in the runs where the system may stop: clients that all
have left (`loops`, `echo_nul`, `epoll`), a server that has exited (`processes`),
threads that have ended or wait for ever (`alert_hang`, `threads`), and
pointers (`threads`), where cyclic objects can use up the heap of the instance. In `queue`,
`pool`, the runs of the order book, `containers` and `cache_long` deadlock is checked, in `pool` with an explicit
final state.

### What the violations show

- `book_inside`: `cancel_order` erases inside a deque and leaves the iterators of
  the other orders as they were; the next cancel of one it moved removes another
  order. `book` shows that everything is in order until then.
- `alert_hang`: Danny waits without a predicate, so a notification sent before
  he waits is lost, and nothing need follow.
- `echo_nul`: `strlen(buffer)` stops at the first NUL, so what follows it in the
  message is not sent back, against the comment in the line above. The same claim
  fails in the same line for a message that fills the whole buffer, which is then
  not terminated: `strlen` reads on, and what lies there is sent back as well
  (`Texts`; in `loops` it happens to the client that sends 3 bytes).
- `cache_long`: `Set` assigns the new value to the item it erased a few lines
  above. If the old or the new value is a long string this damages the heap, and
  the cache need not answer with the value set; with short values it does.
- `epoll`: `ev.data.ptr` overwrites `ev.data.fd`; the listening socket is not
  recognised and the loop spins.

One comment is incomplete rather than wrong: `Orderbook.cpp:110`, "Should match
orders o1 and o3". By the priority that `TradesInPriority` states, and in the
code, o1 first trades 5 with o2, whose price of 99 is better, and then the rest
with o3.

## 5. Fairness

- *Threads* (`queue`, `pool`, `alert_hang`, the pointers of `threads`): weak fairness for a
  thread inside a call that needs nothing, as the scheduler runs every runnable
  thread; strong fairness for taking a mutex, which each holder gives up after a
  few steps, so that it is free again and again. `std::mutex` does not promise
  this in the standard; without it no program with a lock has a liveness
  property. Nothing is assumed of callers, of spurious wake-ups, or of the
  visibility of the stop flag.
- *Blackboard*: weak fairness for each thread; each takes the mutex once.
- *Servers*: weak fairness for the one process. A client need not connect, send
  or leave; but one that stays reads what it is sent in the end, or the one
  process hangs in `send()` with everybody else, as the code is written.
  `SelectServes` says so for clients that do not leave before their echo; one
  that does may kill the server (SIGPIPE).
- *Multi-process server*: weak fairness for each process and for the delivery of
  a pending signal, none for clients, the shell, or for failures of calls.
- *Order book (`book`), graph*: weak fairness for `match()` and for a call to the graph,
  which are loops that run.

## 6. What is proved

The proof modules hold for every value of the constants that their named
assumptions allow: any number of threads, workers, clients, descriptors, orders
or nodes, any limit or capacity. The assumptions are in the modules that declare
the constants (`ThreadsAssumption`, `PoolAssumption`, `PointersAssumption`,
`SocketsAssumption`, ...) and say no more than that sets are finite, that
place-holders such as `None` are none of the real values, and that sizes are
numbers; what else a theorem supposes is named with it below. Each inductive
invariant was checked by TLC on its run's instance before it was proved.

| Module | Theorems | Properties of the runs |
|---|---|---|
| `MessageQueueProofs` | `TypeCorrect`, `TestsStable`, `NoWakeupLost`, `Linearizable` | `TypeOK`, `TestStillHolds`, `NoLostWakeup`, `ImplementsChannel` |
| `ThreadPoolProofs` | `PoolInvariance`, `PoolTypeCorrect`, `NoTaskLostOrRepeated`, `NoTaskAfterClosing`, `RepostHasRoom`, `PoolUsesChannel` | `TypeOK`, `EachTaskOnce`, `ClosedAfterLastTask`, `RepostNeverWaits` |
| `OrderBookProofs` | `BookInvariance`, `BookTypeCorrect`, `IndexStaysExact`, `BookTradesInPriority`, `BookCancelsExactly` | `TypeOK`, `IndexExact`, `TradesInPriority`, `CancelExact` |
| `EventLoopProofs` | `SelectInvariance`, `SelectTypeCorrect`, `SelectWatches`, `SelectNeverBlocks`, `SelectEchoes`, `SelectEchoesPlainText`, `PollInvariance`, `PollWatches`, `PollBlocksOnlyOnFresh`, `LoopsBlockOnlyOnFresh`, `PollEchoes`, `PollEchoesPlainText` | `WatchesOpenSockets`, `NeverBlocksInRecv`, `EchoIsExact`, `BlocksOnlyOnFresh` |
| `MultiProcessServerProofs` | `ServerInvariance`, `ServerTypeCorrect`, `OneOwnerPerSocket`, `EveryChildIsTold` | `TypeOK`, `SocketsHaveOneOwner`, `NoChildLeftBehind` |
| `SharedPtrProofs` | `PtrInvariance`, `CountOfHandles`, `NoUseAfterDelete` | `CountExact`, `NothingUsedAfterDelete` |
| `BlackboardProofs` | `BoardInvariance`, `SentencesStayWhole`, `MainPrintsWhatWasWritten` | `SentencesWhole`, `PrintsWhatWasWritten` |
| `ContainerProofs` | `Invariance`, `CountersAgree`, `BufferIsDeque`, `LruInvariance`, `LruIsRecencyCache`, `GraphInvariance`, `SearchesFindExactly`, `SortIsTopological`, `GetAnswersLastSet`, `ShortValuesAreUpdated`, `CacheInvariance`, `EvictionsInOrder`, `ContainersAgree` | `ImplementsDeque`, `ImplementsRecency`, `SearchesExactly`, `SortsTopologically`, `AnswersLastSet`, `EvictsInOrder`, `PartsAgree` |

### Message queue

For all finite sets of producers and consumers (which may overlap), every set of
messages and every `_limit`, negative ones included. The invariant `IInv` is the
conjunction of

- `SafeInv`: types, `TestStillHolds`, *the mutex is held exactly by the thread in
  the critical section* (without it, a test could be invalidated by another
  thread's push), and *who is in `enqueue` is a producer with a message*;
- `ConsumersCovered` and `ProducersCovered`: the two halves of `NoLostWakeup`.
  They are counting arguments: a push adds a message and moves one waiter, if
  any, to the threads on their way; a thread on its way leaves that set only by
  taking a message, or by finding the queue empty, when nothing is to be covered.
  The thread count changes by one in every such step, which the lemmas on
  `Cardinality(At(...))` state once.

The refinement maps `Push` to `Send`, `Pop` to `Receive`, the calls to
`Begin...`, and every other step to a stutter; it needs `TestStillHolds`, as the
channel's `Send` has a guard where the code has a test made earlier.

### Thread pool

The pool uses the queue through what its calls do: lemmas about an instance of
`MessageQueueProofs` give the effect of a push, a pop and the silent steps, and
the pool's own invariant (`PoolInv`) speaks of calls only. It says which call a
worker's place in `ExecuteTask` implies, that a task is at one of five places
(unsent, being sent, queued, in one pair of hands, executed), that the queue
holds tasks in their order and the pill behind all of them, and that there is
one pill: whoever carries it sees an empty queue. The last part is what makes
`RepostNeverWaits` and `ClosedAfterLastTask` follow; `QueueOrdered` is what makes
it inductive. The unlocked flag needs nothing: the proof has every outcome of the
read.

### Order book

Orders are cancelled from anywhere. `BookInv` has the types (`BookTypes`), and,
until `astray`: that `order_index` has exactly the resting orders, with their
side and price, and the place of each that is not in `moved` (`Indexes`), that
each resting order was added as it rests (`Known`), and that a level rests in the
order of arrival (`InOrder`). An erase at the k-th place of a level moves one
side by one place; the orders of that side are the ones that join `moved`
(`Shifted`), and the iterators of all others still name them, in the level too.
`Known` and `InOrder` survive any erase at the place of the order named, as what
stays keeps its order. `match()` erases at fronts only, where nothing moves, but
it may do so with a stale iterator, which is what `astray` records. That the
condition cannot be dropped is what `book_inside` shows.

### Event loops

Descriptors and clients are paired up (`Paired`), and for `select`: `readfds`
and `maxfd` are exact, and *every bit of `tmpfds` that the scan has yet to come
to is still true* (`Ahead`). The last part is the point: between `select()` and
the `recv()` of a descriptor the scan accepts, receives and closes others, and
clients go on sending and leaving; none of it can make a descriptor unreadable
that is not the scan's own. In the poll server the same holds but for the client
accepted in the same scan, whose `revents` is old; that exception is the whole of
`BlocksOnlyOnFresh`. The echo theorems suppose nothing of what clients send:
`EchoIsExact` speaks of each client until one of its own chunks has a NUL or fills
the buffer (`mangled`), so one client's odd message takes nothing from another's
answers. With `PlainText` (no NUL is sent, and less than a buffer full is in
flight) nobody gets there, and the comment's claim, `SentBackUnchanged`, is proved
as well; `echo_nul` shows that it needs the supposition.

### Multi-process server

`ServerInv`: a socket that waits in the backlog is open nowhere and has no child
yet; between `accept()` and the next the parent has one client, whose child does
not exist until `fork()`; the holders of a socket are its child and, until
`close()`, the parent; and once FathEXIT has run the parent forks no more and
every child has ended, is leaving or has the signal pending. Signals may come at
any instant, in the windows between `fork()` and each `signal()` call too; no
bound on their number is used.

### Shared pointers

`PtrInv` counts. The count of an object that is there equals the handles on it
but for those still being added, and the `Release` calls that have yet to take
theirs off (`Counts`). What makes it inductive: the value loaded under the mutex
is still the count at the store (`SeenIsCount`); the mutex is held exactly by the
thread in between (`MutexHeld`); a handle that is written is used by nobody else
(`Exclusive`, the clients' part of the bargain); an object whose own handle is
being used is kept alive by another handle of that thread (`KeptAlive`), so
that it cannot be deleted under the call; and each deletion belongs to
one frame of one `Release` (`DeletedOnce`), also when releases nest.

### Blackboard

`OnBoard` gives the contents from how far each writer has got: with the lock one
writer's words and then the other's, the second only once the first is done; in
the safe, additionally, Danny's words alone after he has wiped Peter's; without
the lock an interleaving, as long as no two writes overlapped. `MutexOK` ties the
mutex to the places of the writers that use it, which the lock in one function
only (`SmartLock.cpp`) does not make enough: there `Locked` is false and nothing
but the interleaving is claimed.

### Containers

- *Circular buffer.* `tail_` is `size_` slots after `head_` (`CountersOK`), and
  these slots are filled. `Following` and `Preceding` are shown to be plus and
  minus one modulo the capacity although `size_t` wraps, from
  `2 * Capacity <= Word`. Each operation is then one of `DroppingDeque`.
- *LRU cache.* `LruInv`: the list holds distinct nodes, at most `LruCapacity` of
  them, and the map sends the keys of these nodes to them and has no others. A
  get or an update takes the pair at one position to the front (`SpliceKeeps`); an
  insertion takes a name no node has (`AFreshName`, which counts), after the last
  node is gone if the cache is full (`EvictKeeps`, `InsertKeeps`). Each is one
  step of `RecencyCache`; that keys are distinct is what makes the node evicted
  the one the abstract cache forgets. The capacity is not 0.
- *Priority cache, answers.* `AnswersLastSet` rests on the heap and the key map
  only (`Holds`): each key has a live node, and the item in it is the last one
  set. Nothing is supposed of the lists, so what `Evict` picks and the priority
  read from freed memory cannot matter to it. `Damage` is the exception: the claim
  ends where the heap is damaged, and `ShortValuesAreUpdated` shows that without
  long values it never is, so that `SetUpdatesEntry` holds.
- *Priority cache, evictions.* `CacheInv` adds that keys and nodes name each other
  (`Keyed`), that every node is once in the list of its priority and in no other
  (`Listed`), that an item before another in a list was used later (`Ordered`),
  and that at most `maxItems` are cached. Erasing nodes is one lemma for all its
  uses (`KeptIs`, then `ThinnedListed`): what is left of a list is an injective
  numbering of the places that stay, by how many of them come before, and so
  keeps their order. Whether the entry of a list that became empty is erased
  depends on freed memory; `Thinned` leaves it open. `Evict` is then read off:
  if the cache is full and an item has expired, the first one the scan meets is
  erased (`FirstExpiredIs`, a least element of `MetBefore`), and if none has, the
  last node of the lowest priority is, which by `Ordered` is the one used least
  recently. A Set after `Evict` has room, hence the size.
- *Each of them in the composed run.* `ContainersAgree` joins the three
  invariants; a step of one program leaves the variables of the others alone.

### Graph

For every number of vertices, every graph and every order of edges, with loops
and double edges; the bound `MaxEdges` plays no part.

- *What is marked was met.* `Met` is what has been printed and, in BFS, what waits
  in `q`: no vertex twice, and exactly what `visited` marks (`Marks`). Each is
  reached from `start` (`Found`). When a search ends, no edge leads from a marked
  vertex to another that is not, so what it met is all of `Reachable(start)`.
- *BFS* is through with the vertices met before `Current`: their edges lead to
  marked ones only (`Through`). The vertices met are in order of distance
  (`NearerFirst`), and none is more than one edge further than the current one
  (`OneFurther`); each part is needed for the other to survive a new vertex. That
  what is not yet met is not nearer follows from a walk having to leave the set
  of what is met somewhere (`LeadsOut`). The least number of a set of naturals
  (`Least`, from the well-foundedness of `<`) does what an induction over walks
  would.
- *DFS and the sort.* The open loops are at different vertices, each reached from
  those outside it, and what a loop has behind it is marked (`Nested`). A vertex
  is marked if and only if its loop is open or it is on `topoStack` (`Depth`), and
  an edge from a vertex on the stack leads to one pushed before it, or to one that
  it can be reached from (`Below`): when a vertex finishes, an edge of it to a
  vertex not yet finished leads to an enclosing loop. With every vertex on the
  stack, `Below` is `SortsTopologically`.

### Model-checked only

- All liveness (`ImplementsFairChannel`, `ShutsDown`, `MatchEnds`, `SelectServes`,
  `PollDrains`, `StopsCompletely`, `AnswersRequests`, `CallsReturn`, `CallsEnd`,
  `Prints`): fairness and ENABLED are out of the prover's reach.
- What runs with a violation shows is a counterexample, and needs no proof.

Every invariant and every action property of the passing runs is stated by a
theorem, and so are the refinements without fairness.

## 7. What is not modelled, and known limits

Components:

- *Fixed queue, `shared_memory.cpp`, `fork.cpp`, blocking client*: these files do
  not compile as they stand, so there is no behaviour to be faithful to.
- *Blocking server, file examples, `signal.cpp`, `time.cpp`*: single system calls
  in a row, in one thread; nothing a model would add to reading them.
- *Test framework*: a registry filled before `main` and one loop over it. Its
  uninitialised `nTestResult` is a single read, with no state behind it.

Within the modelled components:

- *`head = head->next`* of `Shared_Ptr`: `operator=` reads its source after it
  released the object the source is in; no client of the repository does it.
  `UseCount` reads the count without the mutex and decides nothing.
- *NUL bytes and messages of exactly the buffer's size* in the echo servers:
  both occur, in `loops` too, and `echo_nul` reports what becomes of the message;
  what the byte read from beyond a full buffer is (`Junk`), or that there may be
  more than one, is not followed.
- *A failing `select()`, `poll()` or `epoll_wait()`* (`tcpselect.cpp` lines 58 to
  61, `tcppoll.cpp` lines 51 to 54): the server leaves its loop and ends. The
  models have no such step. `select` would fail for a closed descriptor in its
  set, which `WatchesOpenSockets` rules out; what is left to any of them is a
  signal with a handler, of which there is none, or want of kernel memory.
- *SIGPIPE in the multi-process server* ends one child, as its own exit does.
- *A signal to one child between `fork()` and its `signal()` calls* makes the
  child run FathEXIT and end the whole group; `MultiProcessServer` has the
  behaviour, and its properties hold with it.
- *A stale cancel in the order book* can also leave an order that `match()`
  meets for ever; `book_inside` reports the earlier symptom, and `MatchEnds` is
  stated up to `astray`.
- *Negative quantities in the order book*: `Order.quantity` is an `int` and
  `add_order` checks nothing, but `Quantities` are natural numbers. A trade of a
  negative quantity would add to the other order; nothing says what it should do.
- *A damaged heap in the priority cache* is not followed (section 3): the
  containers' properties speak of the program up to the damage.
- *A negative limit of the message queue* occurs in no run, but the theorems cover it.
- *A parent that fails in `fork()` or `accept()` while its children serve*
  (multi-process server): the step is there, but in the model, as between real
  processes, the parent has no hold on a child's connection, so that
  `AnswersRequests` tests it little.
- *A second order with the id of a resting one*: clients of the model use an id once.
- *Task lists long enough for the queue's storage to be used again* in the pool.
- *A descriptor of 2048 or more* in the poll server's array.
- *A graph edge to a vertex that does not exist*, and an LRU cache of capacity 0,
  for which the code has no behaviour: clients do neither.

## 8. Plan

Done, in this order: message queue and its channel with their proofs; thread
pool on top; order book; circular buffer with its deque; priority cache; shared
pointer; the servers; the stock alert; then the LRU cache with its abstract
cache, the four blackboards, the graph, null pointers, and `send()` that blocks
or kills in the servers.

Then the proofs: thread pool on top of the queue's; circular buffer; select and
poll server; shared pointer; multi-process server; order book; blackboard; LRU
cache; what the priority cache answers; what the graph prints; how the priority
cache evicts. For the last two the definitions over lists and walks that recursed
were first restated without recursion (by rank, by set, by relation).

Next, in the order of worth:

1. Reuse of storage in the thread pool, and of ids in the order book, as constants.
2. `MessageQueue` and `SharedPtr`: that no thread holds a mutex at rest, and other
   facts the liveness properties rest on, as invariants.
